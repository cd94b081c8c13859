------------------------- MODULE SidecarEventsProofs -------------------------
(***************************************************************************)
(* SidecarEvents implements EventStream, keeps its types, and lets no long *)
(* poll sleep past an event, for every set of clients and every page size. *)
(***************************************************************************)
EXTENDS SidecarEvents, TLAPS

USE SidecarAssumption DEF Reader

\* A key is generated only when there is none: first, or after one was lost.
TableInv ==
  /\ events \in Seq(Row) /\ Len(events) <= MaxEvents
  /\ storeKey \in Nat /\ keys \in Nat /\ storeKey <= keys
  /\ faults \in 0..MaxFault
  /\ keys <= (IF storeKey = 0 THEN faults ELSE faults + 1)
  /\ queue \in Nat /\ queue <= Len(events) + MaxQueue

\* A page under way goes on where its client stands.
GoesOn(page, id) == \A i \in 1..Len(page) : page[i] = id + i

FirstIds(n) == [id \in 1..n |-> id]

ClientInv ==
  /\ after \in [Reader -> Nat]
  /\ told \in [Reader -> Seq(Id)]
  /\ \A c \in Reader :
       /\ after[c] <= Len(events)
       /\ told[c] = FirstIds(after[c])

PollInv ==
  /\ poll \in [Poller -> PollState]
  /\ answer \in [Poller -> Seq(Id)]
  /\ \A p \in Poller :
       /\ GoesOn(answer[p], after[p])
       /\ after[p] + Len(answer[p]) <= Len(events)
       /\ poll[p] # "answered" => answer[p] = <<>>

\* Of a stream: what is in the pipe, then what is left of the page, go on where
\* the client stands, up to the cursor.
InStep(state, cur, page, frames, id) ==
  /\ cur <= Len(events)
  /\ GoesOn(frames, id)
  /\ GoesOn(page, id + Len(frames))
  /\ state # "on" => page = <<>>
  /\ state = "off" => frames = <<>>
  /\ state = "on" => cur = id + Len(frames) + Len(page)
  /\ id + Len(frames) + Len(page) <= Len(events)

StreamInv ==
  /\ stream \in [Streamer -> {"off", "on", "ended"}]
  /\ cursor \in [Streamer -> Nat]
  /\ batch \in [Streamer -> Seq(Id)]
  /\ pipe \in [Streamer -> Seq(Id)]
  /\ \A s \in Streamer : InStep(stream[s], cursor[s], batch[s], pipe[s], after[s])

\* Who waits for the condition's lock
LockInv ==
  /\ lock \in Poller \cup {Nobody}
  /\ lockQueue \in Seq(Poller \cup {Consumer})
  /\ consumer \in {"get", "queued"}
  /\ late \in [Poller -> BOOLEAN]

StreamingInv == TableInv /\ ClientInv /\ PollInv /\ StreamInv /\ LockInv
-----------------------------------------------------------------------------
\* A page of list_sidecar_events starts right after after_id, has no gap and
\* holds nothing that is not in the table.
LEMMA PageGoesOn ==
  ASSUME TableInv, NEW id \in Nat, id <= Len(events), NEW limit \in Nat \ {0}
  PROVE  LET page == ListSidecarEvents(id, limit)
         IN  /\ page \in Seq(Id)
             /\ GoesOn(page, id)
             /\ id + Len(page) <= Len(events)
             /\ NextAfter(page, id) = id + Len(page)
<1> DEFINE n == IF Len(events) < id + limit THEN Len(events) - id ELSE limit
           page == ListSidecarEvents(id, limit)
<1>1. Len(events) \in Nat /\ n \in Nat /\ id + n <= Len(events)
  BY DEF TableInv
<1>2. page = [i \in 1..n |-> id + i]
  BY DEF ListSidecarEvents
<1> HIDE DEF n, page
<1>3. \A i \in 1..n : id + i \in Id
  BY <1>1 DEF Id, TableInv
<1>4. page \in Seq(Id) /\ Len(page) = n
  BY <1>1, <1>2, <1>3
<1>5. GoesOn(page, id)
  BY <1>2, <1>4 DEF GoesOn
<1>6. NextAfter(page, id) = id + Len(page)
  <2>1. CASE n = 0
    BY <1>4, <2>1 DEF NextAfter
  <2>2. CASE n # 0
    BY <1>1, <1>4, <1>5, <2>2 DEF NextAfter, GoesOn
  <2> QED
    BY <2>1, <2>2
<1> QED
  BY <1>1, <1>4, <1>5, <1>6 DEF page

\* At the start nothing is stored, asked or told.
LEMMA StreamingStarts == Init => StreamingInv
<1> SUFFICES ASSUME Init PROVE StreamingInv
  OBVIOUS
<1>1. TableInv
  BY DEF Init, TableInv
<1>2. ClientInv
  <2>1. FirstIds(0) = <<>>
    BY DEF FirstIds
  <2>2. \A c \in Reader : after[c] = 0 /\ told[c] = <<>>
    BY DEF Init
  <2>3. \A c \in Reader : told[c] = FirstIds(after[c])
    BY <2>1, <2>2
  <2>4. after \in [Reader -> Nat] /\ told \in [Reader -> Seq(Id)] /\ Len(events) = 0
    BY DEF Init
  <2> QED
    BY <2>2, <2>3, <2>4 DEF ClientInv
<1>3. PollInv
  BY DEF Init, PollInv, PollState, GoesOn
<1>4. StreamInv
  BY DEF Init, StreamInv, GoesOn, InStep
<1>5. LockInv
  BY DEF Init, LockInv
<1> QED
  BY <1>1, <1>2, <1>3, <1>4, <1>5 DEF StreamingInv
-----------------------------------------------------------------------------
\* What a step of the sidecar does to the table.
LEMMA TableSteps ==
  ASSUME TableInv, [Next]_vars
  PROVE  \/ UNCHANGED <<events, storeKey, keys, faults>> /\ (queue' = queue \/ (queue > 0 /\ queue' = queue - 1))
         \/ ObserveMessage
         \/ ObserveReceipt
         \/ ObserveNoRow
         \/ Fault /\ UNCHANGED <<events, keys>> /\ ((storeKey' = storeKey /\ queue' \in {0, queue}) \/ LoseKey)
<1> USE DEF tableVars, wakeVars, pollVars, streamVars, clientVars
<1>1. CASE UNCHANGED vars
  BY <1>1 DEF vars
<1>2. CASE RuntimeStep
  BY <1>2 DEF RuntimeStep
<1>3. CASE ConsumerStep
  BY <1>3 DEF ConsumerStep, ConsumerTakes, ConsumerNotifies
<1>4. ASSUME NEW p \in Poller, HandlerStep(p) \/ DeadlinePasses(p) \/ PollerStep(p)
      PROVE UNCHANGED <<events, storeKey, keys, faults, queue>>
  BY <1>4 DEF HandlerStep, Look, LockTurn, Park, TimesOut, Regain, Leave,
    DeadlinePasses, PollerStep, Ask, Receive, ReceiveError
<1>5. ASSUME NEW s \in Streamer, GeneratorStep(s) \/ StreamerStep(s)
      PROVE UNCHANGED <<events, storeKey, keys, faults, queue>>
  BY <1>5 DEF GeneratorStep, StreamerStep, StreamLook, Yield, Connect, ReadFrame,
    StreamEnds
<1>6. CASE \E p \in Poller : LoseAnswer(p)
  BY <1>6 DEF LoseAnswer
<1>7. CASE \E s \in Streamer : BreakStream(s)
  BY <1>7 DEF BreakStream
<1>8. CASE LoseKey
  BY <1>8 DEF LoseKey
<1>9. CASE Restart
  BY <1>9 DEF Restart
<1> QED
  BY <1>1, <1>2, <1>3, <1>4, <1>5, <1>6, <1>7, <1>8, <1>9 DEF Next

\* The table only grows, within its bound, and a key is one of those generated.
LEMMA TableKept ==
  ASSUME TableInv, [Next]_vars
  PROVE  TableInv' /\ Len(events) <= Len(events')
<1>1. CASE UNCHANGED <<events, storeKey, keys, faults>> /\ (queue' = queue \/ (queue > 0 /\ queue' = queue - 1))
  BY <1>1 DEF TableInv
<1>2. CASE ObserveMessage
  <2>1. /\ storeKey' \in Key /\ storeKey' # 0 /\ storeKey' <= keys'
        /\ keys' \in Nat /\ keys' <= faults + 1
    BY <1>2 DEF ObserveMessage, TableInv, Key
  <2>2. events' \in Seq(Row) /\ Len(events') = Len(events) + 1
    <3>1. [type |-> "message", key |-> storeKey'] \in Row
      BY <2>1 DEF Row
    <3> QED
      BY <1>2, <3>1 DEF ObserveMessage, TableInv
  <2> QED
    BY <1>2, <2>1, <2>2 DEF ObserveMessage, TableInv, Key
<1>3. CASE ObserveReceipt
  <2>1. events' \in Seq(Row) /\ Len(events') = Len(events) + 1
    <3>1. [type |-> "delivery_receipt", key |-> 0] \in Row
      BY DEF Row
    <3> QED
      BY <1>3, <3>1 DEF ObserveReceipt, TableInv
  <2> QED
    BY <1>3, <2>1 DEF ObserveReceipt, TableInv
<1>4. CASE ObserveNoRow
  BY <1>4 DEF ObserveNoRow, TableInv, tableVars
<1>5. CASE Fault /\ UNCHANGED <<events, keys>> /\ ((storeKey' = storeKey /\ queue' \in {0, queue}) \/ LoseKey)
  BY <1>5 DEF Fault, LoseKey, TableInv, wakeVars
<1> QED
  BY <1>1, <1>2, <1>3, <1>4, <1>5, TableSteps
-----------------------------------------------------------------------------
\* What a step does to a client: a page reaches it, or a frame, or nothing.
LEMMA ClientSteps ==
  ASSUME [Next]_vars
  PROVE  \/ UNCHANGED <<after, told>>
         \/ UNCHANGED events /\ \E p \in Poller : Receive(p)
         \/ UNCHANGED events /\ \E s \in Streamer : ReadFrame(s)
<1> USE DEF tableVars, wakeVars, pollVars, streamVars, clientVars
<1>1. CASE UNCHANGED vars
  BY <1>1 DEF vars
<1>2. CASE RuntimeStep \/ ConsumerStep
  BY <1>2 DEF RuntimeStep, ObserveMessage, ObserveReceipt, ObserveNoRow,
    ConsumerStep, ConsumerTakes, ConsumerNotifies
<1>3. ASSUME NEW p \in Poller,
             HandlerStep(p) \/ DeadlinePasses(p) \/ PollerStep(p) \/ LoseAnswer(p)
      PROVE  UNCHANGED <<after, told>> \/ (UNCHANGED events /\ Receive(p))
  BY <1>3 DEF HandlerStep, Look, LockTurn, Park, TimesOut, Regain, Leave,
    DeadlinePasses, PollerStep, Ask, Receive, ReceiveError, LoseAnswer
<1>4. ASSUME NEW s \in Streamer, GeneratorStep(s) \/ StreamerStep(s) \/ BreakStream(s)
      PROVE  UNCHANGED <<after, told>> \/ (UNCHANGED events /\ ReadFrame(s))
  BY <1>4 DEF GeneratorStep, StreamerStep, StreamLook, Yield, Connect, ReadFrame,
    StreamEnds, BreakStream
<1>5. CASE LoseKey \/ Restart
  BY <1>5 DEF LoseKey, Restart
<1> QED
  BY <1>1, <1>2, <1>3, <1>4, <1>5 DEF Next

\* What was told and a page that goes on there make what is told next.
LEMMA ToldAndPage ==
  ASSUME NEW k \in Nat, NEW page \in Seq(Id), GoesOn(page, k)
  PROVE  FirstIds(k) \o page = FirstIds(k + Len(page))
<1> DEFINE s == FirstIds(k)
           n == k + Len(page)
<1>1. s \in Seq(Nat) /\ Len(s) = k /\ \A i \in 1..k : s[i] = i
  BY DEF FirstIds
<1>2. page \in Seq(Nat) /\ Len(page) \in Nat
  BY DEF Id
<1> HIDE DEF s
<1>3. s \o page \in Seq(Nat) /\ Len(s \o page) = n
  BY <1>1, <1>2
<1>4. ASSUME NEW i \in 1..n PROVE (s \o page)[i] = i
  <2>1. CASE i <= k
    BY <1>1, <1>2, <2>1
  <2>2. CASE i > k
    <3>1. i - k \in 1..Len(page)
      BY <1>2, <2>2
    <3>2. (s \o page)[i] = page[i - k]
      BY <1>1, <1>2, <2>2
    <3>3. page[i - k] = k + (i - k)
      BY <3>1 DEF GoesOn
    <3> QED
      BY <1>2, <3>2, <3>3
  <2>3. i <= k \/ i > k
    BY <1>2
  <2> QED
    BY <2>1, <2>2, <2>3
<1>5. s \o page = FirstIds(n)
  <2> DEFINE both == s \o page
  <2>1. both \in Seq(Nat) /\ Len(both) = n /\ \A i \in 1..n : both[i] = i
    BY <1>3, <1>4
  <2> HIDE DEF both, n
  <2>2. both = [i \in 1..n |-> both[i]]
    BY <2>1
  <2>3. both = FirstIds(n)
    BY <2>1, <2>2 DEF FirstIds
  <2> QED
    BY <2>3 DEF both
<1> QED
  BY <1>5 DEF s

\* The page in an answer goes on where its poller stands.
LEMMA AnswerIsToldNext ==
  ASSUME StreamingInv, NEW p \in Poller, Receive(p)
  PROVE  LET n == after[p] + Len(answer[p])
         IN  /\ n \in Nat /\ n <= Len(events)
             /\ after' = [after EXCEPT ![p] = n]
             /\ told' = [told EXCEPT ![p] = FirstIds(n)]
<1> DEFINE n == after[p] + Len(answer[p])
<1>1. /\ after \in [Reader -> Nat] /\ told \in [Reader -> Seq(Id)] /\ p \in Reader
      /\ answer[p] \in Seq(Id) /\ GoesOn(answer[p], after[p])
      /\ told[p] = FirstIds(after[p]) /\ n <= Len(events)
  BY DEF StreamingInv, ClientInv, PollInv
<1>2. NextAfter(answer[p], after[p]) = n
  <2>1. CASE answer[p] = <<>>
    BY <1>1, <2>1 DEF NextAfter
  <2>2. CASE answer[p] # <<>>
    BY <1>1, <2>2 DEF NextAfter, GoesOn
  <2> QED
    BY <2>1, <2>2
<1>3. told[p] \o answer[p] = FirstIds(n)
  BY <1>1, ToldAndPage DEF ClientInv
<1>4. n \in Nat
  BY <1>1
<1> QED
  BY <1>1, <1>2, <1>3, <1>4 DEF Receive

\* So does the next frame of a stream.
LEMMA FrameIsToldNext ==
  ASSUME StreamingInv, NEW s \in Streamer, ReadFrame(s)
  PROVE  LET n == after[s] + 1
         IN  /\ n \in Nat /\ n <= Len(events)
             /\ after' = [after EXCEPT ![s] = n]
             /\ told' = [told EXCEPT ![s] = FirstIds(n)]
<1> DEFINE n == after[s] + 1
<1>1. /\ after \in [Reader -> Nat] /\ told \in [Reader -> Seq(Id)] /\ s \in Reader
      /\ pipe[s] \in Seq(Id) /\ batch[s] \in Seq(Id) /\ GoesOn(pipe[s], after[s])
      /\ told[s] = FirstIds(after[s])
      /\ after[s] + Len(pipe[s]) + Len(batch[s]) <= Len(events)
      /\ Len(events) \in Nat
  BY DEF StreamingInv, TableInv, ClientInv, StreamInv, InStep
<1>2. pipe[s] # <<>> /\ Len(pipe[s]) \in Nat \ {0} /\ Len(batch[s]) \in Nat
  BY <1>1 DEF ReadFrame
<1>3. Head(pipe[s]) = n /\ n \in Id
  BY <1>1, <1>2 DEF GoesOn
<1>4. Append(told[s], n) = FirstIds(n)
  BY <1>1, <1>3 DEF FirstIds
<1>5. n \in Nat /\ n <= Len(events)
  BY <1>1, <1>2
<1> QED
  BY <1>1, <1>3, <1>4, <1>5 DEF ReadFrame

\* A client was told exactly the events up to its after_id.
LEMMA ClientKept ==
  ASSUME StreamingInv, [Next]_vars
  PROVE  ClientInv'
<1>1. Len(events) \in Nat /\ Len(events') \in Nat /\ Len(events) <= Len(events') /\ Len(events') <= MaxEvents
  BY TableKept DEF StreamingInv, TableInv
<1>2. CASE UNCHANGED <<after, told>>
  BY <1>1, <1>2 DEF StreamingInv, ClientInv
<1>3. ASSUME NEW c \in Reader, NEW n \in Nat, n <= Len(events),
             after' = [after EXCEPT ![c] = n],
             told' = [told EXCEPT ![c] = FirstIds(n)]
      PROVE  ClientInv'
  <2>1. FirstIds(n) \in Seq(Id)
    BY <1>1, <1>3 DEF Id, FirstIds
  <2>2. after' \in [Reader -> Nat] /\ told' \in [Reader -> Seq(Id)]
    BY <1>3, <2>1 DEF StreamingInv, ClientInv
  <2>3. ASSUME NEW d \in Reader
        PROVE  after'[d] <= Len(events') /\ told'[d] = FirstIds(after'[d])
    <3>1. CASE d = c
      BY <1>1, <1>3, <3>1 DEF StreamingInv, ClientInv
    <3>2. CASE d # c
      <4>1. after'[d] = after[d] /\ told'[d] = told[d]
        BY <1>3, <3>2 DEF StreamingInv, ClientInv
      <4> QED
        BY <1>1, <4>1 DEF StreamingInv, ClientInv
    <3> QED
      BY <3>1, <3>2
  <2> QED
    BY <2>2, <2>3 DEF ClientInv
<1>4. CASE \E p \in Poller : Receive(p)
  BY <1>3, <1>4, AnswerIsToldNext
<1>5. CASE \E s \in Streamer : ReadFrame(s)
  BY <1>3, <1>5, FrameIsToldNext
<1> QED
  BY <1>2, <1>4, <1>5, ClientSteps
-----------------------------------------------------------------------------
AnswersStay ==
  /\ UNCHANGED <<answer, after>>
  /\ poll' \in [Poller -> PollState]
  /\ \A q \in Poller : poll[q] = "answered" => poll'[q] = "answered"

Answers(p) ==
  LET page == ListSidecarEvents(after[p], PollLimit) IN
  /\ poll' = [poll EXCEPT ![p] = "answered"]
  /\ answer' = [answer EXCEPT ![p] = page]
  /\ UNCHANGED after

\* What a step does to the answers of long polls.
LEMMA AnswerSteps ==
  ASSUME StreamingInv, [Next]_vars
  PROVE  \/ AnswersStay
         \/ \E p \in Poller : Answers(p) \/ Receive(p) \/ LoseAnswer(p)
         \/ UNCHANGED <<poll, answer>> /\ \E s \in Streamer : ReadFrame(s)
         \/ Restart
<1> USE DEF tableVars, wakeVars, pollVars, streamVars, clientVars
<1>1. poll \in [Poller -> PollState]
  BY DEF StreamingInv, PollInv
<1>2. CASE UNCHANGED vars
  BY <1>1, <1>2 DEF vars, AnswersStay
<1>3. CASE RuntimeStep
  BY <1>1, <1>3 DEF RuntimeStep, ObserveMessage, ObserveReceipt, ObserveNoRow,
    AnswersStay
<1>4. CASE ConsumerStep
  BY <1>1, <1>4 DEF ConsumerStep, ConsumerTakes, ConsumerNotifies, NotifyAll,
    PollState, AnswersStay
<1>5. ASSUME NEW p \in Poller, HandlerStep(p)
      PROVE  AnswersStay \/ Answers(p)
  <2>1. CASE Look(p)
    BY <1>1, <2>1 DEF Look, AskLock, AnswersStay, Answers, PollState
  <2>2. CASE LockTurn(p)
    BY <1>1, <2>2 DEF LockTurn, TakeLock, AnswersStay, PollState
  <2>3. CASE Park(p) \/ TimesOut(p) \/ Leave(p)
    BY <1>1, <2>3 DEF Park, TimesOut, Leave, AnswersStay, PollState
  <2>4. CASE Regain(p)
    BY <1>1, <2>4 DEF Regain, AskLock, AnswersStay, PollState
  <2> QED
    BY <1>5, <2>1, <2>2, <2>3, <2>4 DEF HandlerStep
<1>6. ASSUME NEW p \in Poller, DeadlinePasses(p) \/ Ask(p) \/ ReceiveError(p)
      PROVE  AnswersStay
  BY <1>1, <1>6 DEF DeadlinePasses, Ask, ReceiveError, AnswersStay, PollState
<1>7. ASSUME NEW s \in Streamer, GeneratorStep(s) \/ StreamerStep(s) \/ BreakStream(s)
      PROVE  AnswersStay \/ (UNCHANGED <<poll, answer>> /\ ReadFrame(s))
  BY <1>1, <1>7 DEF GeneratorStep, StreamerStep, StreamLook, Yield, Connect,
    ReadFrame, StreamEnds, BreakStream, AnswersStay
<1>8. CASE LoseKey
  BY <1>1, <1>8 DEF LoseKey, AnswersStay
<1> QED
  BY <1>2, <1>3, <1>4, <1>5, <1>6, <1>7, <1>8 DEF Next, PollerStep

\* An answer under way goes on where its client stands.
LEMMA PollKept ==
  ASSUME StreamingInv, [Next]_vars
  PROVE  PollInv'
<1>1. /\ poll \in [Poller -> PollState] /\ answer \in [Poller -> Seq(Id)]
      /\ after \in [Reader -> Nat]
      /\ \A p \in Poller :
           /\ after[p] \in Nat /\ answer[p] \in Seq(Id)
           /\ after[p] <= Len(events) /\ GoesOn(answer[p], after[p])
           /\ after[p] + Len(answer[p]) <= Len(events)
           /\ poll[p] # "answered" => answer[p] = <<>>
  BY DEF StreamingInv, PollInv, ClientInv
<1>2. Len(events) \in Nat /\ Len(events') \in Nat /\ Len(events) <= Len(events')
  BY TableKept DEF StreamingInv, TableInv
<1>3. CASE AnswersStay
  BY <1>1, <1>2, <1>3 DEF AnswersStay, PollInv
<1>4. ASSUME NEW p \in Poller, Answers(p)
      PROVE  PollInv'
  <2> DEFINE page == ListSidecarEvents(after[p], PollLimit)
  <2>1. /\ page \in Seq(Id) /\ GoesOn(page, after[p])
        /\ after[p] + Len(page) <= Len(events)
    BY <1>1, PageGoesOn DEF StreamingInv
  <2>2. /\ poll' = [poll EXCEPT ![p] = "answered"]
        /\ answer' = [answer EXCEPT ![p] = page]
        /\ UNCHANGED after
    BY <1>4 DEF Answers
  <2> HIDE DEF page
  <2> QED
    BY <1>1, <1>2, <2>1, <2>2 DEF PollInv, PollState
<1>5. GoesOn(<<>>, 0) /\ \A n \in Nat : GoesOn(<<>>, n)
  BY DEF GoesOn
<1>6. ASSUME NEW p \in Poller, Receive(p)
      PROVE  PollInv'
  <2> DEFINE n == after[p] + Len(answer[p])
  <2>1. /\ poll' = [poll EXCEPT ![p] = "off"]
        /\ answer' = [answer EXCEPT ![p] = <<>>]
    BY <1>6 DEF Receive
  <2>2. n \in Nat /\ n <= Len(events) /\ after' = [after EXCEPT ![p] = n]
    BY <1>6, AnswerIsToldNext
  <2> HIDE DEF n
  <2>3. poll' \in [Poller -> PollState] /\ answer' \in [Poller -> Seq(Id)]
    BY <1>1, <2>1 DEF PollState
  <2>4. ASSUME NEW q \in Poller
        PROVE  /\ GoesOn(answer'[q], after'[q])
               /\ after'[q] + Len(answer'[q]) <= Len(events')
               /\ poll'[q] # "answered" => answer'[q] = <<>>
    <3>1. CASE q = p
      <4>1. answer'[q] = <<>> /\ after'[q] = n
        BY <1>1, <2>1, <2>2, <3>1
      <4> QED
        BY <1>2, <1>5, <2>2, <4>1
    <3>2. CASE q # p
      <4>1. answer'[q] = answer[q] /\ after'[q] = after[q] /\ poll'[q] = poll[q]
        BY <1>1, <2>1, <2>2, <3>2
      <4> QED
        BY <1>1, <1>2, <4>1
    <3> QED
      BY <3>1, <3>2
  <2> QED
    BY <2>3, <2>4 DEF PollInv
<1>7. CASE \E p \in Poller : LoseAnswer(p)
  BY <1>1, <1>2, <1>5, <1>7 DEF LoseAnswer, PollInv, PollState, clientVars
<1>8. CASE UNCHANGED <<poll, answer>> /\ \E s \in Streamer : ReadFrame(s)
  <2>1. \A q \in Poller : after'[q] = after[q]
    BY <1>1, <1>8 DEF ReadFrame
  <2> QED
    BY <1>1, <1>2, <1>8, <2>1 DEF PollInv
<1>9. CASE Restart
  BY <1>1, <1>2, <1>5, <1>9 DEF Restart, PollInv, PollState, clientVars
<1> QED
  BY <1>3, <1>4, <1>6, <1>7, <1>8, <1>9, AnswerSteps
-----------------------------------------------------------------------------
StreamStep(s) ==
  Connect(s) \/ StreamLook(s) \/ Yield(s) \/ ReadFrame(s) \/ StreamEnds(s) \/ BreakStream(s)

\* What a step does to the streams.
LEMMA StreamSteps ==
  ASSUME [Next]_vars
  PROVE  \/ UNCHANGED <<stream, cursor, batch, pipe, after>>
         \/ UNCHANGED <<stream, cursor, batch, pipe>> /\ \E p \in Poller : Receive(p)
         \/ UNCHANGED events /\ \E s \in Streamer : StreamStep(s)
         \/ Restart
<1> USE DEF tableVars, wakeVars, pollVars, streamVars, clientVars
<1>1. CASE UNCHANGED vars
  BY <1>1 DEF vars
<1>2. CASE RuntimeStep \/ ConsumerStep
  BY <1>2 DEF RuntimeStep, ObserveMessage, ObserveReceipt, ObserveNoRow,
    ConsumerStep, ConsumerTakes, ConsumerNotifies
<1>3. ASSUME NEW p \in Poller,
             HandlerStep(p) \/ DeadlinePasses(p) \/ PollerStep(p) \/ LoseAnswer(p)
      PROVE  UNCHANGED <<stream, cursor, batch, pipe>> /\ (UNCHANGED after \/ Receive(p))
  BY <1>3 DEF HandlerStep, Look, LockTurn, Park, TimesOut, Regain, Leave,
    DeadlinePasses, PollerStep, Ask, Receive, ReceiveError, LoseAnswer
<1>4. ASSUME NEW s \in Streamer, GeneratorStep(s) \/ StreamerStep(s) \/ BreakStream(s)
      PROVE  UNCHANGED events /\ StreamStep(s)
  BY <1>4 DEF GeneratorStep, StreamerStep, StreamStep, StreamLook, Yield, Connect,
    ReadFrame, StreamEnds, BreakStream
<1>5. CASE LoseKey
  BY <1>5 DEF LoseKey
<1> QED
  BY <1>1, <1>2, <1>3, <1>4, <1>5 DEF Next

Moves(s, state, cur, page, frames, id) ==
  /\ stream' = [stream EXCEPT ![s] = state]
  /\ cursor' = [cursor EXCEPT ![s] = cur]
  /\ batch' = [batch EXCEPT ![s] = page]
  /\ pipe' = [pipe EXCEPT ![s] = frames]
  /\ after' = [after EXCEPT ![s] = id]
  /\ state \in {"off", "on", "ended"} /\ cur \in Nat
  /\ page \in Seq(Id) /\ frames \in Seq(Id) /\ id \in Nat

\* A step of one stream leaves the others alone and keeps its own in step.
LEMMA OneStreamKept ==
  ASSUME StreamingInv, NEW s \in Streamer, StreamStep(s), UNCHANGED events
  PROVE  StreamInv'
<1>1. /\ stream \in [Streamer -> {"off", "on", "ended"}]
      /\ cursor \in [Streamer -> Nat]
      /\ batch \in [Streamer -> Seq(Id)] /\ pipe \in [Streamer -> Seq(Id)]
      /\ after \in [Reader -> Nat]
      /\ \A c \in Reader : after[c] <= Len(events)
      /\ \A u \in Streamer : InStep(stream[u], cursor[u], batch[u], pipe[u], after[u])
  BY DEF StreamingInv, StreamInv, ClientInv
<1>2. Len(events) \in Nat
  BY DEF StreamingInv, TableInv
<1>3. ASSUME NEW state, NEW cur, NEW page, NEW frames, NEW id,
             Moves(s, state, cur, page, frames, id),
             InStep(state, cur, page, frames, id)
      PROVE  StreamInv'
  <2>1. /\ stream' \in [Streamer -> {"off", "on", "ended"}]
        /\ cursor' \in [Streamer -> Nat]
        /\ batch' \in [Streamer -> Seq(Id)] /\ pipe' \in [Streamer -> Seq(Id)]
    BY <1>1, <1>3 DEF Moves
  <2>2. ASSUME NEW u \in Streamer
        PROVE  InStep(stream[u], cursor[u], batch[u], pipe[u], after[u])'
    <3>1. CASE u = s
      <4>1. /\ stream'[u] = state /\ cursor'[u] = cur /\ batch'[u] = page
            /\ pipe'[u] = frames /\ after'[u] = id
        BY <1>1, <1>3, <3>1 DEF Moves
      <4> QED
        BY <1>3, <4>1 DEF InStep, GoesOn
    <3>2. CASE u # s
      <4>1. /\ stream'[u] = stream[u] /\ cursor'[u] = cursor[u] /\ batch'[u] = batch[u]
            /\ pipe'[u] = pipe[u] /\ after'[u] = after[u]
        BY <1>1, <1>3, <3>2 DEF Moves
      <4> QED
        BY <1>1, <4>1 DEF InStep, GoesOn
    <3> QED
      BY <3>1, <3>2
  <2> QED
    BY <2>1, <2>2 DEF StreamInv
<1> DEFINE id == after[s]
           frames == pipe[s]
           page == batch[s]
<1>4. /\ id \in Nat /\ frames \in Seq(Id) /\ page \in Seq(Id) /\ cursor[s] \in Nat
      /\ stream[s] \in {"off", "on", "ended"} /\ id <= Len(events)
      /\ InStep(stream[s], cursor[s], page, frames, id)
  BY <1>1
<1>5. /\ stream = [stream EXCEPT ![s] = stream[s]]
      /\ cursor = [cursor EXCEPT ![s] = cursor[s]]
      /\ batch = [batch EXCEPT ![s] = page]
      /\ pipe = [pipe EXCEPT ![s] = frames]
      /\ after = [after EXCEPT ![s] = id]
  BY <1>1
<1> HIDE DEF id, frames, page
<1>6. CASE Connect(s)
  <2>1. /\ stream' = [stream EXCEPT ![s] = "on"] /\ cursor' = [cursor EXCEPT ![s] = id]
        /\ UNCHANGED <<batch, pipe, after>> /\ stream[s] = "off"
    BY <1>6 DEF Connect, clientVars, id
  <2>2. page = <<>> /\ frames = <<>>
    BY <1>4, <2>1 DEF InStep
  <2>3. InStep("on", id, page, frames, id)
    BY <1>2, <1>4, <2>2 DEF InStep, GoesOn
  <2> QED
    <3>1. Moves(s, "on", id, page, frames, id)
      BY <1>4, <1>5, <2>1 DEF Moves
    <3> QED
      BY <1>3, <2>3, <3>1
<1>7. CASE StreamLook(s)
  <2> DEFINE next == ListSidecarEvents(cursor[s], StreamLimit)
  <2>1. /\ next \in Seq(Id) /\ GoesOn(next, cursor[s])
        /\ cursor[s] + Len(next) <= Len(events)
        /\ NextAfter(next, cursor[s]) = cursor[s] + Len(next)
    BY <1>4, PageGoesOn DEF StreamingInv, InStep
  <2>2. /\ stream[s] = "on" /\ page = <<>> /\ UNCHANGED <<pipe, after>>
        /\ \/ /\ cursor' = [cursor EXCEPT ![s] = cursor[s] + Len(next)]
              /\ batch' = [batch EXCEPT ![s] = next]
              /\ UNCHANGED stream
           \/ stream' = [stream EXCEPT ![s] = "ended"] /\ UNCHANGED <<cursor, batch>>
    BY <1>1, <1>7, <2>1 DEF StreamLook, clientVars, page
  <2> HIDE DEF next
  <2>3. cursor[s] = id + Len(frames)
    BY <1>4, <2>2 DEF InStep
  <2>4. InStep("on", cursor[s] + Len(next), next, frames, id)
    BY <1>2, <1>4, <2>1, <2>2, <2>3 DEF InStep
  <2>5. InStep("ended", cursor[s], page, frames, id)
    BY <1>4, <2>2 DEF InStep
  <2>6. cursor[s] + Len(next) \in Nat
    BY <1>4, <2>1
  <2> QED
    <3>1. \/ Moves(s, "on", cursor[s] + Len(next), next, frames, id)
          \/ Moves(s, "ended", cursor[s], page, frames, id)
      BY <1>4, <1>5, <2>1, <2>2, <2>6 DEF Moves
    <3> QED
      BY <1>3, <2>4, <2>5, <3>1
<1>8. CASE Yield(s)
  <2>1. /\ stream[s] = "on" /\ page # <<>> /\ UNCHANGED <<stream, cursor, after>>
        /\ pipe' = [pipe EXCEPT ![s] = Append(frames, Head(page))]
        /\ batch' = [batch EXCEPT ![s] = Tail(page)]
    BY <1>1, <1>8 DEF Yield, clientVars, page, frames
  <2>2. /\ Append(frames, Head(page)) \in Seq(Id) /\ Tail(page) \in Seq(Id)
        /\ Len(Append(frames, Head(page))) = Len(frames) + 1
        /\ Len(Tail(page)) = Len(page) - 1
    BY <1>4, <2>1
  <2>3. GoesOn(Append(frames, Head(page)), id)
    <3>1. Head(page) = id + Len(frames) + 1
      BY <1>4, <2>1 DEF InStep, GoesOn
    <3> DEFINE h == Head(page)
    <3>2. frames \in Seq(Id) /\ h \in Id /\ id \in Nat /\ GoesOn(frames, id) /\ h = id + Len(frames) + 1
      BY <1>4, <2>1, <3>1 DEF InStep
    <3> HIDE DEF h
    <3>3. GoesOn(Append(frames, h), id)
      BY <3>2 DEF GoesOn
    <3> QED
      BY <3>3 DEF h
  <2>4. GoesOn(Tail(page), id + Len(frames) + 1)
    BY <1>4, <2>1 DEF InStep, GoesOn
  <2>5. InStep("on", cursor[s], Tail(page), Append(frames, Head(page)), id)
    BY <1>4, <2>1, <2>2, <2>3, <2>4 DEF InStep
  <2> QED
    <3>1. Moves(s, "on", cursor[s], Tail(page), Append(frames, Head(page)), id)
      BY <1>4, <1>5, <2>1, <2>2 DEF Moves
    <3> QED
      BY <1>3, <2>5, <3>1
<1>9. CASE ReadFrame(s)
  <2>1. /\ frames # <<>> /\ UNCHANGED <<stream, cursor, batch>>
        /\ pipe' = [pipe EXCEPT ![s] = Tail(frames)]
    BY <1>1, <1>9 DEF ReadFrame, frames
  <2>2. after' = [after EXCEPT ![s] = id + 1]
    BY <1>9, FrameIsToldNext DEF id
  <2>3. Tail(frames) \in Seq(Id) /\ Len(Tail(frames)) = Len(frames) - 1
    BY <1>4, <2>1
  <2>4. GoesOn(Tail(frames), id + 1)
    <3>1. GoesOn(frames, id) /\ frames # <<>> /\ frames \in Seq(Id) /\ id \in Nat
      BY <1>4, <2>1 DEF InStep
    <3> QED
      BY <3>1 DEF GoesOn
  <2>5. InStep(stream[s], cursor[s], page, Tail(frames), id + 1)
    <3>1. (id + 1) + Len(Tail(frames)) = id + Len(frames)
      BY <1>4, <2>3
    <3>2. stream[s] # "off"
      BY <1>4, <2>1 DEF InStep
    <3> QED
      BY <1>4, <2>4, <3>1, <3>2 DEF InStep
  <2>6. id + 1 \in Nat
    BY <1>4
  <2> QED
    <3>1. Moves(s, stream[s], cursor[s], page, Tail(frames), id + 1)
      BY <1>4, <1>5, <2>1, <2>2, <2>3, <2>6 DEF Moves
    <3> QED
      BY <1>3, <2>5, <3>1
<1>10. CASE StreamEnds(s)
  <2>1. /\ stream' = [stream EXCEPT ![s] = "off"] /\ frames = <<>> /\ stream[s] = "ended"
        /\ UNCHANGED <<cursor, batch, pipe, after>>
    BY <1>10 DEF StreamEnds, clientVars, frames
  <2>2. InStep("off", cursor[s], page, frames, id)
    BY <1>4, <2>1 DEF InStep
  <2> QED
    <3>1. Moves(s, "off", cursor[s], page, frames, id)
      BY <1>4, <1>5, <2>1 DEF Moves
    <3> QED
      BY <1>3, <2>2, <3>1
<1>11. CASE BreakStream(s)
  <2>1. /\ stream' = [stream EXCEPT ![s] = "off"] /\ UNCHANGED <<cursor, after>>
        /\ batch' = [batch EXCEPT ![s] = <<>>] /\ pipe' = [pipe EXCEPT ![s] = <<>>]
    BY <1>11 DEF BreakStream, clientVars
  <2>2. InStep("off", cursor[s], <<>>, <<>>, id)
    BY <1>2, <1>4 DEF InStep, GoesOn
  <2> QED
    <3>1. Moves(s, "off", cursor[s], <<>>, <<>>, id)
      BY <1>4, <1>5, <2>1 DEF Moves
    <3> QED
      BY <1>3, <2>2, <3>1
<1> QED
  BY <1>6, <1>7, <1>8, <1>9, <1>10, <1>11 DEF StreamStep

\* So does what is in each stream, through restarts too.
LEMMA StreamKept ==
  ASSUME StreamingInv, [Next]_vars
  PROVE  StreamInv'
<1>1. Len(events) \in Nat /\ Len(events') \in Nat /\ Len(events) <= Len(events')
  BY TableKept DEF StreamingInv, TableInv
<1>2. ASSUME UNCHANGED <<stream, cursor, batch, pipe>>,
             \A u \in Streamer : after'[u] = after[u]
      PROVE  StreamInv'
  <2>1. ASSUME NEW u \in Streamer
        PROVE  InStep(stream[u], cursor[u], batch[u], pipe[u], after[u])'
    BY <1>1, <1>2 DEF StreamingInv, StreamInv, ClientInv, InStep, GoesOn
  <2> QED
    BY <1>2, <2>1 DEF StreamingInv, StreamInv
<1>3. CASE UNCHANGED <<stream, cursor, batch, pipe, after>>
  BY <1>2, <1>3
<1>4. CASE UNCHANGED <<stream, cursor, batch, pipe>> /\ \E p \in Poller : Receive(p)
  <2>1. \A u \in Streamer : after'[u] = after[u]
    BY <1>4 DEF Receive, StreamingInv, ClientInv
  <2> QED
    BY <1>2, <1>4, <2>1
<1>5. CASE UNCHANGED events /\ \E s \in Streamer : StreamStep(s)
  BY <1>5, OneStreamKept
<1>6. CASE Restart
  <2>1. \A u \in Streamer : after[u] \in Nat /\ after[u] <= Len(events) 
    BY DEF StreamingInv, ClientInv
  <2> QED
    BY <1>1, <1>6, <2>1 DEF Restart, clientVars, StreamInv, InStep, GoesOn
<1> QED
  BY <1>3, <1>4, <1>5, <1>6, StreamSteps
-----------------------------------------------------------------------------
\* Only polls and the consumer queue for the lock.
LEMMA LockKept ==
  ASSUME StreamingInv, [Next]_vars
  PROVE  LockInv'
<1> USE DEF tableVars, wakeVars, pollVars, streamVars, clientVars
<1>1. LockInv
  BY DEF StreamingInv
<1>2. CASE UNCHANGED vars
  BY <1>1, <1>2 DEF vars, LockInv
<1>3. CASE RuntimeStep
  BY <1>1, <1>3 DEF RuntimeStep, ObserveMessage, ObserveReceipt, ObserveNoRow, LockInv
<1>4. CASE ConsumerStep
  BY <1>1, <1>4 DEF ConsumerStep, ConsumerTakes, ConsumerNotifies, LockInv, Turn
<1>5. ASSUME NEW p \in Poller,
             HandlerStep(p) \/ DeadlinePasses(p) \/ PollerStep(p) \/ LoseAnswer(p)
      PROVE  LockInv'
  <2>1. CASE HandlerStep(p)
    <3>1. CASE Look(p)
      <4>1. /\ UNCHANGED <<consumer, late>>
            /\ UNCHANGED <<lock, lockQueue>> \/ AskLock(p, "holding", "queued")
        BY <3>1 DEF Look
      <4> QED
        BY <1>1, <4>1 DEF AskLock, LockInv
    <3>2. CASE LockTurn(p)
      <4>1. /\ lock' = p /\ lockQueue # <<>> /\ lockQueue' = Tail(lockQueue)
            /\ UNCHANGED <<consumer, late>>
        BY <3>2 DEF LockTurn, TakeLock, Turn
      <4> QED
        BY <1>1, <4>1 DEF LockInv
    <3>3. CASE Park(p) \/ TimesOut(p) \/ Leave(p)
      BY <1>1, <3>3 DEF Park, TimesOut, Leave, LockInv
    <3>4. CASE Regain(p)
      BY <1>1, <3>4 DEF Regain, AskLock, LockInv
    <3> QED
      BY <2>1, <3>1, <3>2, <3>3, <3>4 DEF HandlerStep
  <2>2. CASE DeadlinePasses(p) \/ PollerStep(p) \/ LoseAnswer(p)
    BY <1>1, <2>2 DEF DeadlinePasses, PollerStep, Ask, Receive, ReceiveError,
      LoseAnswer, LockInv
  <2> QED
    BY <1>5, <2>1, <2>2
<1>6. ASSUME NEW s \in Streamer, GeneratorStep(s) \/ StreamerStep(s) \/ BreakStream(s)
      PROVE  LockInv'
  BY <1>1, <1>6 DEF GeneratorStep, StreamerStep, StreamLook, Yield, Connect,
    ReadFrame, StreamEnds, BreakStream, LockInv
<1>7. CASE LoseKey
  BY <1>1, <1>7 DEF LoseKey, LockInv
<1>8. CASE Restart
  BY <1>8 DEF Restart, LockInv
<1> QED
  BY <1>2, <1>3, <1>4, <1>5, <1>6, <1>7, <1>8 DEF Next

\* The inductive invariant holds in every reachable state.
LEMMA Streaming == Spec => []StreamingInv
<1>1. ASSUME StreamingInv, [Next]_vars PROVE StreamingInv'
  BY <1>1, TableKept, ClientKept, PollKept, StreamKept, LockKept DEF StreamingInv
<1> QED
  BY <1>1, StreamingStarts, PTL DEF Spec

\* Types of the tables, the tasks, the requests and the clients.
THEOREM SidecarTypeCorrect == Spec => []SidecarTypeOK
<1>1. ASSUME StreamingInv PROVE SidecarTypeOK
  <2>1. Len(events) \in Nat /\ Len(events) <= MaxEvents
    BY <1>1 DEF StreamingInv, TableInv
  <2>2. /\ events \in Seq(Row) /\ storeKey \in Key /\ keys \in Key /\ faults \in 0..MaxFault
        /\ queue \in 0..(MaxEvents + MaxQueue)
    BY <1>1, <2>1 DEF StreamingInv, TableInv, Key
  <2>3. after \in [Reader -> 0..MaxEvents] /\ told \in [Reader -> Seq(Id)]
    BY <1>1, <2>1 DEF StreamingInv, ClientInv
  <2>4. cursor \in [Streamer -> 0..MaxEvents]
    BY <1>1, <2>1 DEF StreamingInv, StreamInv, InStep
  <2> QED
    BY <1>1, <2>2, <2>3, <2>4 DEF SidecarTypeOK, StreamingInv, PollInv, StreamInv, LockInv
<1> QED
  BY <1>1, Streaming, PTL

\* For any number of clients and any page sizes, lost answers, broken streams and
\* restarts included, a client that resumes from after_id is told of every event
\* once and in order: a step either adds an event, or tells a client its next
\* ones, or does nothing that a client could see.
THEOREM ClientsAreToldInOrder == Spec => InOrderOnce
<1>1. Init => Stream!Init
  BY DEF Init, Stream!Init
<1>2. ASSUME StreamingInv, [Next]_vars
      PROVE  [Stream!Next]_<<events, told>>
  <2>1. CASE ObserveMessage
    <3>1. [type |-> "message", key |-> storeKey'] \in Row
      <4>1. storeKey' \in Key
        BY <1>2, <2>1 DEF ObserveMessage, StreamingInv, TableInv, Key
      <4> QED
        BY <4>1 DEF Row
    <3> QED
      BY <2>1, <3>1 DEF ObserveMessage, clientVars, Stream!Next, Stream!Add
  <2>2. CASE ObserveReceipt
    <3>1. [type |-> "delivery_receipt", key |-> 0] \in Row
      BY DEF Row
    <3> QED
      BY <2>2, <3>1 DEF ObserveReceipt, clientVars, Stream!Next, Stream!Add
  <2>3. ASSUME NEW c \in Reader, NEW n \in Nat, n <= Len(events), after[c] <= n,
               UNCHANGED events, told' = [told EXCEPT ![c] = FirstIds(n)]
        PROVE  [Stream!Next]_<<events, told>>
    <3>1. /\ told \in [Reader -> Seq(Id)] /\ told[c] = FirstIds(after[c])
          /\ after[c] \in Nat /\ Len(events) \in Nat
      BY <1>2 DEF StreamingInv, ClientInv, TableInv
    <3>2. Len(told[c]) = after[c]
      BY <3>1 DEF FirstIds
    <3>3. CASE n = after[c]
      BY <2>3, <3>1, <3>3
    <3>4. CASE n # after[c]
      <4>1. n \in Len(told[c]) + 1 .. Len(events)
        BY <2>3, <3>1, <3>2, <3>4
      <4>2. Stream!Tell(c)
        BY <2>3, <4>1 DEF Stream!Tell, FirstIds
      <4> QED
        BY <4>2 DEF Stream!Next
    <3> QED
      BY <3>3, <3>4
  <2>4. CASE UNCHANGED events /\ \E p \in Poller : Receive(p)
    <3>1. PICK p \in Poller : Receive(p)
      BY <2>4
    <3>2. after[p] \in Nat /\ Len(answer[p]) \in Nat
      BY <1>2 DEF StreamingInv, ClientInv, PollInv
    <3>3. after[p] <= after[p] + Len(answer[p])
      BY <3>2
    <3> QED
      BY <1>2, <2>3, <2>4, <3>1, <3>3, AnswerIsToldNext
  <2>5. CASE UNCHANGED events /\ \E s \in Streamer : ReadFrame(s)
    <3>1. PICK s \in Streamer : ReadFrame(s)
      BY <2>5
    <3>2. after[s] <= after[s] + 1
      BY <1>2 DEF StreamingInv, ClientInv
    <3> QED
      BY <1>2, <2>3, <2>5, <3>1, <3>2, FrameIsToldNext
  <2>6. CASE UNCHANGED <<after, told>>
    <3>1. UNCHANGED events \/ ObserveMessage \/ ObserveReceipt
      BY <1>2, TableSteps DEF StreamingInv, ObserveNoRow, tableVars
    <3> QED
      BY <2>1, <2>2, <2>6, <3>1
  <2> QED
    BY <1>2, <2>4, <2>5, <2>6, ClientSteps
<1> QED
  BY <1>1, <1>2, Streaming, PTL DEF Spec, InOrderOnce, Stream!Spec
-----------------------------------------------------------------------------
(***************************************************************************)
(* Wake-ups.  A poll looks at the table outside the lock, so the argument  *)
(* is about the lock's queue: a poll that asked for the lock before an     *)
(* event came is ahead of the consumer that asks for it because of that    *)
(* event.                                                                  *)
(***************************************************************************)

\* The lock is held by the poll that thinks so, who queues is in the queue, and
\* the consumer is there at most once.
LockIsKept ==
  /\ \A p \in Poller : poll[p] \in {"holding", "leaving"} => lock = p
  /\ \A p \in Poller : poll[p] = "queued" => \E i \in DOMAIN lockQueue : lockQueue[i] = p
  /\ consumer = "get" => \A i \in DOMAIN lockQueue : lockQueue[i] # Consumer
  /\ \A i, j \in DOMAIN lockQueue : lockQueue[i] = Consumer /\ lockQueue[j] = Consumer => i = j

Unseen(p) == Len(events) > after[p]

ConsumerIsBehind(p) ==
  \E i, j \in DOMAIN lockQueue : i < j /\ lockQueue[i] = p /\ lockQueue[j] = Consumer

\* A poll that did not see an event will be notified after it is parked.
WakeUpIsComing ==
  \A p \in Poller : Unseen(p) =>
    /\ poll[p] \in {"holding", "parked"} => queue > 0 \/ consumer = "queued"
    /\ poll[p] = "queued" => queue > 0 \/ ConsumerIsBehind(p)

WakeInv == LockIsKept /\ WakeUpIsComing
-----------------------------------------------------------------------------
\* A step that leaves the lock alone, and brings no poll nearer to its wait
WakeStays ==
  /\ UNCHANGED <<consumer, lock, lockQueue>>
  /\ UNCHANGED <<events, queue>> \/ queue' = queue + 1
  /\ \A p \in Poller :
       poll'[p] \in {"queued", "holding", "parked", "leaving"} =>
         poll'[p] = poll[p] /\ after'[p] = after[p]

WaitStep(p) ==
  \/ /\ ~Unseen(p) /\ poll[p] = "look" /\ AskLock(p, "holding", "queued")
  \/ /\ poll[p] = "woken" /\ AskLock(p, "leaving", "requeued")
  \/ LockTurn(p)
  \/ Park(p)
  \/ Leave(p)

\* What a step does to the lock and to those who want it.
LEMMA WakeSteps ==
  ASSUME StreamingInv, [Next]_vars
  PROVE  \/ WakeStays
         \/ ConsumerStep
         \/ UNCHANGED <<events, queue, consumer, after>> /\ \E p \in Poller : WaitStep(p)
         \/ Restart
<1> USE DEF tableVars, wakeVars, pollVars, streamVars, clientVars
<1>1. /\ poll \in [Poller -> PollState]
      /\ after \in [Reader -> Nat]
  BY DEF StreamingInv, PollInv, ClientInv
<1>2. CASE UNCHANGED vars
  BY <1>2 DEF vars, WakeStays
<1>3. CASE RuntimeStep
  BY <1>3 DEF RuntimeStep, ObserveMessage, ObserveReceipt, ObserveNoRow, WakeStays
<1>4. ASSUME NEW p \in Poller, Look(p)
      PROVE  WakeStays \/ (UNCHANGED <<events, queue, consumer, after>> /\ WaitStep(p))
  <2> DEFINE page == ListSidecarEvents(after[p], PollLimit)
  <2>1. CASE page = <<>> /\ AskLock(p, "holding", "queued")
    <3>1. ~Unseen(p)
      <4>1. after[p] \in Nat /\ after[p] <= Len(events) /\ Len(events) \in Nat
        BY DEF StreamingInv, ClientInv, TableInv
      <4>2. CASE Len(events) > after[p]
        <5> DEFINE n == IF Len(events) < after[p] + PollLimit
                        THEN Len(events) - after[p] ELSE PollLimit
        <5>1. n \in Nat /\ n > 0
          BY <4>1, <4>2
        <5>2. page = [i \in 1..n |-> after[p] + i]
          BY DEF ListSidecarEvents
        <5> HIDE DEF n, page
        <5>3. page # <<>>
          BY <5>1, <5>2
        <5> QED
          BY <2>1, <5>3
      <4> QED
        BY <4>1, <4>2 DEF Unseen
    <3> QED
      BY <1>4, <2>1, <3>1 DEF Look, WaitStep
  <2>2. CASE /\ poll' = [poll EXCEPT ![p] = "answered"] \/ poll' = [poll EXCEPT ![p] = "failed"]
             /\ UNCHANGED <<lock, lockQueue>>
    BY <1>1, <1>4, <2>2 DEF Look, WakeStays
  <2> QED
    BY <1>4, <2>1, <2>2 DEF Look
<1>5. ASSUME NEW p \in Poller, LockTurn(p) \/ Park(p) \/ Regain(p) \/ Leave(p)
      PROVE  UNCHANGED <<events, queue, consumer, after>> /\ WaitStep(p)
  BY <1>5 DEF LockTurn, Park, Regain, Leave, WaitStep
<1>6. ASSUME NEW p \in Poller,
             TimesOut(p) \/ DeadlinePasses(p) \/ PollerStep(p) \/ LoseAnswer(p)
      PROVE  WakeStays
  <2>1. CASE Receive(p)
    <3>1. poll' = [poll EXCEPT ![p] = "off"] /\ \A q \in Poller : q # p => after'[q] = after[q]
      BY <1>1, <2>1 DEF Receive
    <3> QED
      BY <1>1, <2>1, <3>1 DEF Receive, WakeStays
  <2>2. CASE TimesOut(p) \/ DeadlinePasses(p) \/ Ask(p) \/ ReceiveError(p) \/ LoseAnswer(p)
    BY <1>1, <2>2 DEF TimesOut, DeadlinePasses, Ask, ReceiveError, LoseAnswer, WakeStays
  <2> QED
    BY <1>6, <2>1, <2>2 DEF PollerStep
<1>7. ASSUME NEW s \in Streamer, GeneratorStep(s) \/ StreamerStep(s) \/ BreakStream(s)
      PROVE  WakeStays
  <2>1. CASE ReadFrame(s)
    <3>1. \A q \in Poller : after'[q] = after[q]
      <4>1. after' = [after EXCEPT ![s] = Head(pipe[s])]
        BY <2>1 DEF ReadFrame
      <4> QED
        BY <1>1, <4>1
    <3> QED
      BY <2>1, <3>1 DEF ReadFrame, WakeStays
  <2>2. CASE StreamLook(s) \/ Yield(s) \/ Connect(s) \/ StreamEnds(s) \/ BreakStream(s)
    BY <2>2 DEF StreamLook, Yield, Connect, StreamEnds, BreakStream, WakeStays
  <2> QED
    BY <1>7, <2>1, <2>2 DEF GeneratorStep, StreamerStep
<1>8. CASE LoseKey
  BY <1>8 DEF LoseKey, WakeStays
<1> QED
  BY <1>2, <1>3, <1>4, <1>5, <1>6, <1>7, <1>8 DEF Next, HandlerStep

\* Asking for the lock puts a poll at the end of the queue, or at once in its place.
LEMMA AskKept ==
  ASSUME StreamingInv, WakeInv, UNCHANGED <<events, queue, consumer, after>>,
         NEW p \in Poller, NEW has, NEW queues,
         AskLock(p, has, queues), poll[p] \in {"look", "woken"},
         \/ has = "holding" /\ queues = "queued" /\ ~Unseen(p)
         \/ has = "leaving" /\ queues = "requeued"
  PROVE  WakeInv'
<1>1. /\ poll \in [Poller -> PollState] /\ lockQueue \in Seq(Poller \cup {Consumer})
      /\ lock \in Poller \cup {Nobody}
  BY DEF StreamingInv, PollInv, LockInv
<1>2. CASE LockFree
  <2>1. poll' = [poll EXCEPT ![p] = has] /\ lock' = p /\ lockQueue' = lockQueue
    BY <1>2 DEF AskLock
  <2>2. lock = Nobody /\ lockQueue = <<>> /\ poll'[p] = has
    BY <1>1, <1>2, <2>1 DEF LockFree
  <2>3. \A q \in Poller : q # p => poll'[q] = poll[q]
    BY <1>1, <2>1
  <2>4. LockIsKept'
    BY <1>1, <2>1, <2>2, <2>3 DEF WakeInv, LockIsKept
  <2>5. WakeUpIsComing'
    BY <2>1, <2>2, <2>3 DEF WakeInv, WakeUpIsComing, ConsumerIsBehind, Unseen
  <2> QED
    BY <2>4, <2>5 DEF WakeInv
<1>3. CASE ~LockFree
  <2>1. /\ poll' = [poll EXCEPT ![p] = queues] /\ lock' = lock
        /\ lockQueue' = Append(lockQueue, p)
    BY <1>3 DEF AskLock
  <2>2. /\ DOMAIN lockQueue = 1..Len(lockQueue) /\ Len(lockQueue) \in Nat
        /\ DOMAIN lockQueue' = 1..(Len(lockQueue) + 1)
        /\ \A i \in DOMAIN lockQueue : lockQueue'[i] = lockQueue[i]
        /\ lockQueue'[Len(lockQueue) + 1] = p
    BY <1>1, <2>1
  <2>3. LockIsKept'
    BY <1>1, <2>1, <2>2 DEF WakeInv, LockIsKept
  <2>4. ASSUME NEW q \in Poller, q # p
        PROVE  poll'[q] = poll[q] /\ (ConsumerIsBehind(q) => ConsumerIsBehind(q)')
    BY <1>1, <2>1, <2>2, <2>4 DEF ConsumerIsBehind
  <2>5. poll'[p] = queues /\ (queues = "queued" => ~Unseen(p)')
    BY <1>1, <2>1 DEF Unseen
  <2>6. WakeUpIsComing'
    BY <2>4, <2>5 DEF WakeInv, WakeUpIsComing, Unseen
  <2> QED
    BY <2>3, <2>6 DEF WakeInv
<1> QED
  BY <1>2, <1>3
\* When the head of the queue takes the lock, the others keep their order.
LEMMA QueueMoves ==
  ASSUME StreamingInv, lockQueue # <<>>, lockQueue' = Tail(lockQueue)
  PROVE  /\ \A i \in DOMAIN lockQueue' : /\ i + 1 \in DOMAIN lockQueue
                                         /\ lockQueue'[i] = lockQueue[i + 1]
         /\ \A i \in DOMAIN lockQueue : i # 1 => i - 1 \in DOMAIN lockQueue'
         /\ 1 \in DOMAIN lockQueue /\ lockQueue[1] = Head(lockQueue)
         /\ \A i \in DOMAIN lockQueue : i \in Nat /\ i >= 1
         /\ \A i \in DOMAIN lockQueue' : i \in Nat /\ i >= 1
<1>1. lockQueue \in Seq(Poller \cup {Consumer})
  BY DEF StreamingInv, LockInv
<1>2. /\ Len(lockQueue) \in Nat /\ Len(lockQueue) > 0
      /\ DOMAIN lockQueue = 1..Len(lockQueue)
      /\ DOMAIN lockQueue' = 1..(Len(lockQueue) - 1)
      /\ \A i \in 1..(Len(lockQueue) - 1) : lockQueue'[i] = lockQueue[i + 1]
      /\ Head(lockQueue) = lockQueue[1]
  BY <1>1
<1> QED
  BY <1>2

\* Whoever is still in the queue is in it as before, with the consumer behind it
\* if it was.
LEMMA OthersKeepTheirPlace ==
  ASSUME StreamingInv, WakeInv, lockQueue # <<>>, lockQueue' = Tail(lockQueue),
         NEW q \in Poller, Head(lockQueue) # q
  PROVE  /\ (\E i \in DOMAIN lockQueue : lockQueue[i] = q)
                => \E i \in DOMAIN lockQueue' : lockQueue'[i] = q
         /\ ConsumerIsBehind(q) => ConsumerIsBehind(q)'
<1>1. ASSUME NEW i \in DOMAIN lockQueue, lockQueue[i] = q
      PROVE  i # 1 /\ i - 1 \in DOMAIN lockQueue' /\ lockQueue'[i - 1] = q
  BY <1>1, QueueMoves
<1>2. ASSUME NEW i \in DOMAIN lockQueue, NEW j \in DOMAIN lockQueue,
             i < j, lockQueue[i] = q, lockQueue[j] = Consumer
      PROVE  ConsumerIsBehind(q)'
  <2>1. i - 1 \in DOMAIN lockQueue' /\ lockQueue'[i - 1] = q
    BY <1>1, <1>2
  <2>2. i \in Nat /\ j \in Nat /\ i >= 1 /\ j # 1
    BY <1>2, QueueMoves
  <2>3. j - 1 \in DOMAIN lockQueue' /\ lockQueue'[j - 1] = Consumer
    BY <1>2, <2>2, QueueMoves
  <2>4. i - 1 < j - 1
    BY <1>2, <2>2
  <2> QED
    BY <2>1, <2>3, <2>4 DEF ConsumerIsBehind
<1> QED
  BY <1>1, <1>2 DEF ConsumerIsBehind

\* A poll in the queue gets the lock: if the consumer was behind it, it still is
\* to come.
LEMMA TurnKept ==
  ASSUME StreamingInv, WakeInv, UNCHANGED <<events, queue, consumer, after>>,
         NEW p \in Poller, LockTurn(p)
  PROVE  WakeInv'
<1>1. /\ poll \in [Poller -> PollState] /\ lockQueue \in Seq(Poller \cup {Consumer})
  BY DEF StreamingInv, PollInv, LockInv
<1>2. /\ lock = Nobody /\ lockQueue # <<>> /\ Head(lockQueue) = p
      /\ lock' = p /\ lockQueue' = Tail(lockQueue)
  BY DEF LockTurn, TakeLock, Turn
<1>3. \/ poll[p] = "queued" /\ poll' = [poll EXCEPT ![p] = "holding"]
      \/ poll[p] = "requeued" /\ poll' = [poll EXCEPT ![p] = "leaving"]
  BY DEF LockTurn, TakeLock
<1>4. \A q \in Poller : q # p => poll'[q] = poll[q]
  BY <1>1, <1>3
<1>5. poll'[p] \in {"holding", "leaving"} /\ (poll'[p] = "holding" => poll[p] = "queued")
  BY <1>1, <1>3
<1>6. LockIsKept'
  <2>1. \A q \in Poller : poll'[q] \in {"holding", "leaving"} => lock' = q
    BY <1>2, <1>4 DEF WakeInv, LockIsKept
  <2>2. \A q \in Poller : poll'[q] = "queued" => \E i \in DOMAIN lockQueue' : lockQueue'[i] = q
    BY <1>2, <1>4, <1>5, OthersKeepTheirPlace DEF WakeInv, LockIsKept
  <2>3. consumer = "get" => \A i \in DOMAIN lockQueue' : lockQueue'[i] # Consumer
    BY <1>2, QueueMoves DEF WakeInv, LockIsKept
  <2>4. ASSUME NEW i \in DOMAIN lockQueue', NEW j \in DOMAIN lockQueue',
               lockQueue'[i] = Consumer, lockQueue'[j] = Consumer
        PROVE  i = j
    <3>1. i + 1 \in DOMAIN lockQueue /\ j + 1 \in DOMAIN lockQueue /\ i \in Nat /\ j \in Nat
      BY <1>2, QueueMoves
    <3>2. lockQueue[i + 1] = Consumer /\ lockQueue[j + 1] = Consumer
      BY <1>2, <2>4, QueueMoves
    <3>3. i + 1 = j + 1
      BY <3>1, <3>2 DEF WakeInv, LockIsKept
    <3> QED
      BY <3>1, <3>3
  <2> QED
    BY <2>1, <2>2, <2>3, <2>4 DEF LockIsKept
<1>7. WakeUpIsComing'
  <2>1. ASSUME Unseen(p)', poll'[p] = "holding"
        PROVE  queue > 0 \/ consumer = "queued"
    <3>1. queue > 0 \/ ConsumerIsBehind(p)
      BY <1>5, <2>1 DEF WakeInv, WakeUpIsComing, Unseen
    <3>2. ConsumerIsBehind(p) => consumer # "get"
      BY DEF WakeInv, LockIsKept, ConsumerIsBehind
    <3>3. consumer \in {"get", "queued"}
      BY DEF StreamingInv, LockInv
    <3> QED
      BY <3>1, <3>2, <3>3
  <2>2. \A q \in Poller : q # p /\ ConsumerIsBehind(q) => ConsumerIsBehind(q)'
    BY <1>2, OthersKeepTheirPlace
  <2> QED
    BY <1>4, <1>5, <2>1, <2>2 DEF WakeInv, WakeUpIsComing, Unseen
<1> QED
  BY <1>6, <1>7 DEF WakeInv

\* The consumer queues behind all who wait already; when its turn comes, nobody
\* has the lock, and it wakes all who are parked.
LEMMA ConsumerKept ==
  ASSUME StreamingInv, WakeInv, ConsumerStep
  PROVE  WakeInv'
<1> USE DEF tableVars, clientVars
<1>1. /\ poll \in [Poller -> PollState] /\ lockQueue \in Seq(Poller \cup {Consumer})
      /\ queue \in Nat
  BY DEF StreamingInv, PollInv, LockInv, TableInv
<1>2. CASE ConsumerTakes /\ LockFree
  <2>1. /\ NotifyAll /\ UNCHANGED <<consumer, lock, lockQueue, events, after>>
        /\ lock = Nobody /\ lockQueue = <<>>
    BY <1>2 DEF ConsumerTakes, LockFree
  <2>2. \A q \in Poller : poll[q] \notin {"holding", "leaving", "queued"}
    BY <2>1 DEF WakeInv, LockIsKept
  <2>3. \A q \in Poller : poll'[q] \notin {"holding", "leaving", "queued", "parked"}
    BY <1>1, <2>1, <2>2 DEF NotifyAll
  <2>4. LockIsKept'
    BY <2>1, <2>3 DEF WakeInv, LockIsKept
  <2>5. WakeUpIsComing'
    BY <2>3 DEF WakeUpIsComing
  <2> QED
    BY <2>4, <2>5 DEF WakeInv
<1>3. CASE ConsumerTakes /\ ~LockFree
  <2>1. /\ consumer = "get" /\ consumer' = "queued" /\ lockQueue' = Append(lockQueue, Consumer)
        /\ UNCHANGED <<poll, lock, events, after>>
    BY <1>3 DEF ConsumerTakes
  <2>2. /\ DOMAIN lockQueue = 1..Len(lockQueue) /\ Len(lockQueue) \in Nat
        /\ DOMAIN lockQueue' = 1..(Len(lockQueue) + 1)
        /\ \A i \in DOMAIN lockQueue : lockQueue'[i] = lockQueue[i]
        /\ lockQueue'[Len(lockQueue) + 1] = Consumer
    BY <1>1, <2>1
  <2>3. LockIsKept'
    BY <2>1, <2>2 DEF WakeInv, LockIsKept
  <2>4. \A q \in Poller : poll[q] = "queued" => ConsumerIsBehind(q)'
    BY <2>2 DEF WakeInv, LockIsKept, ConsumerIsBehind
  <2>5. WakeUpIsComing'
    BY <2>1, <2>4 DEF WakeUpIsComing
  <2> QED
    BY <2>3, <2>5 DEF WakeInv
<1>4. CASE ConsumerNotifies
  <2>1. /\ consumer = "queued" /\ lock = Nobody /\ lockQueue # <<>> /\ Head(lockQueue) = Consumer
        /\ NotifyAll /\ consumer' = "get" /\ lockQueue' = Tail(lockQueue)
        /\ UNCHANGED <<queue, lock, events, after>>
    BY <1>4 DEF ConsumerNotifies, Turn
  <2>2. \A q \in Poller : poll[q] \notin {"holding", "leaving"}
    BY <2>1 DEF WakeInv, LockIsKept
  <2>3. \A q \in Poller : /\ poll'[q] \notin {"holding", "leaving", "parked"}
                          /\ poll'[q] = "queued" => poll[q] = "queued"
    BY <1>1, <2>1, <2>2 DEF NotifyAll
  <2>4. \A i \in DOMAIN lockQueue' : lockQueue'[i] # Consumer
    <3> SUFFICES ASSUME NEW i \in DOMAIN lockQueue', lockQueue'[i] = Consumer
                 PROVE  FALSE
      OBVIOUS
    <3>1. /\ i + 1 \in DOMAIN lockQueue /\ lockQueue[i + 1] = Consumer /\ i \in Nat /\ i >= 1
          /\ 1 \in DOMAIN lockQueue /\ lockQueue[1] = Consumer
      BY <2>1, QueueMoves
    <3>2. i + 1 = 1
      BY <3>1 DEF WakeInv, LockIsKept
    <3> QED
      BY <3>1, <3>2
  <2>5. \A q \in Poller :
          /\ poll'[q] = "queued" => \E i \in DOMAIN lockQueue' : lockQueue'[i] = q
          /\ ConsumerIsBehind(q) => ConsumerIsBehind(q)'
    BY <2>1, <2>3, OthersKeepTheirPlace DEF WakeInv, LockIsKept
  <2>6. LockIsKept'
    BY <2>1, <2>3, <2>4, <2>5 DEF LockIsKept
  <2>7. WakeUpIsComing'
    BY <2>1, <2>3, <2>5 DEF WakeInv, WakeUpIsComing, Unseen
  <2> QED
    BY <2>6, <2>7 DEF WakeInv
<1> QED
  BY <1>2, <1>3, <1>4 DEF ConsumerStep

\* Every step keeps the lock, its queue and the coming notifications right.
LEMMA WakeKept ==
  ASSUME StreamingInv, WakeInv, [Next]_vars
  PROVE  WakeInv'
<1>1. /\ poll \in [Poller -> PollState] /\ queue \in Nat
  BY DEF StreamingInv, PollInv, TableInv
<1>2. CASE WakeStays
  <2>1. LockIsKept'
    BY <1>2 DEF WakeStays, WakeInv, LockIsKept
  <2>2. WakeUpIsComing'
    <3>1. CASE queue' = queue + 1
      BY <1>1, <3>1 DEF WakeUpIsComing
    <3>2. CASE UNCHANGED <<events, queue>>
      BY <1>2, <3>2 DEF WakeStays, WakeInv, WakeUpIsComing, Unseen, ConsumerIsBehind
    <3> QED
      BY <1>2, <3>1, <3>2 DEF WakeStays
  <2> QED
    BY <2>1, <2>2 DEF WakeInv
<1>3. ASSUME NEW p \in Poller, UNCHANGED <<events, queue, consumer, after>>, WaitStep(p)
      PROVE  WakeInv'
  <2>1. CASE Park(p) \/ Leave(p)
    <3>1. /\ \/ poll[p] = "holding" /\ poll' = [poll EXCEPT ![p] = "parked"]
             \/ poll[p] = "leaving" /\ poll' = [poll EXCEPT ![p] = "look"]
          /\ lock' = Nobody /\ UNCHANGED lockQueue
      BY <2>1 DEF Park, Leave
    <3>2. \A q \in Poller : q # p => poll'[q] = poll[q] /\ poll[q] \notin {"holding", "leaving"}
      BY <1>1, <3>1 DEF WakeInv, LockIsKept
    <3>3. poll'[p] \in {"parked", "look"} /\ (poll'[p] = "parked" => poll[p] = "holding")
      BY <1>1, <3>1
    <3>4. LockIsKept'
      BY <1>3, <3>1, <3>2, <3>3 DEF WakeInv, LockIsKept
    <3>5. WakeUpIsComing'
      BY <1>3, <3>1, <3>2, <3>3 DEF WakeInv, WakeUpIsComing, Unseen, ConsumerIsBehind
    <3> QED
      BY <3>4, <3>5 DEF WakeInv
  <2> QED
    BY <1>3, <2>1, AskKept, TurnKept DEF WaitStep
<1>4. CASE Restart
  BY <1>4 DEF Restart, WakeInv, LockIsKept, WakeUpIsComing
<1> QED
  BY <1>2, <1>3, <1>4, ConsumerKept, WakeSteps

\* However many long polls there are, and wherever an event falls between the look
\* at the table and condition.wait(): a poll that is parked with something to see
\* has a notification coming.
THEOREM NobodySleepsOn == Spec => []NoLostWakeup
<1>1. Init => WakeInv
  BY DEF Init, WakeInv, LockIsKept, WakeUpIsComing
<1>2. ASSUME StreamingInv, WakeInv, [Next]_vars PROVE WakeInv'
  BY <1>2, WakeKept
<1>3. WakeInv => NoLostWakeup
  BY DEF WakeInv, WakeUpIsComing, Unseen, NoLostWakeup
<1> QED
  BY <1>1, <1>2, <1>3, Streaming, PTL DEF Spec
=============================================================================
