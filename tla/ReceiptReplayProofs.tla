------------------------- MODULE ReceiptReplayProofs -------------------------
(***************************************************************************)
(* Theorems of ReceiptReplay, for every set of envelopes, every page size  *)
(* and every number of interruptions: the cursor claims nothing that is    *)
(* not stored, and a client that still reads after the end of its replay   *)
(* misses nothing, unless a push moved the cursor while the agent was      *)
(* behind.                                                                 *)
(***************************************************************************)
EXTENDS ReceiptReplay, SequenceTheorems, TLAPS

\* The place of a cursor in a list; Position(c) is the one in the relay's.
Place(log, c) == IF c = NoEnvelope THEN 0 ELSE CHOOSE i \in DOMAIN log : log[i] = c

ListsOnce(log) == \A i, j \in DOMAIN log : log[i] = log[j] => i = j

\* A frame names receipts of the relay only.
Known(f) ==
  IF f.kind = "push" THEN f.env \in Logged
  ELSE \A i \in DOMAIN f.items : f.items[i] \in Logged

\* What the client knows of are receipts of the relay, which lists each once.
LogInv ==
  /\ ListsOnce(relayLog)
  /\ receipts \subseteq Logged
  /\ {cursor, from, last} \subseteq Logged \cup {NoEnvelope}
  /\ ~LoopFree => obs.env \in receipts
  /\ \A i \in DOMAIN page : page[i] \in Logged
  /\ \A k \in DOMAIN inbound : Known(inbound[k])

TypeInv == ReplayTypeOK /\ LogInv

\* There is a replay only while the agent is behind, and a race that may still
\* end well only in one.  A reader that takes no more frames is that of a joined
\* client, and its replay gets no further than to ask.
PhaseInv ==
  /\ behind => linked
  /\ ~linked => inbound = <<>>
  /\ deaf => linked /\ inbound = <<>> /\ phase \notin {"joined", "answered", "working"}
  /\ phase # "none" => behind
  /\ race = "risk" => phase \in {"asked", "replied", "answered", "working"}

\* Where the page at work ends.
PageEnd == Place(relayLog, IF last = NoEnvelope THEN from ELSE last)

AtWork == phase \in {"answered", "working"}

Pushes == {k \in DOMAIN inbound : inbound[k].kind = "push"}
Answers == DOMAIN inbound \ Pushes

\* The pushes on their way come in the order of the log, after everything the
\* handler has begun with and after the page at work.
OrderInv ==
  /\ \A j, k \in Pushes : j < k => Place(relayLog, inbound[j].env) < Place(relayLog, inbound[k].env)
  /\ \A k \in Pushes :
       /\ Place(relayLog, cursor) < Place(relayLog, inbound[k].env)
       /\ ~LoopFree => Place(relayLog, obs.env) < Place(relayLog, inbound[k].env)
       /\ AtWork => PageEnd < Place(relayLog, inbound[k].env)

\* items are the entries of the log after the n-th.
IsPage(items, n) ==
  n + Len(items) \in 0..Len(relayLog) /\ \A i \in 1..Len(items) : items[i] = relayLog[n + i]

\* The steps by which frames on their way are lost.
FramesLost == Disconnect \/ Crash \/ Deafen \/ ReplayCancelled

\* What is stored or on its way.
Reached == receipts \cup {inbound[k].env : k \in Pushes}

Heard(n) == \A i \in DOMAIN relayLog : i > n => relayLog[i] \in Reached

CoveredTo(n) == \A i \in 1..n : relayLog[i] \in receipts

\* The one answer on its way holds what follows `from', and says there is more
\* unless the rest is on its way behind it.
AnswerInv ==
  \A a \in Answers :
    /\ phase = "replied"
    /\ \A b \in Answers : a = b
    /\ LET items == inbound[a].items
           end   == Place(relayLog, from) + Len(items)
       IN  /\ IsPage(items, Place(relayLog, from))
           /\ ~inbound[a].more => Heard(end)
           /\ items = <<>> => ~inbound[a].more
           /\ \A k \in Pushes : a < k => end < Place(relayLog, inbound[k].env)

\* What is before the page, or before the place it is asked for, is stored,
\* unless the replay did not start from the right place.
PageInv ==
  /\ race # "lost" /\ phase \in {"asked", "replied"} => CoveredTo(Place(relayLog, from))
  /\ AtWork =>
       /\ PageEnd - Len(page) \in Nat
       /\ IsPage(page, PageEnd - Len(page))
       /\ race # "lost" => CoveredTo(PageEnd - Len(page))
       /\ last = NoEnvelope => ~more
       /\ ~more => Heard(PageEnd)

\* So is what is before the cursor, or before the receipt it will name next; and
\* after the replay what is not stored is on its way to a reader that still reads.
CursorInv ==
  /\ CursorCovers
  /\ race = "no" /\ ~LoopFree => CoveredTo(Place(relayLog, obs.env))
  /\ race # "lost" /\ linked /\ ~deaf /\ ~behind => Heard(0)

ReplayInv == PhaseInv /\ OrderInv /\ AnswerInv /\ PageInv /\ CursorInv
-----------------------------------------------------------------------------
(* Places.                                                                  *)

\* An entry of a list that lists each once has the place where it stands.
LEMMA Places ==
  ASSUME NEW log \in Seq(Envelope), ListsOnce(log)
  PROVE  /\ Place(log, NoEnvelope) = 0
         /\ \A i \in DOMAIN log : Place(log, log[i]) = i
         /\ \A c : (\E i \in DOMAIN log : log[i] = c) =>
              Place(log, c) \in 1..Len(log) /\ log[Place(log, c)] = c
<1>1. \A i \in DOMAIN log : Place(log, log[i]) = i
  <2> TAKE i \in DOMAIN log
  <2>1. log[i] # NoEnvelope
    BY NoEnvelopeAssumption
  <2>2. Place(log, log[i]) = CHOOSE j \in DOMAIN log : log[j] = log[i]
    BY <2>1 DEF Place
  <2>3. \A j \in DOMAIN log : log[j] = log[i] => j = i
    BY DEF ListsOnce
  <2> QED
    BY <2>2, <2>3
<1> QED
  BY <1>1 DEF Place

\* Places stay when the list grows, and the new entry has the last.
LEMMA PlacesStay ==
  ASSUME NEW log \in Seq(Envelope), ListsOnce(log), NEW e \in Envelope,
         ~\E i \in DOMAIN log : log[i] = e
  PROVE  /\ Append(log, e) \in Seq(Envelope) /\ ListsOnce(Append(log, e))
         /\ Place(Append(log, e), NoEnvelope) = 0
         /\ Place(Append(log, e), e) = Len(log) + 1
         /\ \A i \in DOMAIN log : Place(Append(log, e), log[i]) = i
<1> DEFINE longer == Append(log, e)
<1>1. /\ longer \in Seq(Envelope) /\ Len(longer) = Len(log) + 1
      /\ DOMAIN longer = 1..(Len(log) + 1)
      /\ \A i \in DOMAIN log : i \in DOMAIN longer /\ longer[i] = log[i]
      /\ longer[Len(log) + 1] = e
  OBVIOUS
<1>2. \A i \in DOMAIN longer : i \in DOMAIN log \/ i = Len(log) + 1
  BY <1>1
<1> HIDE DEF longer
<1>3. ListsOnce(longer)
  BY <1>1, <1>2 DEF ListsOnce
<1>4. /\ Place(longer, NoEnvelope) = 0
      /\ \A i \in DOMAIN longer : Place(longer, longer[i]) = i
  BY <1>1, <1>3, Places
<1> QED
  BY <1>1, <1>3, <1>4 DEF longer
-----------------------------------------------------------------------------
(* Types.                                                                   *)

\* The first commit of the handler: the row is there afterwards, and the handler
\* goes on where it was not there before.
LEMMA ObserveDoes ==
  ASSUME NEW e, LoopFree, Observe(e)
  PROVE  /\ receipts' = receipts \cup {e}
         /\ UNCHANGED <<outbox, events, cursor, relayLog>>
         /\ \/ e \in receipts /\ obs' = obs
            \/ e \notin receipts /\ obs' = [step |-> "mark", env |-> e]
BY DEF Observe, ObserveStore, HasReceipt, UpsertReceipt, ledgerVars

\* The later ones.
LEMMA ObserveTypes ==
  ASSUME LedgerTypeOK, ObserveStep
  PROVE  LedgerTypeOK'
<1>1. \A s \in OutboxStatus : UpdateOutbox(outbox, obs.env, s) \in [Envelope -> OutboxStatus]
  BY DEF LedgerTypeOK, UpdateOutbox
<1>2. CASE ObserveMark
  BY <1>1, <1>2 DEF LedgerTypeOK, ObserveMark, MarkOutboxDelivered, OutboxStatus, HandlerStage
<1>3. CASE ObserveEvent
  <2>1. obs.env \in Envelope
    BY <1>3 DEF LedgerTypeOK, ObserveEvent
  <2>2. events' \in Seq(SidecarEvent)
    <3>1. [type |-> "delivery_receipt", env |-> obs.env] \in SidecarEvent
      BY <2>1 DEF SidecarEvent, EventType
    <3> QED
      BY <1>3, <3>1 DEF LedgerTypeOK, ObserveEvent, InsertSidecarEvent
  <2> QED
    BY <1>3, <2>1, <2>2 DEF LedgerTypeOK, ObserveEvent, HandlerStage
<1>4. CASE ObserveCursor
  BY <1>4 DEF LedgerTypeOK, ObserveCursor, HandlerStage, Idle
<1> QED
  BY <1>2, <1>3, <1>4 DEF ObserveStep

\* What follows the n-th entry of a list, and the first m entries.
LEMMA Suffix ==
  ASSUME NEW s \in Seq(Envelope), NEW n \in 0..Len(s), NEW t, t = SubSeq(s, n + 1, Len(s))
  PROVE  /\ t \in Seq(Envelope) /\ Len(t) = Len(s) - n
         /\ \A i \in 1..(Len(s) - n) : t[i] = s[n + i]
<1>1. Len(s) \in Nat /\ \A i \in 1..Len(s) : s[i] \in Envelope
  OBVIOUS
<1>2. PICK k \in Nat : k = Len(s)
  BY <1>1
<1>3. n \in Int /\ n + 1 \in Int /\ k \in Int /\ \A i \in (n + 1)..k : s[i] \in Envelope
  BY <1>1, <1>2
<1>4. /\ SubSeq(s, n + 1, k) \in Seq(Envelope)
      /\ Len(SubSeq(s, n + 1, k)) = IF n + 1 <= k THEN k - (n + 1) + 1 ELSE 0
      /\ \A i \in 1..(k - (n + 1) + 1) : SubSeq(s, n + 1, k)[i] = s[n + 1 + i - 1]
  BY <1>3, SubSeqProperties
<1>5. /\ (IF n + 1 <= k THEN k - (n + 1) + 1 ELSE 0) = k - n /\ k - (n + 1) + 1 = k - n
      /\ \A i \in 1..(k - n) : n + 1 + i - 1 = n + i
  BY <1>2
<1>6. t = SubSeq(s, n + 1, k)
  BY <1>2
<1>7. \A i \in 1..(k - n) : t[i] = s[n + i]
  BY <1>4, <1>5, <1>6
<1> QED
  BY <1>2, <1>4, <1>5, <1>6, <1>7

LEMMA Prefix ==
  ASSUME NEW s \in Seq(Envelope), NEW m \in 0..Len(s), NEW t, t = SubSeq(s, 1, m)
  PROVE  /\ t \in Seq(Envelope) /\ Len(t) = m
         /\ \A i \in 1..m : t[i] = s[i]
<1>1. m \in Int /\ 1 \in Int /\ \A i \in 1..m : s[i] \in Envelope
  OBVIOUS
<1>2. /\ SubSeq(s, 1, m) \in Seq(Envelope)
      /\ Len(SubSeq(s, 1, m)) = IF 1 <= m THEN m - 1 + 1 ELSE 0
      /\ \A i \in 1..(m - 1 + 1) : SubSeq(s, 1, m)[i] = s[1 + i - 1]
  BY <1>1, SubSeqProperties
<1>3. /\ (IF 1 <= m THEN m - 1 + 1 ELSE 0) = m /\ m - 1 + 1 = m
      /\ \A i \in 1..m : 1 + i - 1 = i
  OBVIOUS
<1> QED
  BY <1>2, <1>3

\* An answer is one page of what follows the place it was asked for.
LEMMA AnswerIsPage ==
  ASSUME TypeInv, NEW after, NEW items, NEW size,
         after = SubSeq(relayLog, Position(from) + 1, Len(relayLog)),
         size = (IF Len(after) < PageSize THEN Len(after) ELSE PageSize),
         items = SubSeq(after, 1, size)
  PROVE  /\ Place(relayLog, from) \in 0..Len(relayLog)
         /\ Len(after) = Len(relayLog) - Place(relayLog, from)
         /\ items \in Seq(Envelope) /\ Len(items) = size
         /\ Len(after) > size => size > 0
         /\ IsPage(items, Place(relayLog, from))
<1> DEFINE n == Place(relayLog, from)
<1>1. Position(from) = n
  BY DEF Position, Place
<1>2. relayLog \in Seq(Envelope) /\ Len(relayLog) \in Nat /\ PageSize \in Nat \ {0}
  BY ReplayAssumption DEF TypeInv, ReplayTypeOK, LedgerTypeOK
<1>3. n \in 0..Len(relayLog)
  BY <1>2, Places DEF TypeInv, LogInv, Logged
<1> HIDE DEF n
<1>4. /\ after \in Seq(Envelope) /\ Len(after) = Len(relayLog) - n
      /\ \A i \in 1..(Len(relayLog) - n) : after[i] = relayLog[n + i]
  BY <1>1, <1>2, <1>3, Suffix
<1>5. size \in 0..Len(after) /\ (Len(after) > size => size > 0)
  BY <1>2, <1>4
<1>6. /\ items \in Seq(Envelope) /\ Len(items) = size
      /\ \A i \in 1..size : items[i] = after[i]
  <2>1. size \in 0..Len(after) /\ after \in Seq(Envelope) /\ items = SubSeq(after, 1, size)
    BY <1>4, <1>5
  <2> QED
    BY ONLY <2>1, Prefix
<1>7. IsPage(items, n)
  <2>0. /\ Len(relayLog) \in Nat /\ n \in 0..Len(relayLog)
        /\ Len(after) = Len(relayLog) - n /\ size \in 0..Len(after)
    BY <1>2, <1>3, <1>4, <1>5
  <2>1. n + size \in 0..Len(relayLog)
    BY ONLY <2>0
  <2>2. \A i \in 1..size : i \in 1..(Len(relayLog) - n)
    BY ONLY <2>0
  <2> QED
    BY <1>4, <1>6, <2>1, <2>2 DEF IsPage
<1> QED
  BY <1>3, <1>4, <1>5, <1>6, <1>7 DEF n

\* The frame the reader takes and those it leaves.
LEMMA FramesTaken ==
  ASSUME TypeInv, inbound # <<>>
  PROVE  /\ Head(inbound) \in Push \cup Answer /\ Head(inbound) = inbound[1]
         /\ Tail(inbound) \in Seq(Push \cup Answer)
         /\ 1 \in DOMAIN inbound /\ DOMAIN inbound = 1..Len(inbound) /\ Len(inbound) \in Nat \ {0}
         /\ \A k \in DOMAIN Tail(inbound) :
              k \in Nat /\ k + 1 \in DOMAIN inbound /\ Tail(inbound)[k] = inbound[k + 1]
<1>1. inbound \in Seq(Push \cup Answer)
  BY DEF TypeInv, ReplayTypeOK
<1>2. Len(inbound) \in Nat \ {0} /\ DOMAIN inbound = 1..Len(inbound)
  BY <1>1
<1>3. /\ Tail(inbound) \in Seq(Push \cup Answer) /\ Len(Tail(inbound)) = Len(inbound) - 1
      /\ DOMAIN Tail(inbound) = 1..(Len(inbound) - 1)
      /\ \A k \in 1..(Len(inbound) - 1) : Tail(inbound)[k] = inbound[k + 1]
  BY <1>1
<1>4. Head(inbound) \in Push \cup Answer /\ Head(inbound) = inbound[1]
  BY <1>1, <1>2
<1> QED
  BY <1>2, <1>3, <1>4

LEMMA FramesAdded ==
  ASSUME TypeInv, NEW f \in Push \cup Answer, inbound' = Append(inbound, f)
  PROVE  /\ inbound' \in Seq(Push \cup Answer)
         /\ Len(inbound) \in Nat /\ DOMAIN inbound = 1..Len(inbound)
         /\ DOMAIN inbound' = 1..(Len(inbound) + 1)
         /\ \A k \in 1..Len(inbound) : inbound'[k] = inbound[k]
         /\ inbound'[Len(inbound) + 1] = f
<1>1. inbound \in Seq(Push \cup Answer)
  BY DEF TypeInv, ReplayTypeOK
<1> QED
  BY <1>1

\* The receipts of a page, and what is left of it.
LEMMA PageTaken ==
  ASSUME TypeInv, page # <<>>
  PROVE  /\ Head(page) \in Envelope /\ Head(page) = page[1]
         /\ Tail(page) \in Seq(Envelope)
         /\ Len(page) \in Nat \ {0} /\ Len(Tail(page)) = Len(page) - 1
         /\ \A i \in 1..(Len(page) - 1) : Tail(page)[i] = page[i + 1]
<1>1. page \in Seq(Envelope)
  BY DEF TypeInv, ReplayTypeOK
<1> QED
  BY <1>1


\* Every variable stays in its type, and the client knows only of receipts of the
\* relay, over pages, pushes, interruptions and crashes.
THEOREM ReplayTypeCorrect == Spec => []TypeInv
<1> USE ReplayAssumption, NoEnvelopeAssumption
<1>1. Init => TypeInv
  <2> SUFFICES ASSUME Init PROVE TypeInv
    OBVIOUS
  <2>1. LedgerTypeOK
    BY DEF Init, LedgerInit, LedgerTypeOK, EmptyOutbox, OutboxStatus, Idle, HandlerStage
  <2>2. /\ relayLog = <<>> /\ inbound = <<>> /\ page = <<>>
        /\ inbound \in Seq(Push \cup Answer) /\ page \in Seq(Envelope)
    BY DEF Init, LedgerInit
  <2>3. /\ linked \in BOOLEAN /\ deaf \in BOOLEAN /\ more \in BOOLEAN /\ behind \in BOOLEAN
    BY DEF Init
  <2>4. phase \in Phase /\ race \in Race /\ downs \in 0..MaxDown
    BY DEF Init, Phase, Race
  <2>5. LogInv
    BY <2>2 DEF Init, LedgerInit, LogInv, ListsOnce, Logged, LoopFree
  <2> QED
    BY <2>1, <2>2, <2>3, <2>4, <2>5 DEF TypeInv, ReplayTypeOK, Init
<1>2. TypeInv /\ [Next]_vars => TypeInv'
  <2> SUFFICES ASSUME TypeInv, [Next]_vars PROVE TypeInv'
    OBVIOUS
  <2>0. /\ LedgerTypeOK /\ relayLog \in Seq(Envelope) /\ ListsOnce(relayLog)
        /\ inbound \in Seq(Push \cup Answer) /\ page \in Seq(Envelope)
        /\ cursor \in Envelope \cup {NoEnvelope} /\ from \in Envelope \cup {NoEnvelope}
        /\ last \in Envelope \cup {NoEnvelope}
        /\ linked \in BOOLEAN /\ deaf \in BOOLEAN /\ more \in BOOLEAN /\ behind \in BOOLEAN
        /\ phase \in Phase /\ race \in Race /\ downs \in 0..MaxDown /\ MaxDown \in Nat
    BY DEF TypeInv, ReplayTypeOK, LedgerTypeOK, LogInv
  <2>d. downs' = downs \/ (downs < MaxDown /\ downs' = downs + 1)
    BY DEF Next, Join, StartReplay, Replay, ReplayOne, NextPage, FinishReplay, ReplayRaises, ReplayCancelled,
           Reader, ReadAnswer, ReadPush, Deafen, ObserverContinues, RelayAnswers, RelayDelivers, Disconnect,
           Crash, vars
  <2>e. downs' \in 0..MaxDown
    BY <2>0, <2>d
  <2> USE DEF Phase, Race, linkVars
  <2>1. CASE Join \/ StartReplay \/ NextPage
    <3>1. /\ UNCHANGED <<ledgerVars, inbound, page, last, race>>
          /\ phase' \in {"joined", "asked"} /\ linked' \in BOOLEAN /\ deaf' \in BOOLEAN
          /\ behind' \in BOOLEAN
          /\ from' \in {from, cursor, last} /\ more' = more
      BY <2>0, <2>1 DEF Join, StartReplay, NextPage, historyVars, ledgerVars
    <3> QED
      BY <2>0, <2>e, <3>1 DEF TypeInv, ReplayTypeOK, LedgerTypeOK, LogInv, Logged, LoopFree, Known, ledgerVars
  <2>2. CASE ReplayOne
    <3>1. /\ Head(page) \in Envelope /\ Head(page) \in Logged /\ page' \in Seq(Envelope)
          /\ \A i \in DOMAIN page' : page'[i] \in Logged
      BY <2>2, PageTaken DEF ReplayOne, TypeInv, LogInv
    <3>2. /\ receipts' = receipts \cup {Head(page)}
          /\ UNCHANGED <<outbox, events, cursor, relayLog>>
          /\ obs' = obs \/ obs' = [step |-> "mark", env |-> Head(page)]
      BY <2>2, ObserveDoes DEF ReplayOne
    <3>3. /\ phase' = "working"
          /\ UNCHANGED <<linked, deaf, inbound, from, more, last, behind, race, downs>>
          /\ LoopFree
      BY <2>2 DEF ReplayOne, historyVars
    <3>4. LedgerTypeOK'
      BY <2>0, <3>1, <3>2 DEF LedgerTypeOK, HandlerStage
    <3>5. LogInv'
      BY <2>0, <3>1, <3>2, <3>3 DEF TypeInv, LogInv, Logged, LoopFree, Idle, Known
    <3> QED
      BY <2>0, <3>1, <3>3, <3>4, <3>5 DEF TypeInv, ReplayTypeOK
  <2>3. CASE FinishReplay
    <3>1. /\ UNCHANGED <<outbox, receipts, events, obs, relayLog, linked, deaf, inbound>>
          /\ cursor' \in {cursor, last} /\ phase' = "none" /\ from' = NoEnvelope
          /\ page' = <<>> /\ more' = FALSE /\ last' = NoEnvelope /\ behind' = FALSE
          /\ race' \in Race
      BY <2>0, <2>3 DEF FinishReplay, NoReplay
    <3>2. page' \in Seq(Envelope) /\ DOMAIN page' = {}
      BY <3>1
    <3>3. LedgerTypeOK'
      BY <2>0, <3>1 DEF LedgerTypeOK
    <3>4. LogInv'
      BY <2>0, <3>1, <3>2 DEF TypeInv, LogInv, Logged, LoopFree, Known
    <3> QED
      BY <2>0, <2>e, <3>1, <3>2, <3>3, <3>4 DEF TypeInv, ReplayTypeOK
  <2>4. CASE ReplayRaises \/ ReplayCancelled \/ Disconnect \/ Crash
    <3>1. /\ UNCHANGED <<outbox, receipts, events, cursor, relayLog>>
          /\ obs' \in {obs, Idle}
          /\ phase' = "none" /\ from' = NoEnvelope
          /\ page' = <<>> /\ more' = FALSE /\ last' = NoEnvelope
          /\ behind' \in BOOLEAN /\ linked' \in BOOLEAN /\ deaf' \in BOOLEAN /\ race' \in Race
          /\ inbound' = inbound \/ inbound' = <<>>
      BY <2>0, <2>4 DEF ReplayRaises, ReplayCancelled, Disconnect, Crash, CutShort, NoReplay, ledgerVars, durableVars
    <3>2. /\ inbound' \in Seq(Push \cup Answer) /\ page' \in Seq(Envelope) /\ DOMAIN page' = {}
          /\ \A k \in DOMAIN inbound' : k \in DOMAIN inbound /\ inbound'[k] = inbound[k]
      <4>1. CASE inbound' = inbound
        BY <2>0, <3>1, <4>1
      <4>2. CASE inbound' = <<>>
        BY <2>0, <3>1, <4>2
      <4> QED
        BY <3>1, <4>1, <4>2
    <3>3. LedgerTypeOK'
      BY <2>0, <3>1 DEF LedgerTypeOK, Idle, HandlerStage
    <3>4. LogInv'
      <4>1. /\ Logged' = Logged /\ receipts \subseteq Logged /\ cursor \in Logged \cup {NoEnvelope}
            /\ \A k \in DOMAIN inbound : Known(inbound[k])
        BY <3>1 DEF TypeInv, LogInv, Logged
      <4>2. ~LoopFree' => obs'.env \in receipts'
        BY <3>1 DEF TypeInv, LogInv, LoopFree
      <4>3. \A k \in DOMAIN inbound' : Known(inbound'[k])
        BY <3>2, <4>1
      <4>4. \A k \in DOMAIN inbound' :
              IF inbound'[k].kind = "push" THEN inbound'[k].env \in Logged'
              ELSE \A i \in DOMAIN inbound'[k].items : inbound'[k].items[i] \in Logged'
        BY <4>1, <4>3 DEF Known
      <4> QED
        BY <2>0, <3>1, <3>2, <4>1, <4>2, <4>4 DEF LogInv, Known
    <3> QED
      BY <2>0, <2>e, <3>1, <3>2, <3>3, <3>4 DEF TypeInv, ReplayTypeOK
  <2>5. CASE ReadAnswer
    <3>1. /\ Head(inbound) \in Answer /\ Head(inbound) = inbound[1] /\ 1 \in DOMAIN inbound
          /\ inbound' \in Seq(Push \cup Answer)
          /\ \A k \in DOMAIN inbound' : k + 1 \in DOMAIN inbound /\ inbound'[k] = inbound[k + 1]
      BY <2>5, FramesTaken DEF ReadAnswer, Pop, Push, Answer
    <3>2. /\ UNCHANGED <<ledgerVars, linked, deaf, from, behind, race>>
          /\ phase' = "answered" /\ page' = inbound[1].items /\ more' = inbound[1].more
          /\ last' = IF page' = <<>> THEN NoEnvelope ELSE page'[Len(page')]
      BY <2>5, <3>1 DEF ReadAnswer, historyVars
    <3>3. page' \in Seq(Envelope) /\ more' \in BOOLEAN
      BY <3>1, <3>2 DEF Answer
    <3>4. \A i \in DOMAIN page' : page'[i] \in Logged
      BY <3>1, <3>2 DEF TypeInv, LogInv, Known, Answer
    <3>5. last' \in Envelope \cup {NoEnvelope} /\ last' \in Logged \cup {NoEnvelope}
      BY <3>2, <3>3, <3>4
    <3>6. LogInv'
      <4>1. Logged' = Logged
        BY <3>2 DEF Logged, ledgerVars
      <4>2. \A k \in DOMAIN inbound' : Known(inbound'[k])
        BY <3>1 DEF TypeInv, LogInv
      <4>3. \A k \in DOMAIN inbound' :
              IF inbound'[k].kind = "push" THEN inbound'[k].env \in Logged'
              ELSE \A i \in DOMAIN inbound'[k].items : inbound'[k].items[i] \in Logged'
        BY <4>1, <4>2 DEF Known
      <4> QED
        BY <2>0, <3>2, <3>4, <3>5, <4>1, <4>3 DEF TypeInv, LogInv, LoopFree, Known, ledgerVars
    <3> QED
      BY <2>0, <2>e, <3>1, <3>2, <3>3, <3>5, <3>6 DEF TypeInv, ReplayTypeOK, LedgerTypeOK, ledgerVars
  <2>6. CASE ReadPush
    <3>1. /\ Head(inbound) \in Push /\ Head(inbound) = inbound[1] /\ 1 \in DOMAIN inbound
          /\ inbound' \in Seq(Push \cup Answer)
          /\ \A k \in DOMAIN inbound' : k + 1 \in DOMAIN inbound /\ inbound'[k] = inbound[k + 1]
      BY <2>6, FramesTaken DEF ReadPush, Pop, Push, Answer
    <3>2. inbound[1].env \in Envelope /\ inbound[1].env \in Logged
      BY <3>1 DEF Push, TypeInv, LogInv, Known
    <3>3. /\ receipts' = receipts \cup {inbound[1].env}
          /\ UNCHANGED <<outbox, events, cursor, relayLog>>
          /\ obs' = obs \/ obs' = [step |-> "mark", env |-> inbound[1].env]
      BY <2>6, <3>1, ObserveDoes DEF ReadPush, Idling
    <3>4. /\ UNCHANGED <<linked, deaf, phase, from, page, more, last, behind>> /\ race' \in Race
          /\ LoopFree
      BY <2>0, <2>6 DEF ReadPush, Idling, replayVars
    <3>5. LedgerTypeOK'
      BY <2>0, <3>2, <3>3 DEF LedgerTypeOK, HandlerStage
    <3>6. LogInv'
      BY <2>0, <3>1, <3>2, <3>3, <3>4 DEF TypeInv, LogInv, Logged, LoopFree, Idle, Known
    <3> QED
      BY <2>0, <2>e, <3>1, <3>4, <3>5, <3>6 DEF TypeInv, ReplayTypeOK
  <2>7. CASE ObserverContinues
    <3>1. /\ UNCHANGED <<linked, deaf, inbound, replayVars, historyVars, receipts, relayLog>>
          /\ obs.step # "idle"
          /\ obs' = Idle \/ (obs'.env = obs.env /\ cursor' = cursor)
          /\ cursor' \in {cursor, obs.env}
      BY <2>7 DEF ObserverContinues, ObserveStep, ObserveMark, ObserveEvent, ObserveCursor
    <3>2. LedgerTypeOK'
      BY <2>0, <2>7, ObserveTypes DEF ObserverContinues
    <3>3. LogInv'
      BY <2>0, <3>1 DEF TypeInv, LogInv, Logged, LoopFree, Idle, Known, replayVars
    <3> QED
      BY <2>0, <2>e, <3>1, <3>2, <3>3 DEF TypeInv, ReplayTypeOK, replayVars, historyVars
  <2>8. CASE RelayAnswers
    <3>1. PICK after, items, size, answer :
            /\ after = SubSeq(relayLog, Position(from) + 1, Len(relayLog))
            /\ size = IF Len(after) < PageSize THEN Len(after) ELSE PageSize
            /\ items = SubSeq(after, 1, size)
            /\ answer = [kind |-> "answer", items |-> items, more |-> Len(after) > size]
            /\ inbound' = Append(inbound, answer)
      BY <2>8 DEF RelayAnswers
    <3>2. items \in Seq(Envelope) /\ IsPage(items, Place(relayLog, from))
          /\ Place(relayLog, from) \in 0..Len(relayLog)
      BY <3>1, AnswerIsPage
    <3>3. \A i \in DOMAIN items : items[i] \in Logged
      <4>1. \A i \in 1..Len(items) : Place(relayLog, from) + i \in 1..Len(relayLog)
        BY <3>2, <2>0 DEF IsPage
      <4>2. DOMAIN items = 1..Len(items) /\ DOMAIN relayLog = 1..Len(relayLog)
        BY <2>0, <3>2
      <4>3. \A i \in DOMAIN items : items[i] = relayLog[Place(relayLog, from) + i]
        BY <3>2, <4>2 DEF IsPage
      <4> QED
        BY <4>1, <4>2, <4>3 DEF Logged
    <3>4. answer \in Answer /\ answer.kind = "answer" /\ answer.items = items
      <4>1. (Len(after) > size) \in BOOLEAN
        OBVIOUS
      <4>2. answer = [kind |-> "answer", items |-> items, more |-> Len(after) > size]
        BY <3>1
      <4> QED
        BY ONLY <3>2, <4>1, <4>2 DEF Answer
    <3>5. /\ UNCHANGED <<ledgerVars, linked, deaf, from, page, more, last, historyVars>>
          /\ phase' = "replied"
      BY <2>8 DEF RelayAnswers
    <3>6. LogInv'
      <4>1. Logged' = Logged
        BY <3>5 DEF Logged, ledgerVars
      <4>2. Known(answer)
        BY <3>3, <3>4 DEF Known
      <4>3. \A k \in DOMAIN inbound' : Known(inbound'[k])
        <5>1. \A k \in DOMAIN inbound' :
                \/ k \in DOMAIN inbound /\ inbound'[k] = inbound[k]
                \/ inbound'[k] = answer
          <6>1. inbound' = Append(inbound, answer) /\ answer \in Push \cup Answer
            BY <3>1, <3>4
          <6> QED
            BY <6>1, FramesAdded
        <5> QED
          BY <4>2, <5>1 DEF TypeInv, LogInv
      <4>4. \A k \in DOMAIN inbound' :
              IF inbound'[k].kind = "push" THEN inbound'[k].env \in Logged'
              ELSE \A i \in DOMAIN inbound'[k].items : inbound'[k].items[i] \in Logged'
        BY <4>1, <4>3 DEF Known
      <4> QED
        BY <2>0, <3>5, <4>1, <4>4 DEF TypeInv, LogInv, LoopFree, Known, ledgerVars
    <3>7. inbound' \in Seq(Push \cup Answer)
      BY <3>1, <3>4, FramesAdded
    <3> QED
      BY <2>0, <2>e, <3>5, <3>6, <3>7 DEF TypeInv, ReplayTypeOK, LedgerTypeOK, ledgerVars, historyVars
  <2>9. ASSUME NEW e \in Envelope, RelayDelivers(e) PROVE TypeInv'
    <3>1. /\ UNCHANGED <<durableVars, obs, linked, deaf, replayVars, historyVars>>
          /\ relayLog' = Append(relayLog, e) /\ ~\E i \in DOMAIN relayLog : relayLog[i] = e
          /\ inbound' = inbound \/ inbound' = Append(inbound, [kind |-> "push", env |-> e])
      BY <2>9 DEF RelayDelivers, RelayLogs, Logged
    <3>2. /\ relayLog' \in Seq(Envelope) /\ ListsOnce(relayLog') /\ e \in Logged'
          /\ Logged \subseteq Logged'
      <4>1. relayLog' \in Seq(Envelope) /\ ListsOnce(relayLog')
        BY <2>0, <3>1, PlacesStay
      <4>2. /\ \A i \in DOMAIN relayLog : i \in DOMAIN relayLog' /\ relayLog'[i] = relayLog[i]
            /\ Len(relayLog) + 1 \in DOMAIN relayLog' /\ relayLog'[Len(relayLog) + 1] = e
        BY <2>0, <3>1
      <4>3. e \in Logged' /\ Logged \subseteq Logged'
        BY <4>2 DEF Logged
      <4> QED
        BY <4>1, <4>3
    <3>3. [kind |-> "push", env |-> e] \in Push
      BY DEF Push
    <3>4. /\ inbound' \in Seq(Push \cup Answer)
          /\ \A k \in DOMAIN inbound' : \/ k \in DOMAIN inbound /\ inbound'[k] = inbound[k]
                                        \/ inbound'[k] = [kind |-> "push", env |-> e]
      <4>1. CASE inbound' = inbound
        BY <2>0, <4>1
      <4>2. CASE inbound' = Append(inbound, [kind |-> "push", env |-> e])
        BY <2>0, <3>3, <4>2, FramesAdded
      <4> QED
        BY <3>1, <4>1, <4>2
    <3>5. LedgerTypeOK'
      BY <2>0, <3>1, <3>2 DEF LedgerTypeOK, durableVars
    <3>6. LogInv'
      BY <2>0, <3>1, <3>2, <3>4 DEF TypeInv, LogInv, LoopFree, Known, durableVars, replayVars
    <3> QED
      BY <2>0, <2>e, <3>1, <3>4, <3>5, <3>6 DEF TypeInv, ReplayTypeOK, replayVars, historyVars
  <2>10. CASE Deafen
    <3>1. /\ UNCHANGED <<ledgerVars, linked, phase, from, page, more, last, behind, race>>
          /\ deaf' \in BOOLEAN /\ inbound' = <<>>
      BY <2>10 DEF Deafen, replayVars, historyVars
    <3>2. inbound' \in Seq(Push \cup Answer) /\ DOMAIN inbound' = {}
      BY <3>1
    <3>3. LogInv'
      BY <2>0, <3>1, <3>2 DEF TypeInv, LogInv, Logged, LoopFree, Known, ledgerVars
    <3> QED
      BY <2>0, <2>e, <3>1, <3>2, <3>3 DEF TypeInv, ReplayTypeOK, LedgerTypeOK, ledgerVars
  <2>11. CASE UNCHANGED vars
    BY <2>11 DEF TypeInv, ReplayTypeOK, LedgerTypeOK, LogInv, Logged, LoopFree, Known, vars, ledgerVars, replayVars,
                historyVars
  <2> QED
    BY <2>1, <2>2, <2>3, <2>4, <2>5, <2>6, <2>7, <2>8, <2>9, <2>10, <2>11 DEF Next, Replay, Reader
<1> QED
  BY <1>1, <1>2, PTL DEF Spec
-----------------------------------------------------------------------------
(* What the cursor claims.                                                  *)

\* The places of what the client knows of.
LEMMA PlaceFacts ==
  ASSUME TypeInv
  PROVE  /\ relayLog \in Seq(Envelope) /\ Len(relayLog) \in Nat /\ DOMAIN relayLog = 1..Len(relayLog)
         /\ Place(relayLog, NoEnvelope) = 0
         /\ \A c \in Logged \cup {NoEnvelope} : Place(relayLog, c) \in 0..Len(relayLog)
         /\ \A c \in Logged : Place(relayLog, c) \in DOMAIN relayLog /\ relayLog[Place(relayLog, c)] = c
         /\ \A i \in DOMAIN relayLog : relayLog[i] \in Logged /\ Place(relayLog, relayLog[i]) = i
<1>1. relayLog \in Seq(Envelope) /\ ListsOnce(relayLog)
  BY DEF TypeInv, ReplayTypeOK, LedgerTypeOK, LogInv
<1>2. Len(relayLog) \in Nat /\ DOMAIN relayLog = 1..Len(relayLog)
  BY <1>1
<1>3. \A c \in Logged : \E i \in DOMAIN relayLog : relayLog[i] = c
  BY DEF Logged
<1>4. \A c \in Logged : Place(relayLog, c) \in DOMAIN relayLog /\ relayLog[Place(relayLog, c)] = c
  BY <1>1, <1>2, <1>3, Places
<1>5. Place(relayLog, NoEnvelope) = 0
  BY DEF Place
<1> QED
  BY <1>1, <1>2, <1>4, <1>5, Places DEF Logged

\* The frames: a push names a receipt of the relay, an answer a page of them.
LEMMA FrameFacts ==
  ASSUME TypeInv
  PROVE  /\ DOMAIN inbound = 1..Len(inbound) /\ Len(inbound) \in Nat
         /\ \A k \in Pushes : k \in 1..Len(inbound) /\ inbound[k].env \in Logged
         /\ \A a \in Answers : a \in 1..Len(inbound) /\ inbound[a].kind = "answer"
                               /\ inbound[a].items \in Seq(Envelope)
<1>1. inbound \in Seq(Push \cup Answer)
  BY DEF TypeInv, ReplayTypeOK
<1>2. \A a \in Answers : inbound[a] \in Answer
  BY <1>1 DEF Answers, Pushes, Push, Answer
<1> QED
  BY <1>1, <1>2 DEF TypeInv, LogInv, Known, Pushes, Answers, Push, Answer

\* What is stored stays stored.
LEMMA ReceiptsStay ==
  ASSUME [Next]_vars
  PROVE  receipts \subseteq receipts'
<1>1. ASSUME NEW e, LoopFree, Observe(e) PROVE receipts \subseteq receipts'
  BY <1>1, ObserveDoes
<1>2. CASE ReplayOne \/ ReadPush
  BY <1>1, <1>2 DEF ReplayOne, ReadPush, Idling
<1>3. CASE ObserverContinues
  BY <1>3 DEF ObserverContinues, ObserveStep, ObserveMark, ObserveEvent, ObserveCursor
<1> QED
  BY <1>2, <1>3 DEF Next, Join, StartReplay, Replay, NextPage, FinishReplay, ReplayRaises, ReplayCancelled,
       Reader, ReadAnswer, Deafen, RelayAnswers, RelayDelivers, RelayLogs, Disconnect, Crash, vars, ledgerVars, durableVars

\* The only action that changes the log adds to it.
LEMMA LogStays ==
  ASSUME [Next]_vars, \A e \in Envelope : ~RelayDelivers(e)
  PROVE  relayLog' = relayLog
<1>1. ASSUME NEW e, LoopFree, Observe(e) PROVE relayLog' = relayLog
  BY <1>1, ObserveDoes
<1>2. CASE ReplayOne \/ ReadPush
  BY <1>1, <1>2 DEF ReplayOne, ReadPush, Idling
<1>3. CASE ObserverContinues
  BY <1>3 DEF ObserverContinues, ObserveStep, ObserveMark, ObserveEvent, ObserveCursor
<1> QED
  BY <1>2, <1>3 DEF Next, Join, StartReplay, Replay, NextPage, FinishReplay, ReplayRaises, ReplayCancelled,
       Reader, ReadAnswer, Deafen, RelayAnswers, Disconnect, Crash, vars, ledgerVars, durableVars

\* How the frames move: not at all, one is read, one comes, or all are lost.
LEMMA FrameSteps ==
  ASSUME TypeInv, [Next]_vars
  PROVE  \/ inbound' = inbound
         \/ /\ ReadAnswer \/ ReadPush
            /\ inbound # <<>> /\ inbound' = Tail(inbound)
         \/ RelayAnswers
         \/ \E e \in Envelope : RelayDelivers(e) /\ linked /\ ~deaf /\
              inbound' = Append(inbound, [kind |-> "push", env |-> e])
         \/ FramesLost
BY DEF FramesLost, Next, Join, StartReplay, Replay, ReplayOne, NextPage, FinishReplay, ReplayRaises, Reader, ReadAnswer,
       ReadPush, Pop, ObserverContinues, RelayDelivers, vars

\* A push comes, and its envelope is the last of the log.
LEMMA DeliveryDoes ==
  ASSUME TypeInv, NEW e \in Envelope, RelayDelivers(e)
  PROVE  /\ UNCHANGED <<receipts, obs, cursor, linked, deaf, phase, from, page, more, last, behind, race>>
         /\ relayLog' = Append(relayLog, e) /\ relayLog' \in Seq(Envelope)
         /\ DOMAIN relayLog' = 1..(Len(relayLog) + 1)
         /\ \A i \in DOMAIN relayLog : relayLog'[i] = relayLog[i]
         /\ relayLog'[Len(relayLog) + 1] = e
         /\ \A c \in Logged \cup {NoEnvelope} : Place(relayLog', c) = Place(relayLog, c)
         /\ Place(relayLog', e) = Len(relayLog) + 1
         /\ Pushes \subseteq Pushes' /\ Answers' = Answers
         /\ \A k \in DOMAIN inbound : inbound'[k] = inbound[k]
         /\ \A k \in Pushes' : k \in Pushes \/ (k = Len(inbound) + 1 /\ inbound'[k].env = e)
         /\ linked /\ ~deaf => \E k \in Pushes' : inbound'[k].env = e
<1>1. /\ UNCHANGED <<receipts, obs, cursor, linked, deaf, phase, from, page, more, last, behind, race>>
      /\ relayLog' = Append(relayLog, e) /\ e \notin Logged
      /\ inbound' = IF linked /\ ~deaf THEN Append(inbound, [kind |-> "push", env |-> e]) ELSE inbound
  BY DEF RelayDelivers, RelayLogs, durableVars, linkVars, replayVars, historyVars
<1>2. /\ relayLog \in Seq(Envelope) /\ ListsOnce(relayLog) /\ Len(relayLog) \in Nat
      /\ DOMAIN relayLog = 1..Len(relayLog)
  BY PlaceFacts DEF TypeInv, LogInv
<1>3. /\ relayLog' \in Seq(Envelope) /\ DOMAIN relayLog' = 1..(Len(relayLog) + 1)
      /\ \A i \in DOMAIN relayLog : relayLog'[i] = relayLog[i]
      /\ relayLog'[Len(relayLog) + 1] = e
  BY <1>1, <1>2
<1>4. /\ \A c \in Logged \cup {NoEnvelope} : Place(relayLog', c) = Place(relayLog, c)
      /\ Place(relayLog', e) = Len(relayLog) + 1
  <2>1. /\ Place(relayLog', NoEnvelope) = 0 /\ Place(relayLog', e) = Len(relayLog) + 1
        /\ \A i \in DOMAIN relayLog : Place(relayLog', relayLog[i]) = i
    BY <1>1, <1>2, PlacesStay DEF Logged
  <2> QED
    BY <2>1, PlaceFacts DEF Logged
<1>5. [kind |-> "push", env |-> e] \in Push
  BY DEF Push
<1>6. /\ Pushes \subseteq Pushes' /\ Answers' = Answers
      /\ \A k \in DOMAIN inbound : inbound'[k] = inbound[k]
      /\ \A k \in Pushes' : k \in Pushes \/ (k = Len(inbound) + 1 /\ inbound'[k].env = e)
      /\ linked /\ ~deaf => \E k \in Pushes' : inbound'[k].env = e
  <2>1. CASE linked /\ ~deaf
    <3>1. /\ DOMAIN inbound' = 1..(Len(inbound) + 1) /\ Len(inbound) \in Nat
          /\ DOMAIN inbound = 1..Len(inbound)
          /\ \A k \in 1..Len(inbound) : inbound'[k] = inbound[k]
          /\ inbound'[Len(inbound) + 1] = [kind |-> "push", env |-> e]
      BY <1>1, <1>5, <2>1, FramesAdded
    <3> QED
      BY <3>1 DEF Pushes, Answers
  <2>2. CASE ~(linked /\ ~deaf)
    BY <1>1, <2>2 DEF Pushes, Answers
  <2> QED
    BY <2>1, <2>2
<1> QED
  BY <1>1, <1>3, <1>4, <1>6

\* The reader takes the first frame, and the others move up.
LEMMA ReadDoes ==
  ASSUME TypeInv, inbound # <<>>, inbound' = Tail(inbound)
  PROVE  /\ 1 \in DOMAIN inbound
         /\ \A k \in DOMAIN inbound' : k \in Nat /\ k + 1 \in DOMAIN inbound /\ inbound'[k] = inbound[k + 1]
         /\ \A k \in DOMAIN inbound : k # 1 => k - 1 \in DOMAIN inbound' /\ inbound'[k - 1] = inbound[k]
         /\ \A k \in Pushes' : k + 1 \in Pushes
         /\ \A k \in Answers' : k + 1 \in Answers
         /\ \A k \in Pushes : k # 1 => k - 1 \in Pushes'
<1>1. inbound \in Seq(Push \cup Answer)
  BY DEF TypeInv, ReplayTypeOK
<1>2. /\ Len(inbound) \in Nat \ {0} /\ DOMAIN inbound = 1..Len(inbound)
      /\ DOMAIN inbound' = 1..(Len(inbound) - 1)
      /\ \A k \in 1..(Len(inbound) - 1) : inbound'[k] = inbound[k + 1]
  BY <1>1
<1>3. /\ 1 \in DOMAIN inbound
      /\ \A k \in DOMAIN inbound' : k \in Nat /\ k + 1 \in DOMAIN inbound /\ inbound'[k] = inbound[k + 1]
  BY <1>2
<1>4. ASSUME NEW k \in DOMAIN inbound, k # 1
      PROVE  k - 1 \in DOMAIN inbound' /\ inbound'[k - 1] = inbound[k]
  <2>1. k - 1 \in 1..(Len(inbound) - 1) /\ k - 1 + 1 = k
    BY <1>2, <1>4
  <2> QED
    BY <1>2, <2>1
<1> QED
  BY <1>3, <1>4 DEF Pushes, Answers

\* What is stored or on its way stays so, until frames are lost.
LEMMA ReachedStays ==
  ASSUME TypeInv, [Next]_vars, ~FramesLost
  PROVE  Reached \subseteq Reached'
<1>0. receipts \subseteq receipts'
  BY ReceiptsStay
<1>1. CASE inbound' = inbound
  BY <1>0, <1>1 DEF Reached, Pushes
<1>2. CASE ReadAnswer \/ ReadPush
  <2>1. inbound # <<>> /\ inbound' = Tail(inbound) /\ Head(inbound) = inbound[1]
    BY <1>2, FramesTaken DEF ReadAnswer, ReadPush, Pop
  <2>2. 1 \in Pushes => inbound[1].env \in receipts'
    BY <1>2, <2>1, ObserveDoes DEF ReadAnswer, ReadPush, Idling, Pushes
  <2>3. \A k \in Pushes : k # 1 => k - 1 \in Pushes' /\ inbound'[k - 1].env = inbound[k].env
    BY <2>1, ReadDoes DEF Pushes
  <2> QED
    BY <1>0, <2>2, <2>3 DEF Reached
<1>3. CASE RelayAnswers
  <2>1. inbound \in Seq(Push \cup Answer)
    BY DEF TypeInv, ReplayTypeOK
  <2>2. PICK f : inbound' = Append(inbound, f)
    BY <1>3 DEF RelayAnswers
  <2>3. \A k \in DOMAIN inbound : k \in DOMAIN inbound' /\ inbound'[k] = inbound[k]
    BY <2>1, <2>2
  <2> QED
    BY <1>0, <2>3 DEF Reached, Pushes
<1>4. ASSUME NEW e \in Envelope, RelayDelivers(e) PROVE Reached \subseteq Reached'
  <2>1. \A k \in Pushes : k \in Pushes' /\ inbound'[k].env = inbound[k].env
    BY <1>4, DeliveryDoes DEF Pushes
  <2> QED
    BY <1>0, <2>1 DEF Reached
<1> QED
  BY <1>1, <1>2, <1>3, <1>4, FrameSteps

\* The answer comes last, and it is all that comes.
LEMMA AnswerComes ==
  ASSUME TypeInv, RelayAnswers
  PROVE  /\ Pushes' = Pushes /\ \A k \in DOMAIN inbound : inbound'[k] = inbound[k]
         /\ Len(inbound) \in Nat /\ DOMAIN inbound = 1..Len(inbound)
         /\ Answers' = Answers \cup {Len(inbound) + 1}
         /\ LET answer == inbound'[Len(inbound) + 1]
                end    == Place(relayLog, from) + Len(answer.items)
            IN  /\ IsPage(answer.items, Place(relayLog, from))
                /\ end \in Nat
                /\ ~answer.more => end = Len(relayLog)
                /\ answer.items = <<>> => ~answer.more
<1>1. PICK after, items, size, answer :
        /\ after = SubSeq(relayLog, Position(from) + 1, Len(relayLog))
        /\ size = IF Len(after) < PageSize THEN Len(after) ELSE PageSize
        /\ items = SubSeq(after, 1, size)
        /\ answer = [kind |-> "answer", items |-> items, more |-> Len(after) > size]
        /\ inbound' = Append(inbound, answer)
  BY DEF RelayAnswers
<1>2. /\ Place(relayLog, from) \in 0..Len(relayLog) /\ Len(relayLog) \in Nat
      /\ Len(after) = Len(relayLog) - Place(relayLog, from)
      /\ items \in Seq(Envelope) /\ Len(items) = size
      /\ Len(after) > size => size > 0
      /\ IsPage(items, Place(relayLog, from))
  BY <1>1, AnswerIsPage, PlaceFacts
<1>3. answer \in Answer /\ answer.kind = "answer" /\ answer.items = items
  <2>1. (Len(after) > size) \in BOOLEAN
    OBVIOUS
  <2>2. answer = [kind |-> "answer", items |-> items, more |-> Len(after) > size]
    BY <1>1
  <2> QED
    BY ONLY <1>2, <2>1, <2>2 DEF Answer
<1>4. answer.more <=> Len(after) > size
  BY <1>1
<1>5. /\ Len(inbound) \in Nat /\ DOMAIN inbound = 1..Len(inbound)
      /\ DOMAIN inbound' = 1..(Len(inbound) + 1)
      /\ \A k \in 1..Len(inbound) : inbound'[k] = inbound[k]
      /\ inbound'[Len(inbound) + 1] = answer
  <2>1. inbound' = Append(inbound, answer) /\ answer \in Push \cup Answer
    BY <1>1, <1>3
  <2> QED
    BY <2>1, FramesAdded
<1>6. Pushes' = Pushes /\ Answers' = Answers \cup {Len(inbound) + 1}
  BY <1>3, <1>5 DEF Pushes, Answers
<1>7. Place(relayLog, from) + size \in Nat /\ (~answer.more => Place(relayLog, from) + size = Len(relayLog))
  <2>1. size \in Nat /\ size <= Len(after)
    <3>1. PageSize \in Nat \ {0} /\ Len(after) \in Nat
      BY <1>2, ReplayAssumption
    <3>2. size = IF Len(after) < PageSize THEN Len(after) ELSE PageSize
      BY <1>1
    <3> QED
      BY ONLY <3>1, <3>2
  <2>2. ~answer.more => ~(Len(after) > size)
    BY <1>4
  <2>3. Len(after) \in Nat
    BY <1>2
  <2>4. Place(relayLog, from) + size \in Nat
    BY ONLY <1>2, <2>1
  <2>5. ~(Len(after) > size) => Place(relayLog, from) + size = Len(relayLog)
    BY ONLY <1>2, <2>1, <2>3
  <2> QED
    BY <2>2, <2>4, <2>5
<1>8. items = <<>> => ~answer.more
  <2>1. items = <<>> => size = 0
    BY <1>2
  <2>2. size = 0 => ~(Len(after) > size)
    BY <1>2
  <2> QED
    BY <1>4, <2>1, <2>2
<1> QED
  BY <1>2, <1>3, <1>5, <1>6, <1>7, <1>8

\* The last receipt of an answer ends the page.
LEMMA AnswerEnds ==
  ASSUME TypeInv, AnswerInv, NEW a \in Answers
  PROVE  LET items == inbound[a].items
             end   == Place(relayLog, from) + Len(items)
         IN  /\ end \in 0..Len(relayLog)
             /\ items = <<>> => Place(relayLog, from) = end
             /\ items # <<>> => /\ items[Len(items)] # NoEnvelope
                                /\ Place(relayLog, items[Len(items)]) = end
<1> DEFINE items == inbound[a].items
<1> DEFINE n == Place(relayLog, from)
<1>1. items \in Seq(Envelope) /\ IsPage(items, n)
  BY FrameFacts DEF AnswerInv
<1>2. n \in 0..Len(relayLog) /\ Len(relayLog) \in Nat
  BY PlaceFacts DEF TypeInv, LogInv
<1> HIDE DEF items, n
<1>3. CASE items = <<>>
  <2>1. Len(items) = 0
    BY <1>3
  <2> QED
    BY <1>2, <1>3, <2>1 DEF items, n
<1>4. CASE items # <<>>
  <2>1. Len(items) \in Nat \ {0} /\ items[Len(items)] \in Envelope
    BY <1>1, <1>4
  <2>2. n + Len(items) \in 0..Len(relayLog) /\ items[Len(items)] = relayLog[n + Len(items)]
    BY <1>1, <2>1 DEF IsPage
  <2>3. n + Len(items) \in 1..Len(relayLog)
    BY <1>2, <2>1, <2>2
  <2>4. Place(relayLog, items[Len(items)]) = n + Len(items)
    BY <2>2, <2>3, PlaceFacts
  <2> QED
    BY <1>4, <2>1, <2>2, <2>4, NoEnvelopeAssumption DEF items, n
<1> QED
  BY <1>3, <1>4

\* A receipt that is new in the log is on its way to a reader that still reads.
LEMMA DeliveryHeard ==
  ASSUME TypeInv, NEW e \in Envelope, RelayDelivers(e), linked, ~deaf
  PROVE  \A n : Heard(n) => \A i \in DOMAIN relayLog' : i > n => relayLog'[i] \in Reached'
<1>1. Reached \subseteq Reached' /\ e \in Reached'
  <2>1. \A k \in Pushes : k \in Pushes' /\ inbound'[k].env = inbound[k].env
    BY DeliveryDoes DEF Pushes
  <2>2. receipts' = receipts
    BY DeliveryDoes
  <2>3. \E k \in Pushes' : inbound'[k].env = e
    BY DeliveryDoes
  <2> QED
    BY <2>1, <2>2, <2>3 DEF Reached
<1>2. \A i \in DOMAIN relayLog' : \/ i \in DOMAIN relayLog /\ relayLog'[i] = relayLog[i]
                                  \/ relayLog'[i] = e
  <2>1. /\ DOMAIN relayLog' = 1..(Len(relayLog) + 1) /\ DOMAIN relayLog = 1..Len(relayLog)
        /\ Len(relayLog) \in Nat
    BY DeliveryDoes, PlaceFacts
  <2>2. \A i \in 1..(Len(relayLog) + 1) : i \in 1..Len(relayLog) \/ i = Len(relayLog) + 1
    BY <2>1
  <2> QED
    BY <2>1, <2>2, DeliveryDoes
<1> QED
  BY <1>1, <1>2 DEF Heard

\* The phases of the replay and what they are part of.
LEMMA PhaseStep ==
  ASSUME TypeInv, PhaseInv, AnswerInv, [Next]_vars
  PROVE  PhaseInv'
<1> USE DEF PhaseInv, linkVars
<1>0. race \in {"no", "risk", "lost"}
  BY DEF TypeInv, ReplayTypeOK, Race
<1>1. CASE Join \/ StartReplay \/ NextPage
  BY <1>0, <1>1 DEF Join, StartReplay, NextPage, PageDone, historyVars
<1>2. CASE ReplayOne
  BY <1>2 DEF ReplayOne, historyVars
<1>3. CASE FinishReplay
  BY <1>3 DEF FinishReplay, PageDone, NoReplay
<1>4. CASE ReplayRaises \/ ReplayCancelled \/ Disconnect \/ Crash
  BY <1>0, <1>4 DEF ReplayRaises, ReplayCancelled, Disconnect, Crash, CutShort, NoReplay
<1>5. CASE ReadAnswer
  <2>1. linked /\ UNCHANGED <<linked, behind, race>> /\ phase' = "answered"
    BY <1>5 DEF ReadAnswer, historyVars
  <2>d. ~deaf /\ ~deaf'
    BY <1>5 DEF ReadAnswer
  <2>2. 1 \in Answers
    BY <1>5, FramesTaken DEF ReadAnswer, Answers, Pushes
  <2>3. behind
    BY <2>2 DEF AnswerInv
  <2> QED
    BY <2>1, <2>d, <2>3
<1>6. CASE ReadPush
  <2>1. linked /\ UNCHANGED <<linked, behind, phase>>
    BY <1>6 DEF ReadPush, replayVars
  <2>d. ~deaf /\ ~deaf'
    BY <1>6 DEF ReadPush
  <2>2. race' = "risk" /\ race # "risk" => phase \notin {"none", "joined"}
    BY <1>6 DEF ReadPush
  <2>3. phase \in Phase
    BY DEF TypeInv, ReplayTypeOK
  <2> QED
    BY <2>1, <2>d, <2>2, <2>3 DEF Phase
<1>7. CASE ObserverContinues
  BY <1>7 DEF ObserverContinues, replayVars, historyVars
<1>8. CASE RelayAnswers
  BY <1>8 DEF RelayAnswers, historyVars
<1>9. CASE \E e \in Envelope : RelayDelivers(e)
  BY <1>9 DEF RelayDelivers, replayVars, historyVars
<1>10. CASE Deafen
  BY <1>10 DEF Deafen, Idling, replayVars, historyVars
<1>11. CASE UNCHANGED vars
  BY <1>11 DEF vars, replayVars, historyVars
<1> QED
  BY <1>1, <1>2, <1>3, <1>4, <1>5, <1>6, <1>7, <1>8, <1>9, <1>10, <1>11 DEF Next, Replay, Reader

\* The place where the page ends stays as long as the page does.
LEMMA PageEndFacts ==
  ASSUME TypeInv
  PROVE  PageEnd \in 0..Len(relayLog)
<1>1. (IF last = NoEnvelope THEN from ELSE last) \in Logged \cup {NoEnvelope}
  BY DEF TypeInv, LogInv
<1> QED
  BY <1>1, PlaceFacts DEF PageEnd

\* The first receipt of the page is at its place in the log.
LEMMA PageHead ==
  ASSUME TypeInv, PageInv, AtWork, page # <<>>
  PROVE  /\ Head(page) \in Logged
         /\ Place(relayLog, Head(page)) = PageEnd - Len(page) + 1
         /\ Place(relayLog, Head(page)) <= PageEnd
         /\ Len(page) \in Nat \ {0} /\ PageEnd \in Nat /\ PageEnd - Len(page) \in Nat
<1>1. /\ Head(page) = page[1] /\ Len(page) \in Nat \ {0} /\ PageEnd \in 0..Len(relayLog)
      /\ Len(relayLog) \in Nat
  BY PageTaken, PageEndFacts, PlaceFacts
<1>2. /\ PageEnd - Len(page) \in Nat /\ PageEnd - Len(page) + Len(page) \in 0..Len(relayLog)
      /\ page[1] = relayLog[PageEnd - Len(page) + 1]
  BY <1>1 DEF PageInv, IsPage
<1>3. PageEnd - Len(page) + 1 \in 1..Len(relayLog) /\ PageEnd - Len(page) + 1 <= PageEnd
  BY <1>1, <1>2
<1> QED
  BY <1>1, <1>2, <1>3, PlaceFacts

\* The pushes on their way stay in the order of the log.
LEMMA OrderStep ==
  ASSUME TypeInv, ReplayInv, [Next]_vars
  PROVE  OrderInv'
<1>0. OrderInv /\ PageInv /\ AnswerInv /\ PhaseInv
  BY DEF ReplayInv
<1>1. CASE Join \/ StartReplay \/ NextPage \/ FinishReplay \/ ReplayRaises \/ UNCHANGED vars
  <2>1. UNCHANGED <<relayLog, obs, inbound>> /\ Pushes' = Pushes
    BY <1>1 DEF Join, StartReplay, NextPage, FinishReplay, ReplayRaises, vars, ledgerVars, Pushes
  <2>2. CASE AtWork'
    <3>1. UNCHANGED <<cursor, last, from>> /\ AtWork
      BY <1>1, <2>2 DEF Join, StartReplay, NextPage, FinishReplay, ReplayRaises, CutShort, NoReplay, AtWork,
                        vars, ledgerVars, replayVars
    <3> QED
      BY <1>0, <2>1, <3>1 DEF OrderInv, PageEnd, LoopFree
  <2>3. CASE ~AtWork'
    <3>1. cursor' = cursor \/ (AtWork /\ last # NoEnvelope /\ cursor' = last)
      BY <1>1 DEF Join, StartReplay, NextPage, FinishReplay, PageDone, ReplayRaises, AtWork, vars, ledgerVars
    <3>2. \A k \in Pushes : Place(relayLog, cursor') < Place(relayLog, inbound[k].env)
      BY <1>0, <3>1 DEF OrderInv, PageEnd
    <3> QED
      BY <1>0, <2>1, <2>3, <3>2 DEF OrderInv, LoopFree
  <2> QED
    BY <2>2, <2>3
<1>2. CASE ReplayOne
  <2>1. /\ UNCHANGED <<relayLog, inbound, cursor, last, from>> /\ Pushes' = Pushes
        /\ obs' = obs \/ obs'.env = Head(page)
        /\ LoopFree /\ AtWork /\ page # <<>>
    BY <1>2, ObserveDoes DEF ReplayOne, Pushes, AtWork
  <2>2. PageEnd' = PageEnd
    BY <2>1 DEF PageEnd
  <2>3. \A k \in Pushes : Place(relayLog, Head(page)) < Place(relayLog, inbound[k].env)
    <3> TAKE k \in Pushes
    <3>1. /\ PageEnd < Place(relayLog, inbound[k].env) /\ Place(relayLog, Head(page)) <= PageEnd
          /\ Place(relayLog, inbound[k].env) \in Nat /\ Place(relayLog, Head(page)) \in Nat
          /\ PageEnd \in Nat
      BY <1>0, <2>1, PageHead, PlaceFacts, FrameFacts DEF OrderInv
    <3> QED
      BY <3>1
  <2> QED
    BY <1>0, <2>1, <2>2, <2>3 DEF OrderInv, LoopFree
<1>3. CASE ReadAnswer
  <2>1. /\ inbound # <<>> /\ inbound' = Tail(inbound) /\ 1 \in Answers
        /\ UNCHANGED <<relayLog, obs, cursor, from>>
        /\ last' = IF inbound[1].items = <<>> THEN NoEnvelope
                   ELSE inbound[1].items[Len(inbound[1].items)]
    BY <1>3, FramesTaken DEF ReadAnswer, Pop, Answers, Pushes, ledgerVars
  <2>2. PageEnd' = Place(relayLog, from) + Len(inbound[1].items)
    BY <1>0, <2>1, AnswerEnds DEF PageEnd
  <2>3. \A k \in Pushes : 1 < k => PageEnd' < Place(relayLog, inbound[k].env)
    BY <1>0, <2>1, <2>2 DEF AnswerInv
  <2>4. \A k \in Pushes' : k + 1 \in Pushes /\ k \in Nat /\ 1 < k + 1 /\ inbound'[k] = inbound[k + 1]
    <3>1. \A k \in Pushes' : k + 1 \in Pushes /\ k \in DOMAIN inbound'
      BY <2>1, ReadDoes DEF Pushes
    <3> QED
      BY <2>1, <3>1, ReadDoes DEF Pushes, Answers
  <2>5. \A j, k \in Pushes' : j < k => j + 1 < k + 1
    BY <2>4
  <2> QED
    BY <1>0, <2>1, <2>3, <2>4, <2>5 DEF OrderInv, LoopFree
<1>4. CASE ReadPush
  <2>1. /\ inbound # <<>> /\ inbound' = Tail(inbound) /\ 1 \in Pushes
        /\ UNCHANGED <<relayLog, cursor, from, last, phase>>
        /\ obs' = obs \/ obs'.env = inbound[1].env
        /\ LoopFree
    BY <1>4, FramesTaken, ObserveDoes DEF ReadPush, Idling, Pop, Pushes, replayVars
  <2>2. \A k \in Pushes' : k + 1 \in Pushes /\ k \in Nat /\ 1 < k + 1 /\ inbound'[k] = inbound[k + 1]
    <3>1. \A k \in Pushes' : k + 1 \in Pushes /\ k \in DOMAIN inbound'
      BY <2>1, ReadDoes DEF Pushes
    <3>2. \A k \in DOMAIN inbound' : k \in Nat /\ k # 0 /\ inbound'[k] = inbound[k + 1]
      BY <2>1, ReadDoes, FramesTaken
    <3> QED
      BY <3>1, <3>2
  <2>3. \A j, k \in Pushes' : j < k => j + 1 < k + 1
    BY <2>2
  <2>4. PageEnd' = PageEnd /\ AtWork' = AtWork
    BY <2>1 DEF PageEnd, AtWork
  <2> QED
    BY <1>0, <2>1, <2>2, <2>3, <2>4 DEF OrderInv, LoopFree
<1>5. CASE ObserverContinues
  <2>1. /\ UNCHANGED <<inbound, relayLog, phase, from, last>> /\ Pushes' = Pushes
        /\ ~LoopFree /\ cursor' \in {cursor, obs.env}
        /\ LoopFree' \/ obs'.env = obs.env
    BY <1>5 DEF ObserverContinues, ObserveStep, ObserveMark, ObserveEvent, ObserveCursor, LoopFree, Idle,
                Pushes, replayVars
  <2>2. PageEnd' = PageEnd /\ AtWork' = AtWork
    BY <2>1 DEF PageEnd, AtWork
  <2> QED
    BY <1>0, <2>1, <2>2 DEF OrderInv
<1>6. CASE RelayAnswers
  <2>1. /\ UNCHANGED <<relayLog, obs, cursor>> /\ ~AtWork'
    BY <1>6 DEF RelayAnswers, AtWork, ledgerVars
  <2>2. Pushes' = Pushes /\ \A k \in Pushes : inbound'[k] = inbound[k]
    BY <1>6, AnswerComes DEF Pushes
  <2> QED
    BY <1>0, <2>1, <2>2 DEF OrderInv, LoopFree
<1>7. ASSUME NEW e \in Envelope, RelayDelivers(e) PROVE OrderInv'
  <2>1. \A k \in Pushes : /\ k \in Pushes' /\ k <= Len(inbound) /\ k \in Nat
                          /\ inbound'[k].env = inbound[k].env
                          /\ Place(relayLog', inbound[k].env) = Place(relayLog, inbound[k].env)
                          /\ Place(relayLog', inbound[k].env) < Len(relayLog) + 1
    BY <1>7, DeliveryDoes, FrameFacts, PlaceFacts DEF Pushes
  <2>2. \A k \in Pushes' : k \in Pushes \/ (/\ k = Len(inbound) + 1
                                            /\ Place(relayLog', inbound'[k].env) = Len(relayLog) + 1)
    BY <1>7, DeliveryDoes
  <2>3. \A c \in Logged \cup {NoEnvelope} : /\ Place(relayLog', c) = Place(relayLog, c)
                                            /\ Place(relayLog', c) < Len(relayLog) + 1
    BY <1>7, DeliveryDoes, PlaceFacts
  <2>4. /\ UNCHANGED <<obs, cursor, phase, from, last>>
        /\ cursor \in Logged \cup {NoEnvelope} /\ (~LoopFree => obs.env \in Logged)
        /\ (IF last = NoEnvelope THEN from ELSE last) \in Logged \cup {NoEnvelope}
    BY <1>7, DeliveryDoes DEF TypeInv, LogInv
  <2>5. /\ Place(relayLog', cursor') = Place(relayLog, cursor)
        /\ Place(relayLog', cursor') < Len(relayLog) + 1
        /\ PageEnd' = PageEnd /\ PageEnd < Len(relayLog) + 1
        /\ ~LoopFree => /\ Place(relayLog', obs'.env) = Place(relayLog, obs.env)
                        /\ Place(relayLog', obs'.env) < Len(relayLog) + 1
    BY <2>3, <2>4 DEF PageEnd
  <2>6. Len(inbound) \in Nat
    BY FrameFacts
  <2>7. ASSUME NEW j \in Pushes', NEW k \in Pushes', j < k
        PROVE  Place(relayLog', inbound'[j].env) < Place(relayLog', inbound'[k].env)
    <3>1. CASE k \in Pushes
      <4>1. j \in Pushes
        BY <2>1, <2>2, <2>6, <2>7, <3>1
      <4> QED
        BY <1>0, <2>1, <2>7, <3>1, <4>1 DEF OrderInv
    <3>2. CASE k \notin Pushes
      <4>1. j \in Pushes
        BY <2>2, <2>6, <2>7, <3>2
      <4> QED
        BY <2>1, <2>2, <3>2, <4>1
    <3> QED
      BY <3>1, <3>2
  <2>8. ASSUME NEW k \in Pushes'
        PROVE  /\ Place(relayLog', cursor') < Place(relayLog', inbound'[k].env)
               /\ ~LoopFree => Place(relayLog', obs'.env) < Place(relayLog', inbound'[k].env)
               /\ AtWork => PageEnd' < Place(relayLog', inbound'[k].env)
    <3>1. CASE k \in Pushes
      BY <1>0, <2>1, <2>5, <3>1 DEF OrderInv
    <3>2. CASE k \notin Pushes
      BY <2>2, <2>5, <3>2
    <3> QED
      BY <3>1, <3>2
  <2> QED
    BY <2>4, <2>7, <2>8 DEF OrderInv, LoopFree, AtWork
<1>8. CASE Disconnect \/ Crash \/ Deafen
  <2>1. Pushes' = {}
    BY <1>8 DEF Disconnect, Crash, Deafen, Pushes
  <2> QED
    BY <2>1 DEF OrderInv
<1>9. CASE ReplayCancelled
  <2>1. /\ UNCHANGED <<relayLog, obs, cursor>> /\ ~AtWork'
        /\ inbound' = inbound \/ inbound' = <<>>
    BY <1>9 DEF ReplayCancelled, CutShort, NoReplay, AtWork, ledgerVars
  <2>2. \A k \in Pushes' : k \in Pushes /\ inbound'[k] = inbound[k]
    BY <2>1 DEF Pushes
  <2> QED
    BY <1>0, <2>1, <2>2 DEF OrderInv, LoopFree
<1> QED
  BY <1>1, <1>2, <1>3, <1>4, <1>5, <1>6, <1>7, <1>8, <1>9 DEF Next, Replay, Reader

\* Reading a push loses no other frame.
LEMMA ReadPushKeeps ==
  ASSUME ReadPush
  PROVE  ~FramesLost
BY DEF ReadPush, FramesLost, Disconnect, Crash, Deafen, ReplayCancelled, CutShort, NoReplay, linkVars, replayVars

\* Where nothing is asked, nothing is on its way.
LEMMA NoAnswer ==
  ASSUME AnswerInv, phase # "replied"
  PROVE  Answers = {}
BY DEF AnswerInv

\* An answer on its way keeps to the page that follows `from'.
LEMMA AnswerStep ==
  ASSUME TypeInv, ReplayInv, [Next]_vars
  PROVE  AnswerInv'
<1>0. OrderInv /\ PageInv /\ AnswerInv /\ PhaseInv
  BY DEF ReplayInv
<1>1. CASE inbound' = inbound /\ (UNCHANGED <<phase, from, relayLog>>)
  <2>1. Answers' = Answers /\ Pushes' = Pushes
    BY <1>1 DEF Answers, Pushes
  <2>2. ASSUME NEW a \in Answers PROVE Reached \subseteq Reached'
    <3>1. ~FramesLost
      <4>1. phase = "replied" /\ inbound # <<>>
        BY <1>0, <2>2 DEF AnswerInv, Answers
      <4> QED
        BY <1>1, <4>1 DEF FramesLost, Disconnect, Crash, Deafen, ReplayCancelled, CutShort, NoReplay
    <3> QED
      BY <3>1, ReachedStays
  <2>3. ASSUME NEW a \in Answers
        PROVE  \A n : Heard(n) => \A i \in DOMAIN relayLog' : i > n => relayLog'[i] \in Reached'
    BY <1>1, <2>2, <2>3 DEF Heard
  <2> QED
    BY <1>0, <1>1, <2>1, <2>3 DEF AnswerInv, IsPage, Heard
<1>2. CASE Join \/ StartReplay \/ NextPage \/ ReplayOne \/ FinishReplay \/ ReplayRaises
  <2>1. phase # "replied" /\ inbound' = inbound
    BY <1>0, <1>2 DEF Join, StartReplay, NextPage, ReplayOne, FinishReplay, ReplayRaises, PageDone, PhaseInv
  <2>2. Answers' = {}
    BY <1>0, <2>1, NoAnswer DEF Answers, Pushes
  <2> QED
    BY <2>2 DEF AnswerInv
<1>3. CASE ReadAnswer
  <2>1. inbound # <<>> /\ inbound' = Tail(inbound) /\ 1 \in Answers
    BY <1>3, FramesTaken DEF ReadAnswer, Pop, Answers, Pushes
  <2>2. \A k \in Answers' : k + 1 \in Answers /\ k \in Nat /\ k # 0
    <3>1. \A k \in DOMAIN inbound' : k \in Nat /\ k # 0
      BY <2>1, FramesTaken
    <3> QED
      BY <2>1, <3>1, ReadDoes DEF Answers
  <2>3. \A k \in Answers : k = 1
    BY <1>0, <2>1 DEF AnswerInv
  <2>4. Answers' = {}
    BY <2>2, <2>3
  <2> QED
    BY <2>4 DEF AnswerInv
<1>4. CASE ReadPush
  <2>1. /\ inbound # <<>> /\ inbound' = Tail(inbound)
        /\ UNCHANGED <<relayLog, from, phase>> /\ ~FramesLost
    BY <1>4, ObserveDoes, ReadPushKeeps DEF ReadPush, Idling, Pop, replayVars
  <2>2. Reached \subseteq Reached'
    BY <2>1, ReachedStays
  <2>3. /\ \A k \in Answers' : k + 1 \in Answers /\ inbound'[k] = inbound[k + 1] /\ k \in Nat
        /\ \A k \in Pushes' : k + 1 \in Pushes /\ inbound'[k] = inbound[k + 1] /\ k \in Nat
    BY <2>1, ReadDoes DEF Answers, Pushes
  <2>4. \A n : Heard(n) => \A i \in DOMAIN relayLog' : i > n => relayLog'[i] \in Reached'
    BY <2>1, <2>2 DEF Heard
  <2>5. ASSUME NEW a \in Answers'
        PROVE  /\ phase = "replied"
               /\ \A b \in Answers' : a = b
               /\ inbound'[a] = inbound[a + 1]
               /\ \A k \in Pushes' : a < k =>
                    Place(relayLog, from) + Len(inbound[a + 1].items) < Place(relayLog, inbound'[k].env)
    <3>1. a + 1 \in Answers /\ inbound'[a] = inbound[a + 1] /\ a \in Nat
      BY <2>3
    <3>2. \A b \in Answers' : a = b
      BY <1>0, <2>3, <3>1 DEF AnswerInv
    <3>3. ASSUME NEW k \in Pushes', a < k
          PROVE  Place(relayLog, from) + Len(inbound[a + 1].items) < Place(relayLog, inbound'[k].env)
      <4>1. k + 1 \in Pushes /\ inbound'[k] = inbound[k + 1] /\ a + 1 < k + 1
        BY <2>3, <3>1, <3>3
      <4> QED
        BY <1>0, <3>1, <4>1 DEF AnswerInv
    <3> QED
      BY <1>0, <3>1, <3>2, <3>3 DEF AnswerInv
  <2>6. ASSUME NEW a \in Answers'
        PROVE  LET items == inbound[a + 1].items
                   end   == Place(relayLog, from) + Len(items)
               IN  /\ IsPage(items, Place(relayLog, from))
                   /\ ~inbound[a + 1].more => \A i \in DOMAIN relayLog' :
                                               i > end => relayLog'[i] \in Reached'
                   /\ items = <<>> => ~inbound[a + 1].more
    BY <1>0, <2>3, <2>4, <2>6 DEF AnswerInv
  <2>7. ASSUME NEW a \in Answers'
        PROVE  LET items == inbound'[a].items
                   end   == Place(relayLog', from') + Len(items)
               IN  /\ phase' = "replied"
                   /\ \A b \in Answers' : a = b
                   /\ end \in 0..Len(relayLog')
                   /\ \A i \in 1..Len(items) : items[i] = relayLog'[Place(relayLog', from') + i]
                   /\ ~inbound'[a].more => \A i \in DOMAIN relayLog' :
                                             i > end => relayLog'[i] \in Reached'
                   /\ items = <<>> => ~inbound'[a].more
                   /\ \A k \in Pushes' : a < k => end < Place(relayLog', inbound'[k].env)
    <3>1. inbound'[a] = inbound[a + 1] /\ UNCHANGED <<relayLog, from, phase>>
      BY <2>1, <2>5
    <3> QED
      BY <2>5, <2>6, <3>1 DEF IsPage
  <2> QED
    BY <2>7 DEF AnswerInv, IsPage, Heard
<1>5. CASE RelayAnswers
  <2>1. phase' = "replied" /\ UNCHANGED <<relayLog, from>> /\ Answers = {}
    BY <1>0, <1>5, NoAnswer DEF RelayAnswers, ledgerVars
  <2>2. Answers' = {Len(inbound) + 1} /\ Len(inbound) \in Nat
    BY <1>5, <2>1, AnswerComes
  <2>3. \A k \in Pushes' : k <= Len(inbound) /\ k \in Nat
    BY <1>5, AnswerComes DEF Pushes
  <2>4. PICK end \in Nat : end = Place(relayLog, from) + Len(inbound'[Len(inbound) + 1].items)
    BY <1>5, AnswerComes
  <2>5. ~inbound'[Len(inbound) + 1].more => end = Len(relayLog)
    BY <1>5, <2>4, AnswerComes
  <2>6. end = Len(relayLog) => \A i \in DOMAIN relayLog : ~(i > end)
    BY <2>4, PlaceFacts
  <2> QED
    BY <1>5, <2>1, <2>2, <2>3, <2>4, <2>5, <2>6, AnswerComes DEF AnswerInv, IsPage, Heard
<1>6. ASSUME NEW e \in Envelope, RelayDelivers(e) PROVE AnswerInv'
  <2>1. SUFFICES ASSUME NEW a \in Answers
                 PROVE  LET items == inbound[a].items
                            end   == Place(relayLog, from) + Len(items)
                        IN  /\ phase = "replied"
                            /\ \A b \in Answers : a = b
                            /\ end \in 0..Len(relayLog')
                            /\ \A i \in 1..Len(items) : items[i] = relayLog'[Place(relayLog, from) + i]
                            /\ ~inbound[a].more => \A i \in DOMAIN relayLog' :
                                                     i > end => relayLog'[i] \in Reached'
                            /\ items = <<>> => ~inbound[a].more
                            /\ \A k \in Pushes' : a < k => end < Place(relayLog', inbound'[k].env)
    <3>1. /\ Answers' = Answers /\ \A k \in DOMAIN inbound : inbound'[k] = inbound[k]
          /\ UNCHANGED <<phase, from>> /\ Place(relayLog', from) = Place(relayLog, from)
      BY <1>6, DeliveryDoes DEF TypeInv, LogInv
    <3>2. \A k \in Answers : inbound'[k] = inbound[k]
      BY <3>1 DEF Answers
    <3> QED
      BY <2>1, <3>1, <3>2 DEF AnswerInv, IsPage, Heard
  <2> DEFINE items == inbound[a].items
  <2> DEFINE end == Place(relayLog, from) + Len(items)
  <2>2. /\ phase = "replied" /\ linked /\ ~deaf /\ \A b \in Answers : a = b
        /\ IsPage(items, Place(relayLog, from)) /\ end \in 0..Len(relayLog)
        /\ ~inbound[a].more => Heard(end)
        /\ items = <<>> => ~inbound[a].more
        /\ \A k \in Pushes : a < k => end < Place(relayLog, inbound[k].env)
    BY <1>0 DEF AnswerInv, PhaseInv, IsPage, Answers
  <2>3. Len(relayLog) \in Nat /\ Len(relayLog') = Len(relayLog) + 1 /\ DOMAIN relayLog = 1..Len(relayLog)
    BY <1>6, PlaceFacts, DeliveryDoes
  <2>4. \A i \in 1..Len(items) : items[i] = relayLog'[Place(relayLog, from) + i]
    <3>1. \A i \in 1..Len(items) : /\ items[i] = relayLog[Place(relayLog, from) + i]
                                   /\ Place(relayLog, from) + i \in DOMAIN relayLog
      <4>1. Place(relayLog, from) \in Nat /\ Len(items) \in Nat
        BY PlaceFacts, FrameFacts DEF TypeInv, LogInv
      <4>2. \A i \in 1..Len(items) : Place(relayLog, from) + i \in 1..Len(relayLog)
        BY <2>2, <2>3, <4>1
      <4> QED
        BY <2>2, <2>3, <4>2 DEF IsPage
    <3> QED
      BY <1>6, <3>1, DeliveryDoes
  <2>5. ASSUME ~inbound[a].more, NEW i \in DOMAIN relayLog', i > end PROVE relayLog'[i] \in Reached'
    BY <1>6, <2>2, <2>5, DeliveryHeard DEF Heard
  <2>6. ASSUME NEW k \in Pushes', a < k PROVE end < Place(relayLog', inbound'[k].env)
    <3>1. CASE k \in Pushes
      <4>1. inbound'[k].env = inbound[k].env /\ inbound[k].env \in Logged
        BY <1>6, <3>1, DeliveryDoes, FrameFacts DEF Pushes
      <4> QED
        BY <1>6, <2>2, <2>6, <3>1, <4>1, DeliveryDoes
    <3>2. CASE k \notin Pushes
      <4>1. Place(relayLog', inbound'[k].env) = Len(relayLog) + 1
        BY <1>6, <3>2, DeliveryDoes
      <4> QED
        BY <2>2, <2>3, <4>1
    <3> QED
      BY <3>1, <3>2
  <2> HIDE DEF end
  <2>7. end \in 0..Len(relayLog')
    BY <2>2, <2>3
  <2> QED
    BY <2>2, <2>4, <2>5, <2>6, <2>7 DEF end
<1>7. CASE Disconnect \/ Crash \/ Deafen
  <2>1. Answers' = {}
    BY <1>7 DEF Disconnect, Crash, Deafen, Answers
  <2> QED
    BY <2>1 DEF AnswerInv
<1>8. CASE ObserverContinues \/ UNCHANGED vars
  <2>1. inbound' = inbound /\ UNCHANGED <<phase, from, relayLog>>
    BY <1>8 DEF ObserverContinues, ObserveStep, ObserveMark, ObserveEvent, ObserveCursor, replayVars,
                vars, ledgerVars
  <2> QED
    BY <1>1, <2>1
<1>9. CASE ReplayCancelled
  <2>1. Answers' = {}
    <3>1. CASE phase = "replied"
      <4>1. deaf' /\ inbound' = IF deaf' THEN <<>> ELSE inbound
        BY <1>9, <3>1 DEF ReplayCancelled
      <4>2. inbound' = <<>>
        BY <4>1
      <4> QED
        BY <4>2 DEF Answers
    <3>2. CASE phase # "replied"
      <4>1. Answers = {} /\ (inbound' = inbound \/ inbound' = <<>>)
        BY <1>0, <1>9, <3>2, NoAnswer DEF ReplayCancelled
      <4> QED
        BY <4>1 DEF Answers, Pushes
    <3> QED
      BY <3>1, <3>2
  <2> QED
    BY <2>1 DEF AnswerInv
<1> QED
  BY <1>2, <1>3, <1>4, <1>5, <1>6, <1>7, <1>8, <1>9 DEF Next, Replay, Reader

\* What a page that is begun holds was asked for from a place everything before
\* which is stored.
LEMMA PageStep ==
  ASSUME TypeInv, ReplayInv, [Next]_vars
  PROVE  PageInv'
<1>0. /\ OrderInv /\ PageInv /\ AnswerInv /\ PhaseInv /\ CursorInv
      /\ receipts \subseteq receipts' /\ race \in {"no", "risk", "lost"}
  BY ReceiptsStay DEF ReplayInv, TypeInv, ReplayTypeOK, Race
<1>1. ASSUME UNCHANGED <<relayLog, phase, from, page, more, last>>, ~FramesLost,
             race' # "lost" => race # "lost"
      PROVE  PageInv'
  <2>1. Reached \subseteq Reached'
    BY <1>1, ReachedStays
  <2>2. PageEnd' = PageEnd /\ AtWork' = AtWork
    BY <1>1 DEF PageEnd, AtWork
  <2>3. Heard(PageEnd) => \A i \in DOMAIN relayLog' : i > PageEnd => relayLog'[i] \in Reached'
    BY <1>1, <2>1 DEF Heard
  <2>4. \A n : CoveredTo(n) => \A i \in 1..n : relayLog'[i] \in receipts'
    BY <1>0, <1>1 DEF CoveredTo
  <2> QED
    BY <1>0, <1>1, <2>2, <2>3, <2>4 DEF PageInv, IsPage, Heard, CoveredTo
<1>2. CASE StartReplay
  <2>1. /\ UNCHANGED <<relayLog, receipts, race>> /\ phase = "joined" /\ phase' = "asked"
        /\ from' = cursor
    BY <1>2 DEF StartReplay, ledgerVars, historyVars
  <2>2. race # "lost" => race = "no"
    BY <1>0, <2>1 DEF PhaseInv
  <2>3. race = "no" => CoveredTo(Place(relayLog, cursor))
    BY <1>0 DEF CursorInv, CursorCovers, Covered, CoveredTo, Position, Place
  <2> QED
    BY <2>1, <2>2, <2>3 DEF PageInv, AtWork, CoveredTo
<1>3. CASE NextPage
  <2>1. /\ UNCHANGED <<relayLog, receipts, race>> /\ AtWork /\ phase' = "asked"
        /\ page = <<>> /\ last # NoEnvelope /\ from' = last
    BY <1>3 DEF NextPage, PageDone, ledgerVars, historyVars, AtWork
  <2>2. race # "lost" => CoveredTo(PageEnd)
    <3>1. Len(page) = 0 /\ PageEnd \in Nat
      BY <2>1, PageEndFacts, PlaceFacts
    <3>2. PageEnd - Len(page) = PageEnd
      BY <3>1
    <3> QED
      BY <1>0, <2>1, <3>2 DEF PageInv
  <2>3. PageEnd = Place(relayLog, last)
    BY <2>1 DEF PageEnd
  <2> QED
    BY <2>1, <2>2, <2>3 DEF PageInv, AtWork, CoveredTo
<1>4. CASE ReplayOne
  <2>1. /\ UNCHANGED <<relayLog, race, from, more, last>> /\ AtWork /\ AtWork' /\ page # <<>>
        /\ phase' = "working" /\ page' = Tail(page) /\ receipts' = receipts \cup {Head(page)}
    BY <1>4, ObserveDoes DEF ReplayOne, AtWork, historyVars
  <2>2. PageEnd' = PageEnd
    BY <2>1 DEF PageEnd
  <2>3. /\ Len(page) \in Nat \ {0} /\ PageEnd \in Nat /\ Len(page') = Len(page) - 1
        /\ \A i \in 1..(Len(page) - 1) : page'[i] = page[i + 1]
        /\ Head(page) = page[1]
    BY <2>1, PageTaken, PageHead, <1>0
  <2>4. PICK n \in Nat : n = PageEnd - Len(page)
    BY <1>0, <2>1 DEF PageInv
  <2>5. PageEnd' - Len(page') = n + 1
    BY <2>2, <2>3, <2>4
  <2>6. /\ n + Len(page) \in 0..Len(relayLog)
        /\ \A i \in 1..Len(page) : page[i] = relayLog[n + i]
        /\ race # "lost" => CoveredTo(n)
        /\ last = NoEnvelope => ~more
        /\ ~more => Heard(PageEnd)
    BY <1>0, <2>1, <2>4 DEF PageInv, IsPage
  <2>7. n + 1 + Len(page') \in 0..Len(relayLog)
    BY <2>3, <2>6
  <2>8. \A i \in 1..Len(page') : page'[i] = relayLog[n + 1 + i]
    <3>1. \A i \in 1..(Len(page) - 1) : i + 1 \in 1..Len(page) /\ n + (i + 1) = n + 1 + i
      BY <2>3
    <3> QED
      BY <2>3, <2>6, <3>1
  <2>9. race # "lost" => \A i \in 1..(n + 1) : relayLog[i] \in receipts'
    <3>1. page[1] = relayLog[n + 1]
      BY <2>3, <2>6
    <3>2. \A i \in 1..(n + 1) : i \in 1..n \/ i = n + 1
      OBVIOUS
    <3> QED
      BY <2>1, <2>3, <2>6, <3>1, <3>2 DEF CoveredTo
  <2>10. Heard(PageEnd) => \A i \in DOMAIN relayLog : i > PageEnd => relayLog[i] \in Reached'
    <3>1. ~FramesLost
      BY <2>1 DEF FramesLost, Disconnect, Crash, Deafen, ReplayCancelled, CutShort, NoReplay, Idling, replayVars
    <3> QED
      BY <3>1, ReachedStays DEF Heard
  <2> QED
    BY <2>1, <2>2, <2>5, <2>6, <2>7, <2>8, <2>9, <2>10 DEF PageInv, IsPage, Heard, CoveredTo
<1>5. CASE ReadAnswer
  <2>1. /\ inbound # <<>> /\ inbound' = Tail(inbound) /\ 1 \in Answers
        /\ UNCHANGED <<relayLog, receipts, from, race>>
        /\ phase' = "answered" /\ page' = inbound[1].items /\ more' = inbound[1].more
        /\ last' = IF inbound[1].items = <<>> THEN NoEnvelope
                   ELSE inbound[1].items[Len(inbound[1].items)]
    BY <1>5, FramesTaken DEF ReadAnswer, Pop, Answers, Pushes, ledgerVars, historyVars
  <2>2. PICK n \in Nat : n = Place(relayLog, from)
    BY PlaceFacts DEF TypeInv, LogInv
  <2>3. /\ phase = "replied" /\ IsPage(page', n)
        /\ ~inbound[1].more => Heard(n + Len(page'))
        /\ page' = <<>> => ~inbound[1].more
    BY <1>0, <2>1, <2>2 DEF AnswerInv
  <2>4. PageEnd' = n + Len(page') /\ (last' = NoEnvelope => page' = <<>>)
    BY <1>0, <2>1, <2>2, AnswerEnds DEF PageEnd
  <2>5. Len(page') \in Nat
    BY <2>1, FrameFacts
  <2>6. PageEnd' - Len(page') = n
    BY <2>2, <2>4, <2>5
  <2>7. race # "lost" => CoveredTo(n)
    BY <1>0, <2>2, <2>3 DEF PageInv
  <2>8. Reached \subseteq Reached'
    <3>1. ~FramesLost
      BY <2>1 DEF FramesLost, Disconnect, Crash, Deafen, ReplayCancelled, CutShort, NoReplay, Idling, replayVars
    <3> QED
      BY <3>1, ReachedStays
  <2>9. ~inbound[1].more => \A i \in DOMAIN relayLog : i > PageEnd' => relayLog[i] \in Reached'
    BY <2>3, <2>4, <2>8 DEF Heard
  <2> QED
    BY <2>1, <2>2, <2>3, <2>4, <2>6, <2>7, <2>9 DEF PageInv, AtWork, IsPage, Heard, CoveredTo
<1>6. CASE ReadPush
  <2>1. /\ UNCHANGED <<relayLog, phase, from, page, more, last>>
        /\ race' # "lost" => race # "lost"
    BY <1>6, ObserveDoes DEF ReadPush, Idling, replayVars
  <2>2. ~FramesLost
    BY <1>6, ReadPushKeeps
  <2> QED
    BY <1>1, <2>1, <2>2
<1>7. CASE ObserverContinues \/ UNCHANGED vars
  <2>1. /\ UNCHANGED <<relayLog, phase, from, page, more, last, race, downs, deaf>>
    BY <1>7 DEF ObserverContinues, ObserveStep, ObserveMark, ObserveEvent, ObserveCursor, replayVars,
                historyVars, linkVars, vars, ledgerVars
  <2>2. ~FramesLost
    <3>1. downs \in Nat
      BY DEF TypeInv, ReplayTypeOK
    <3> QED
      BY <2>1, <3>1 DEF FramesLost, Disconnect, Crash, Deafen, ReplayCancelled
  <2> QED
    BY <1>1, <2>1, <2>2
<1>8. CASE RelayAnswers
  <2>1. /\ UNCHANGED <<relayLog, receipts, from, race>> /\ phase = "asked" /\ phase' = "replied"
    BY <1>8 DEF RelayAnswers, ledgerVars, historyVars
  <2> QED
    BY <1>0, <2>1 DEF PageInv, AtWork, CoveredTo
<1>9. ASSUME NEW e \in Envelope, RelayDelivers(e) PROVE PageInv'
  <2>1. /\ UNCHANGED <<receipts, linked, deaf, phase, from, page, more, last, race>>
        /\ Place(relayLog', from') = Place(relayLog, from) /\ PageEnd' = PageEnd /\ AtWork' = AtWork
    <3>1. /\ UNCHANGED <<receipts, linked, deaf, phase, from, page, more, last, race>>
          /\ \A c \in Logged \cup {NoEnvelope} : Place(relayLog', c) = Place(relayLog, c)
      BY <1>9, DeliveryDoes
    <3> QED
      BY <3>1 DEF PageEnd, AtWork, TypeInv, LogInv
  <2>2. /\ Len(relayLog) \in Nat /\ DOMAIN relayLog = 1..Len(relayLog)
        /\ Len(relayLog') = Len(relayLog) + 1
        /\ \A i \in 1..Len(relayLog) : relayLog'[i] = relayLog[i]
    BY <1>9, DeliveryDoes, PlaceFacts
  <2>3. ASSUME NEW n \in 0..Len(relayLog), CoveredTo(n) PROVE \A i \in 1..n : relayLog'[i] \in receipts'
    BY <2>1, <2>2, <2>3 DEF CoveredTo
  <2>4. Place(relayLog, from) \in 0..Len(relayLog) /\ PageEnd \in 0..Len(relayLog)
    BY PlaceFacts, PageEndFacts DEF TypeInv, LogInv
  <2>5. CASE phase \in {"asked", "replied"}
    BY <1>0, <2>1, <2>3, <2>4, <2>5 DEF PageInv, AtWork, CoveredTo
  <2>6. CASE AtWork
    <3>1. PICK n \in Nat : n = PageEnd - Len(page)
      BY <1>0, <2>6 DEF PageInv
    <3>2. /\ n + Len(page) \in 0..Len(relayLog)
          /\ \A i \in 1..Len(page) : page[i] = relayLog[n + i]
          /\ race # "lost" => CoveredTo(n)
          /\ last = NoEnvelope => ~more
          /\ ~more => Heard(PageEnd)
      BY <1>0, <2>6, <3>1 DEF PageInv, IsPage
    <3>3. Len(page) \in Nat
      BY DEF TypeInv, ReplayTypeOK
    <3>4. /\ n \in 0..Len(relayLog) /\ n + Len(page) \in 0..(Len(relayLog) + 1)
          /\ \A i \in 1..Len(page) : n + i \in 1..Len(relayLog)
      BY <2>2, <3>2, <3>3
    <3>5. \A i \in 1..Len(page) : page[i] = relayLog'[n + i]
      BY <2>2, <3>2, <3>4
    <3>6. linked /\ ~deaf
      BY <1>0, <2>6 DEF PhaseInv, AtWork
    <3>7. ~more => \A i \in DOMAIN relayLog' : i > PageEnd => relayLog'[i] \in Reached'
      BY <1>9, <3>2, <3>6, DeliveryHeard
    <3>8. race # "lost" => \A i \in 1..n : relayLog'[i] \in receipts'
      BY <2>3, <3>2, <3>4
    <3>9. PageEnd' - Len(page') = n
      BY <2>1, <3>1
    <3>10. n + Len(page') \in 0..Len(relayLog') /\ \A i \in 1..Len(page') : page'[i] = relayLog'[n + i]
      BY <2>1, <2>2, <3>4, <3>5
    <3>11. ~(phase' \in {"asked", "replied"})
      BY <2>1, <2>6 DEF AtWork
    <3> QED
      BY <2>1, <3>1, <3>2, <3>7, <3>8, <3>9, <3>10, <3>11 DEF PageInv, IsPage, Heard, CoveredTo
  <2>7. CASE phase \notin {"asked", "replied"} /\ ~AtWork
    BY <2>1, <2>7 DEF PageInv
  <2> QED
    BY <2>5, <2>6, <2>7
<1>10. CASE Join \/ FinishReplay \/ ReplayRaises \/ ReplayCancelled \/ Disconnect \/ Crash
  <2>1. phase' \in {"none", "joined"}
    BY <1>10 DEF Join, FinishReplay, ReplayRaises, ReplayCancelled, Disconnect, Crash, CutShort, NoReplay
  <2> QED
    BY <2>1 DEF PageInv, AtWork
<1>11. CASE Deafen
  <2>1. UNCHANGED <<relayLog, receipts, race, from, phase>> /\ ~AtWork
    BY <1>11 DEF Deafen, Idling, AtWork, ledgerVars, replayVars, historyVars
  <2> QED
    BY <1>0, <2>1 DEF PageInv, AtWork, CoveredTo
<1> QED
  BY <1>2, <1>3, <1>4, <1>5, <1>6, <1>7, <1>8, <1>9, <1>10, <1>11 DEF Next, Replay, Reader

\* The cursor, the receipt it will name next, and what a joined client misses.
LEMMA CursorStep ==
  ASSUME TypeInv, ReplayInv, [Next]_vars
  PROVE  CursorInv'
<1> USE DEF linkVars
<1>0. /\ OrderInv /\ PageInv /\ AnswerInv /\ PhaseInv /\ CursorInv
      /\ receipts \subseteq receipts' /\ race \in {"no", "risk", "lost"}
  BY ReceiptsStay DEF ReplayInv, TypeInv, ReplayTypeOK, Race
<1>a. Covered <=> CoveredTo(Place(relayLog, cursor))
  BY DEF Covered, CoveredTo, Position, Place
<1>b. Covered' <=> \A i \in 1..Place(relayLog', cursor') : relayLog'[i] \in receipts'
  BY DEF Covered, Position, Place
\* The client goes on as it was, or loses its connection.
<1>1. ASSUME UNCHANGED <<relayLog, cursor, obs>>,
             race' = "no" => race = "no",
             race' # "lost" /\ linked' /\ ~deaf' /\ ~behind' =>
               race # "lost" /\ linked /\ ~deaf /\ ~behind /\ Reached \subseteq Reached'
      PROVE  CursorInv'
  <2>1. \A n : CoveredTo(n) => \A i \in 1..n : relayLog'[i] \in receipts'
    BY <1>0, <1>1 DEF CoveredTo
  <2>2. race' = "no" => Covered'
    BY <1>0, <1>1, <1>a, <1>b, <2>1 DEF CursorInv, CursorCovers
  <2>3. race' = "no" /\ ~LoopFree' => \A i \in 1..Place(relayLog', obs'.env) : relayLog'[i] \in receipts'
    BY <1>0, <1>1, <2>1 DEF CursorInv, LoopFree
  <2>4. race' # "lost" /\ linked' /\ ~deaf' /\ ~behind' =>
          \A i \in DOMAIN relayLog' : i > 0 => relayLog'[i] \in Reached'
    BY <1>0, <1>1 DEF CursorInv, Heard
  <2> QED
    BY <2>2, <2>3, <2>4 DEF CursorInv, CursorCovers, CoveredTo, Heard
<1>2. CASE Join \/ StartReplay \/ NextPage \/ ReplayRaises \/ ReplayCancelled
  <2>1. /\ UNCHANGED <<relayLog, cursor, obs>> /\ behind'
        /\ race' = "no" => race = "no"
    BY <1>0, <1>2 DEF Join, StartReplay, NextPage, PageDone, ReplayRaises, ReplayCancelled, CutShort,
                      ledgerVars, historyVars, PhaseInv, NoReplay
  <2> QED
    BY <1>1, <2>1
<1>3. CASE Disconnect \/ Deafen
  <2>1. /\ UNCHANGED <<relayLog, cursor, obs>> /\ (~linked' \/ deaf') /\ (race' = "no" => race = "no")
    BY <1>3 DEF Disconnect, Deafen, CutShort, ledgerVars, historyVars
  <2> QED
    BY <1>1, <2>1
<1>4. CASE Crash
  <2>1. /\ UNCHANGED <<relayLog, cursor, receipts>> /\ LoopFree' /\ ~linked' /\ (race' = "no" => race = "no")
    BY <1>4 DEF Crash, CutShort, durableVars, LoopFree
  <2>2. race' = "no" => Covered'
    BY <1>0, <1>a, <1>b, <2>1 DEF CursorInv, CursorCovers, CoveredTo
  <2> QED
    BY <2>1, <2>2 DEF CursorInv, CursorCovers
<1>5. CASE ReplayOne
  <2>1. /\ UNCHANGED <<relayLog, cursor, race, behind, linked, deaf>> /\ AtWork /\ page # <<>>
        /\ receipts' = receipts \cup {Head(page)} /\ LoopFree
        /\ obs' = obs \/ obs'.env = Head(page)
    BY <1>5, ObserveDoes DEF ReplayOne, AtWork, historyVars
  <2>2. behind
    BY <1>0, <2>1 DEF PhaseInv, AtWork
  <2>3. race = "no" => Covered'
    BY <1>0, <1>a, <1>b, <2>1 DEF CursorInv, CursorCovers, CoveredTo
  <2>4. race = "no" => \A i \in 1..Place(relayLog, Head(page)) : relayLog[i] \in receipts'
    <3>1. PICK n \in Nat : n = PageEnd - Len(page)
      BY <1>0, <2>1 DEF PageInv
    <3>2. Place(relayLog, Head(page)) = n + 1 /\ Head(page) \in Logged
      BY <1>0, <2>1, <3>1, PageHead
    <3>3. race = "no" => CoveredTo(n)
      BY <1>0, <2>1, <3>1 DEF PageInv
    <3>4. relayLog[n + 1] = Head(page)
      BY <3>2, PlaceFacts
    <3>5. \A i \in 1..(n + 1) : i \in 1..n \/ i = n + 1
      OBVIOUS
    <3> QED
      BY <2>1, <3>2, <3>3, <3>4, <3>5 DEF CoveredTo
  <2> QED
    BY <2>1, <2>2, <2>3, <2>4 DEF CursorInv, CursorCovers, CoveredTo, LoopFree
<1>6. CASE FinishReplay
  <2>1. /\ UNCHANGED <<relayLog, receipts, obs, inbound, linked, deaf>> /\ LoopFree /\ AtWork /\ page = <<>>
        /\ last = NoEnvelope \/ ~more
        /\ cursor' = IF last = NoEnvelope THEN cursor ELSE last
        /\ race' = IF race = "risk" THEN "no" ELSE race
    BY <1>6 DEF FinishReplay, PageDone, AtWork
  <2>2. Reached' = Reached
    BY <2>1 DEF Reached, Pushes
  <2>3. /\ PageEnd \in Nat
        /\ race # "lost" => CoveredTo(PageEnd)
        /\ Heard(PageEnd)
    <3>1. Len(page) = 0 /\ PageEnd \in Nat
      BY <2>1, PageEndFacts, PlaceFacts
    <3>2. PageEnd - Len(page) = PageEnd
      BY <3>1
    <3> QED
      BY <1>0, <2>1, <3>1, <3>2 DEF PageInv
  <2>4. race # "lost" => Heard(0)
    <3>1. \A i \in DOMAIN relayLog : i \in 1..PageEnd \/ i > PageEnd
      BY PageEndFacts, PlaceFacts
    <3> QED
      BY <2>3, <3>1 DEF Heard, CoveredTo, Reached
  <2>5. race # "lost" => CoveredTo(Place(relayLog, cursor'))
    <3>1. CASE last # NoEnvelope
      BY <2>1, <2>3, <3>1 DEF PageEnd
    <3>2. CASE last = NoEnvelope
      <4>1. ASSUME race # "lost", NEW i \in 1..Place(relayLog, cursor) PROVE relayLog[i] \in receipts
        <5>1. /\ i \in DOMAIN relayLog /\ i > 0 /\ i <= Place(relayLog, cursor)
              /\ Place(relayLog, cursor) \in Nat
          BY PlaceFacts DEF TypeInv, LogInv
        <5>2. ASSUME NEW k \in Pushes PROVE inbound[k].env # relayLog[i]
          <6>1. /\ Place(relayLog, cursor) < Place(relayLog, inbound[k].env)
                /\ Place(relayLog, inbound[k].env) \in Nat
            BY <1>0, PlaceFacts, FrameFacts DEF OrderInv
          <6>2. Place(relayLog, relayLog[i]) = i
            BY <5>1, PlaceFacts
          <6> QED
            BY <5>1, <6>1, <6>2
        <5> QED
          BY <2>4, <4>1, <5>1, <5>2 DEF Heard, Reached
      <4> QED
        BY <2>1, <3>2, <4>1 DEF CoveredTo
    <3> QED
      BY <3>1, <3>2
  <2>6. race' # "lost" => race # "lost"
    BY <2>1
  <2>7. race' = "no" => Covered'
    BY <1>b, <2>1, <2>5, <2>6 DEF CoveredTo
  <2> QED
    BY <2>1, <2>2, <2>4, <2>6, <2>7 DEF CursorInv, CursorCovers, Heard, LoopFree
<1>7. CASE ReadAnswer
  <2>1. /\ UNCHANGED <<relayLog, cursor, obs, race, linked, deaf, behind>> /\ 1 \in Answers
    BY <1>7, FramesTaken DEF ReadAnswer, Answers, Pushes, ledgerVars, historyVars
  <2>2. behind
    BY <1>0, <2>1 DEF AnswerInv, PhaseInv
  <2> QED
    BY <1>1, <2>1, <2>2
<1>8. CASE ReadPush
  <2>1. /\ inbound # <<>> /\ inbound' = Tail(inbound) /\ 1 \in Pushes
        /\ UNCHANGED <<relayLog, cursor, linked, deaf, behind, phase>>
        /\ receipts' = receipts \cup {inbound[1].env} /\ LoopFree
        /\ \/ inbound[1].env \in receipts /\ obs' = obs
           \/ inbound[1].env \notin receipts /\ obs'.env = inbound[1].env
    BY <1>8, FramesTaken, ObserveDoes DEF ReadPush, Idling, Pop, Pushes, replayVars
  <2>2. /\ race' = "no" => race = "no"
        /\ race' # "lost" => race # "lost"
        /\ race' = "no" /\ behind => inbound[1].env \in receipts
    <3>1. Head(inbound) = inbound[1]
      BY <2>1, FramesTaken
    <3> QED
      BY <1>8, <3>1 DEF ReadPush, HasReceipt
  <2>3. Reached \subseteq Reached'
    <3>1. ~FramesLost
      BY <1>8, ReadPushKeeps
    <3> QED
      BY <3>1, ReachedStays
  <2>4. CASE inbound[1].env \in receipts
    BY <1>1, <2>1, <2>2, <2>3, <2>4
  <2>5. CASE inbound[1].env \notin receipts
    <3>1. race' = "no" => race = "no" /\ linked /\ ~deaf /\ ~behind
      BY <1>8, <2>2, <2>5 DEF ReadPush
    <3>2. race' = "no" => Heard(0) /\ CoveredTo(Place(relayLog, cursor))
      BY <1>0, <1>a, <3>1 DEF CursorInv, CursorCovers
    <3>3. ASSUME race' = "no", NEW i \in 1..Place(relayLog, inbound[1].env)
          PROVE  relayLog[i] \in receipts'
      <4>1. /\ Place(relayLog, inbound[1].env) \in DOMAIN relayLog
            /\ relayLog[Place(relayLog, inbound[1].env)] = inbound[1].env
            /\ i \in DOMAIN relayLog /\ i > 0 /\ Place(relayLog, relayLog[i]) = i
        BY <2>1, FrameFacts, PlaceFacts
      <4>2. CASE i = Place(relayLog, inbound[1].env)
        BY <2>1, <4>1, <4>2
      <4>3. CASE i # Place(relayLog, inbound[1].env)
        <5>1. \A k \in Pushes : k = 1 \/ 1 < k
          BY FrameFacts
        <5>2. \A k \in Pushes : 1 < k => i < Place(relayLog, inbound[k].env)
          <6>1. \A k \in Pushes : 1 < k =>
                  Place(relayLog, inbound[1].env) < Place(relayLog, inbound[k].env)
                  /\ Place(relayLog, inbound[k].env) \in Nat
            BY <1>0, <2>1, FrameFacts, PlaceFacts DEF OrderInv
          <6>2. Place(relayLog, inbound[1].env) \in Nat /\ i < Place(relayLog, inbound[1].env) /\ i \in Nat
            BY <4>1, <4>3, PlaceFacts
          <6> QED
            BY <6>1, <6>2
        <5>3. \A k \in Pushes : inbound[k].env # relayLog[i]
          BY <4>1, <4>3, <5>1, <5>2
        <5> QED
          BY <2>1, <3>2, <3>3, <4>1, <5>3 DEF Heard, Reached
      <4> QED
        BY <4>2, <4>3
    <3>4. race' = "no" => Covered'
      BY <1>0, <1>b, <2>1, <3>2 DEF CoveredTo
    <3>5. race' = "no" => \A i \in 1..Place(relayLog', obs'.env) : relayLog'[i] \in receipts'
      BY <2>1, <2>5, <3>3
    <3>6. race' # "lost" /\ linked' /\ ~deaf' /\ ~behind' =>
          \A i \in DOMAIN relayLog' : i > 0 => relayLog'[i] \in Reached'
      BY <1>0, <2>1, <2>2, <2>3 DEF CursorInv, Heard
    <3> QED
      BY <3>4, <3>5, <3>6 DEF CursorInv, CursorCovers, CoveredTo, Heard
  <2> QED
    BY <2>4, <2>5
<1>9. CASE ObserverContinues
  <2>1. /\ UNCHANGED <<inbound, relayLog, receipts, race, behind, linked, deaf>>
        /\ ~LoopFree
        /\ \/ obs' = Idle /\ cursor' = obs.env
           \/ obs'.env = obs.env /\ cursor' = cursor
    BY <1>9 DEF ObserverContinues, ObserveStep, ObserveMark, ObserveEvent, ObserveCursor, LoopFree, Idle,
                replayVars, historyVars
  <2>2. Reached' = Reached
    BY <2>1 DEF Reached, Pushes
  <2>3. race = "no" => CoveredTo(Place(relayLog, cursor)) /\ CoveredTo(Place(relayLog, obs.env))
    BY <1>0, <1>a, <2>1 DEF CursorInv, CursorCovers
  <2>4. race' = "no" => Covered'
    BY <1>b, <2>1, <2>3 DEF CoveredTo
  <2>5. race' = "no" /\ ~LoopFree' => \A i \in 1..Place(relayLog', obs'.env) : relayLog'[i] \in receipts'
    BY <2>1, <2>3 DEF CoveredTo, LoopFree
  <2>6. race' # "lost" /\ linked' /\ ~deaf' /\ ~behind' =>
          \A i \in DOMAIN relayLog' : i > 0 => relayLog'[i] \in Reached'
    BY <1>0, <2>1, <2>2 DEF CursorInv, Heard
  <2> QED
    BY <2>4, <2>5, <2>6 DEF CursorInv, CursorCovers, CoveredTo, Heard
<1>10. CASE RelayAnswers
  <2>1. UNCHANGED <<relayLog, cursor, obs, race, behind, linked>> /\ behind
    BY <1>0, <1>10 DEF RelayAnswers, ledgerVars, historyVars, PhaseInv
  <2> QED
    BY <1>1, <2>1
<1>11. ASSUME NEW e \in Envelope, RelayDelivers(e) PROVE CursorInv'
  <2>1. /\ UNCHANGED <<receipts, obs, cursor, linked, deaf, race, behind>>
        /\ \A c \in Logged \cup {NoEnvelope} : Place(relayLog', c) = Place(relayLog, c)
        /\ cursor \in Logged \cup {NoEnvelope} /\ (~LoopFree => obs.env \in Logged)
    BY <1>11, DeliveryDoes DEF TypeInv, LogInv
  <2>2. \A i \in 1..Len(relayLog) : relayLog'[i] = relayLog[i]
    BY <1>11, DeliveryDoes, PlaceFacts
  <2>3. ASSUME NEW c \in Logged \cup {NoEnvelope}, CoveredTo(Place(relayLog, c))
        PROVE  \A i \in 1..Place(relayLog', c) : relayLog'[i] \in receipts'
    <3>1. Place(relayLog', c) = Place(relayLog, c) /\ Place(relayLog, c) \in 0..Len(relayLog)
          /\ Len(relayLog) \in Nat
      BY <2>1, PlaceFacts
    <3> QED
      BY <2>1, <2>2, <2>3, <3>1 DEF CoveredTo
  <2>4. race' = "no" => Covered'
    BY <1>0, <1>a, <1>b, <2>1, <2>3 DEF CursorInv, CursorCovers
  <2>5. race' = "no" /\ ~LoopFree' => \A i \in 1..Place(relayLog', obs'.env) : relayLog'[i] \in receipts'
    BY <1>0, <2>1, <2>3 DEF CursorInv, LoopFree
  <2>6. race' # "lost" /\ linked' /\ ~deaf' /\ ~behind' =>
          \A i \in DOMAIN relayLog' : i > 0 => relayLog'[i] \in Reached'
    BY <1>0, <1>11, <2>1, DeliveryHeard DEF CursorInv
  <2> QED
    BY <2>4, <2>5, <2>6 DEF CursorInv, CursorCovers, CoveredTo, Heard
<1>12. CASE UNCHANGED vars
  <2>1. UNCHANGED <<relayLog, cursor, obs, race, behind, linked, deaf, receipts, inbound>>
    BY <1>12 DEF vars, ledgerVars, historyVars
  <2>2. Reached' = Reached
    BY <2>1 DEF Reached, Pushes
  <2> QED
    BY <1>1, <2>1, <2>2
<1> QED
  BY <1>2, <1>3, <1>4, <1>5, <1>6, <1>7, <1>8, <1>9, <1>10, <1>11, <1>12 DEF Next, Replay, Reader

\* Together they are inductive.
THEOREM ReplayIsSafe == Spec => []ReplayInv
<1>1. Init => ReplayInv
  <2> SUFFICES ASSUME Init PROVE ReplayInv
    OBVIOUS
  <2>1. /\ inbound = <<>> /\ phase = "none" /\ ~behind /\ ~linked /\ ~deaf /\ race = "no"
        /\ cursor = NoEnvelope /\ LoopFree
    BY DEF Init, LedgerInit, LoopFree
  <2>2. Pushes = {} /\ Answers = {} /\ ~AtWork
    BY <2>1 DEF Pushes, Answers, AtWork
  <2>3. Covered
    BY <2>1 DEF Covered, Position
  <2> QED
    BY <2>1, <2>2, <2>3 DEF ReplayInv, PhaseInv, OrderInv, AnswerInv, PageInv, CursorInv, CursorCovers
<1>2. TypeInv /\ ReplayInv /\ [Next]_vars => ReplayInv'
  BY PhaseStep, OrderStep, AnswerStep, PageStep, CursorStep DEF ReplayInv
<1> QED
  BY <1>1, <1>2, ReplayTypeCorrect, PTL DEF Spec

\* The type invariant the run checks.
THEOREM ReplayTypes == Spec => []ReplayTypeOK
<1>1. TypeInv => ReplayTypeOK
  BY DEF TypeInv
<1> QED
  BY <1>1, ReplayTypeCorrect, PTL

\* The persisted cursor never claims a receipt that is not stored, wherever a
\* replay or the process is cut short, unless a push moved it while the agent
\* was behind.
THEOREM CursorIsCovered == Spec => []CursorCovers
<1>1. ReplayInv => CursorCovers
  BY DEF ReplayInv, CursorInv
<1> QED
  BY <1>1, ReplayIsSafe, PTL

\* When the replay has come to its end and a reader that still reads has handled
\* every frame, every receipt of the relay is stored, even when pushes raced with
\* the pages.
THEOREM NothingIsMissed == Spec => []CaughtUp
<1>1. TypeInv /\ ReplayInv => CaughtUp
  <2> SUFFICES ASSUME TypeInv, ReplayInv, linked, ~deaf, ~behind, inbound = <<>>, race # "lost"
               PROVE  Logged \subseteq receipts
    BY DEF CaughtUp
  <2>1. Heard(0) /\ Reached = receipts
    BY DEF ReplayInv, CursorInv, Reached, Pushes
  <2>2. \A i \in DOMAIN relayLog : i > 0
    BY PlaceFacts
  <2> QED
    BY <2>1, <2>2 DEF Heard, Logged
<1> QED
  BY <1>1, ReplayTypeCorrect, ReplayIsSafe, PTL
=============================================================================
