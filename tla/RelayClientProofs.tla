-------------------------- MODULE RelayClientProofs --------------------------
(***************************************************************************)
(* Theorems of RelayClient, for every set of requests and deliveries and   *)
(* whatever the callers, the relay and the network may do: a completed     *)
(* disconnect() leaves no future waiting, and a receipt is written only    *)
(* for an envelope every handler has taken.                                *)
(***************************************************************************)
EXTENDS RelayClient, TLAPS

\* What is on the way to the reader: a delivery names an envelope, a reply the
\* ref of a request or of a receipt.
SoundFrame ==
  {f \in Frame : /\ f.kind = "deliver" => f.ref \in Delivery
                 /\ f.kind = "reply" => f.ref \in Ref}

\* A future that waits is registered, so FailPending reaches it.
WaitingIsPending == \A r \in Ref : out[r] = "waiting" => r \in pending

\* disconnect() has stopped the reader before its first await, and the socket
\* before it fails the futures: nothing registers a future that will wait after
\* they were failed.
ClosedIsQuiet ==
  /\ closer \in {"closing", "off"} => reader \in {"ended", "cancelled"}
  /\ closer = "off" => sock = "shut"

\* The reader awaits a receipt for an envelope the handlers have taken.
BusyIsHandled == reader = "receipting" => busy \in handled

ClientInv ==
  /\ inbound \in Seq(SoundFrame)
  /\ WaitingIsPending
  /\ ClosedIsQuiet
  /\ BusyIsHandled
  /\ NoWaiterAfterDisconnect
  /\ ReceiptAfterHandlers
-----------------------------------------------------------------------------
\* The frame the reader takes is sound, and so are those it leaves.
LEMMA FramesTaken ==
  ASSUME inbound \in Seq(Frame), inbound \in Seq(SoundFrame), inbound # <<>>
  PROVE  /\ Head(inbound) \in SoundFrame
         /\ Tail(inbound) \in Seq(Frame)
         /\ Tail(inbound) \in Seq(SoundFrame)
OBVIOUS

\* A frame the relay sends is added to the others.
LEMMA FramesAdded ==
  ASSUME inbound \in Seq(Frame), inbound \in Seq(SoundFrame), NEW f \in SoundFrame,
         inbound' = Append(inbound, f)
  PROVE  inbound' \in Seq(Frame) /\ inbound' \in Seq(SoundFrame)
BY DEF SoundFrame

\* Every variable of the client stays in its type, and every frame on its way to
\* the reader is one its kind allows.
THEOREM ClientTypeCorrect == Spec => [](ClientTypeOK /\ inbound \in Seq(SoundFrame))
<1> DEFINE TypeInv == ClientTypeOK /\ inbound \in Seq(SoundFrame)
<1> USE ClientAssumption
<1>1. Init => TypeInv
  <2> SUFFICES ASSUME Init PROVE TypeInv
    OBVIOUS
  <2>1. inbound \in Seq(Frame) /\ inbound \in Seq(SoundFrame)
    BY DEF Init
  <2>2. out \in [Ref -> Outcome]
    BY DEF Init, Outcome
  <2>3. connected \in BOOLEAN /\ joined \in BOOLEAN /\ auto \in AutoReceipt
    BY DEF Init
  <2> QED
    BY <2>1, <2>2, <2>3 DEF Init, ClientTypeOK
<1>2. TypeInv /\ [Next]_vars => TypeInv'
  <2> SUFFICES ASSUME ClientTypeOK, inbound \in Seq(SoundFrame), [Next]_vars PROVE TypeInv'
    OBVIOUS
  <2>0. inbound # <<>> => /\ Head(inbound) \in SoundFrame
                          /\ Tail(inbound) \in Seq(Frame)
                          /\ Tail(inbound) \in Seq(SoundFrame)
    BY FramesTaken DEF ClientTypeOK
  <2> USE DEF ClientTypeOK
  <2>1. CASE Connect
    BY <2>1 DEF Connect
  <2>2. CASE Joined
    BY <2>2 DEF Joined
  <2>3. ASSUME NEW r \in Request, Issue(r) PROVE TypeInv'
    <3>1. out' \in [Ref -> Outcome]
      BY <2>3 DEF Issue, Ref, Outcome
    <3>2. pending' \subseteq Ref /\ atRelay' \subseteq Ref \cup {NoRef}
      BY <2>3 DEF Issue, Ref
    <3> QED
      BY <2>3, <3>1, <3>2 DEF Issue
  <2>4. ASSUME NEW r \in Request, Cancel(r) PROVE TypeInv'
    BY <2>4 DEF Cancel, Ref, Outcome
  <2>5. CASE ReadJoin
    <3>1. Head(inbound).ok \in BOOLEAN
      BY <2>0, <2>5 DEF ReadJoin, Reading, SoundFrame, Frame
    <3>2. joined' \in BOOLEAN
      BY <2>5, <3>1 DEF ReadJoin
    <3>3. inbound' \in Seq(Frame) /\ inbound' \in Seq(SoundFrame)
      BY <2>0, <2>5 DEF ReadJoin, Reading
    <3> QED
      BY <2>5, <3>2, <3>3 DEF ReadJoin
  <2>6. CASE ReadReply
    <3>1. inbound' \in Seq(Frame) /\ inbound' \in Seq(SoundFrame)
      BY <2>0, <2>6 DEF ReadReply, Reading
    <3>2. out' \in [Ref -> Outcome]
      BY <2>6 DEF ReadReply, Outcome
    <3>3. pending' \subseteq Ref /\ reader' \in {reader, "dead"}
      BY <2>6 DEF ReadReply
    <3> QED
      BY <2>6, <3>1, <3>2, <3>3 DEF ReadReply
  <2>7. CASE ReadDeliver
    <3>1. inbound' \in Seq(Frame) /\ inbound' \in Seq(SoundFrame)
      BY <2>0, <2>7 DEF ReadDeliver, Reading
    <3>2. Head(inbound).ref \in Delivery
      BY <2>0, <2>7 DEF ReadDeliver, Reading, SoundFrame
    <3>3. out' \in [Ref -> Outcome]
      BY <2>7, <3>2 DEF ReadDeliver, Ref, Outcome
    <3>4. /\ handled' \subseteq Delivery /\ pending' \subseteq Ref
          /\ atRelay' \subseteq Ref \cup {NoRef}
          /\ busy' \in Delivery \cup {NoRef}
          /\ reader' \in {reader, "receipting", "dead"}
      BY <2>7, <3>2 DEF ReadDeliver, Ref
    <3> QED
      BY <2>7, <3>1, <3>3, <3>4 DEF ReadDeliver
  <2>8. CASE HandlerRaises
    <3>1. inbound' \in Seq(Frame) /\ inbound' \in Seq(SoundFrame)
      BY <2>0, <2>8 DEF HandlerRaises, Reading
    <3> QED
      BY <2>8, <3>1 DEF HandlerRaises
  <2>9. CASE ReaderEnds
    BY <2>9 DEF ReaderEnds
  <2>10. CASE Disconnect
    <3>1. out' \in [Ref -> Outcome]
      BY <2>10 DEF Disconnect, Outcome
    <3> QED
      BY <2>10, <3>1 DEF Disconnect
  <2>11. CASE CloseSocket
    BY <2>11 DEF CloseSocket
  <2>12. CASE FailPending
    BY <2>12 DEF FailPending, Outcome
  <2>13. ASSUME NEW r \in Ref \cup {NoRef}, NEW ok \in BOOLEAN, RelayReplies(r, ok) PROVE TypeInv'
    <3> DEFINE f == [kind |-> IF r = NoRef THEN "join" ELSE "reply", ref |-> r, ok |-> ok]
    <3>1. f \in SoundFrame
      BY DEF SoundFrame, Frame
    <3>2. inbound' \in Seq(Frame) /\ inbound' \in Seq(SoundFrame)
      BY <2>13, <3>1, FramesAdded DEF RelayReplies
    <3> QED
      BY <2>13, <3>2 DEF RelayReplies
  <2>14. ASSUME NEW d \in Delivery, RelayDelivers(d) PROVE TypeInv'
    <3> DEFINE f == [kind |-> "deliver", ref |-> d, ok |-> TRUE]
    <3>1. f \in SoundFrame
      BY DEF SoundFrame, Frame, Ref
    <3>2. inbound' \in Seq(Frame) /\ inbound' \in Seq(SoundFrame)
      BY <2>14, <3>1, FramesAdded DEF RelayDelivers
    <3> QED
      BY <2>14, <3>2 DEF RelayDelivers
  <2>15. CASE SocketCloses
    BY <2>15 DEF SocketCloses
  <2>16. CASE UNCHANGED vars
    BY <2>16 DEF vars
  <2> QED
    BY <2>1, <2>2, <2>3, <2>4, <2>5, <2>6, <2>7, <2>8, <2>9, <2>10, <2>11, <2>12, <2>13, <2>14,
       <2>15, <2>16 DEF Next, Reader
<1> QED
  BY <1>1, <1>2, PTL DEF Spec
-----------------------------------------------------------------------------
\* Every waiting future is one disconnect() will find, disconnect() is quiet
\* when it fails them, and the receipts follow the handlers.
THEOREM ClientIsSafe == Spec => []ClientInv
<1> DEFINE TypeInv == ClientTypeOK /\ inbound \in Seq(SoundFrame)
<1> DEFINE Safe == /\ WaitingIsPending /\ ClosedIsQuiet /\ BusyIsHandled
                   /\ NoWaiterAfterDisconnect /\ ReceiptAfterHandlers
<1> USE ClientAssumption
<1>1. Init => Safe
  BY DEF Init, WaitingIsPending, ClosedIsQuiet, BusyIsHandled, NoWaiterAfterDisconnect,
         ReceiptAfterHandlers, Ref
<1>2. TypeInv /\ Safe /\ [Next]_vars => Safe'
  <2> SUFFICES ASSUME ClientTypeOK, inbound \in Seq(SoundFrame), Safe, [Next]_vars PROVE Safe'
    OBVIOUS
  <2>0. /\ out \in [Ref -> Outcome]
        /\ pending \subseteq Ref
        /\ handled \subseteq Delivery
        /\ Delivery \subseteq Ref
    BY DEF ClientTypeOK, Ref
  <2>a. inbound # <<>> => Head(inbound) \in SoundFrame
    BY FramesTaken DEF ClientTypeOK
  <2> USE <2>0 DEF WaitingIsPending, ClosedIsQuiet, BusyIsHandled, NoWaiterAfterDisconnect,
                   ReceiptAfterHandlers
  <2>1. ASSUME NEW r \in Request, Issue(r) PROVE Safe'
    <3>1. r \in Ref /\ r \notin Delivery
      BY DEF Ref
    <3>2. \A s \in Ref \ {r} : out'[s] = out[s]
      BY <2>1, <3>1 DEF Issue
    <3>3. /\ pending' = pending \cup {r}
          /\ UNCHANGED <<closer, sock, reader, busy, handled>>
          /\ out'[r] = "waiting" => sock = "open"
      BY <2>1, <3>1 DEF Issue
    <3> QED
      BY <3>1, <3>2, <3>3
  <2>2. CASE ReadReply
    <3> DEFINE r == Head(inbound).ref
    <3>1. r \in Ref
      BY <2>2, <2>a DEF ReadReply, Reading, SoundFrame
    <3>2. /\ \A s \in Ref \ {r} : out'[s] = out[s]
          /\ out'[r] = out[r] \/ (out[r] = "waiting" /\ out'[r] \in {"ok", "error"})
          /\ out[r] = "waiting" => out'[r] # "waiting"
      BY <2>2, <3>1 DEF ReadReply
    <3>3. /\ reader = "reading"
          /\ reader' \in {"reading", "dead"}
          /\ pending' = pending \ {r}
          /\ UNCHANGED <<closer, sock, busy, handled>>
      BY <2>2 DEF ReadReply, Reading
    <3> QED
      BY <3>1, <3>2, <3>3
  <2>3. CASE ReadDeliver
    <3> DEFINE d == Head(inbound).ref
    <3>1. d \in Delivery
      BY <2>3, <2>a DEF ReadDeliver, Reading, SoundFrame
    <3>2. /\ \A s \in Ref \ {d} : out'[s] = out[s]
          /\ out'[d] = "waiting" => out[d] = "waiting" \/ d \in pending'
          /\ pending \subseteq pending'
      BY <2>3, <3>1 DEF ReadDeliver
    <3>3. /\ reader = "reading"
          /\ handled' = handled \cup {d}
          /\ reader' = "receipting" => busy' = d
          /\ UNCHANGED <<closer, sock>>
      BY <2>3 DEF ReadDeliver, Reading
    <3>4. closer \notin {"closing", "off"}
      BY <3>3
    <3> QED
      BY <3>1, <3>2, <3>3, <3>4
  <2>4. CASE Disconnect
    <3>1. /\ UNCHANGED <<pending, sock, handled, busy>>
          /\ closer' = "wedged" \/ (closer' = "closing" /\ reader' \in {"ended", "cancelled"})
          /\ reader' = "receipting" => reader = "receipting"
      BY <2>4 DEF Disconnect
    <3>2. /\ reader = "receipting" => busy \in Delivery
          /\ \A s \in Ref : out'[s] = out[s] \/ (s = busy /\ reader = "receipting" /\ out'[s] = "cancelled")
      BY <2>4 DEF Disconnect
    <3> QED
      BY <3>1, <3>2
  <2>5. CASE FailPending
    <3>1. /\ \A s \in Ref : out'[s] = IF s \in pending /\ out[s] = "waiting" THEN "error" ELSE out[s]
          /\ closer = "closing" /\ closer' = "off" /\ sock = "shut"
          /\ UNCHANGED <<sock, reader, busy, handled>>
      BY <2>5 DEF FailPending
    <3> QED
      BY <3>1
  <2>6. ASSUME NEW r \in Request, Cancel(r) PROVE Safe'
    <3>1. r \in Ref /\ r \notin Delivery
      BY DEF Ref
    <3> QED
      BY <2>6, <3>1 DEF Cancel
  <2>7. CASE \/ Connect \/ Joined \/ ReadJoin \/ HandlerRaises \/ ReaderEnds \/ CloseSocket
             \/ (\E r \in Ref \cup {NoRef}, ok \in BOOLEAN : RelayReplies(r, ok))
             \/ (\E d \in Delivery : RelayDelivers(d))
             \/ SocketCloses
             \/ UNCHANGED vars
    <3>1. UNCHANGED <<closer, out, pending, busy, handled>>
      BY <2>7 DEF Connect, Joined, ReadJoin, HandlerRaises, ReaderEnds, CloseSocket, RelayReplies,
                  RelayDelivers, SocketCloses, vars
    <3>2. /\ reader' = "receipting" => reader = "receipting"
          /\ closer \in {"closing", "off"} /\ reader \in {"ended", "cancelled"} =>
               reader' \in {"ended", "cancelled"}
          /\ closer = "off" /\ sock = "shut" => sock' = "shut"
      BY <2>7 DEF Connect, Joined, ReadJoin, HandlerRaises, ReaderEnds, CloseSocket, RelayReplies,
                  RelayDelivers, SocketCloses, vars, Reading
    <3> QED
      BY <3>1, <3>2
  <2> QED
    BY <2>1, <2>2, <2>3, <2>4, <2>5, <2>6, <2>7 DEF Next, Reader
<1>3. TypeInv /\ Safe => ClientInv
  BY DEF ClientInv
<1> QED
  BY <1>1, <1>2, <1>3, ClientTypeCorrect, PTL DEF Spec

\* Whatever requests are written while the socket is being closed, whichever
\* replies are late: when disconnect() has completed, every caller has its answer
\* or its exception, and none starts to wait later.
THEOREM NobodyWaitsAfterDisconnect == Spec => []NoWaiterAfterDisconnect
<1>1. ClientInv => NoWaiterAfterDisconnect
  BY DEF ClientInv
<1> QED
  BY <1>1, ClientIsSafe, PTL

\* An envelope whose handler raised, or that the reader never came to, gets no
\* automatic receipt.
THEOREM ReceiptsFollowHandlers == Spec => []ReceiptAfterHandlers
<1>1. ClientInv => ReceiptAfterHandlers
  BY DEF ClientInv
<1> QED
  BY <1>1, ClientIsSafe, PTL
=============================================================================
