------------------------- MODULE AgentRuntimeProofs -------------------------
(***************************************************************************)
(* Theorems of the agent runtime's two halves that every process of an     *)
(* agent runs: the connection it keeps up and what it does with a message. *)
(*                                                                         *)
(* AgentConnection, for every set of senders, every number of clients and  *)
(* every number of links lost and tasks cancelled: nothing the agent has   *)
(* replaced or closed is left open.                                        *)
(*                                                                         *)
(* InboundDelivery, for every set of envelopes, every bound on frames and  *)
(* every number of connections: what is confirmed to the relay is durable, *)
(* an event refers to a stored inbox row, and an envelope is announced     *)
(* once, wherever a crash or a failed commit falls.                        *)
(***************************************************************************)
EXTENDS AgentConnection, InboundDelivery, TLAPS

-----------------------------------------------------------------------------
(* AgentConnection                                                          *)

Label == Phase \cup {"idle", "new", "sleep", "backoff", "ended", "up", "reap", "closed", "failed"}

\* The start comes before the supervisor and close() after it; only the main task
\* disconnects for another reason than to connect again.
LifeInv ==
  /\ pc \in [Task -> Label]
  /\ \A t \in Task \ {"main"} : goal[t] = "connect"
  /\ pc["main"] \in {"dial", "join", "replay"} => goal["main"] = "connect" /\ pc["sup"] = "new"
  /\ pc["main"] \in {"discard", "shut"} => goal["main"] # "connect"
  /\ pc["main"] = "reap" => pc["sup"] # "new"
  /\ pc["main"] = "closed" => Closing
  /\ Closing => /\ pc["main"] \in {"discard", "shut", "closed", "failed"}
                /\ pc["sup"] \in {"new", "ended"}
  /\ ~supervised => pc["sup"] = "new"

TypeInv == ConnTypeOK /\ LifeInv

\* A client that is being disconnected is not open any more.
DiscardedIsNotOpen == \A t \in Task : pc[t] \in {"discard", "shut"} => link[at[t]] # "open"

\* Without an overlap, the one task that connects has closed the client it is
\* about to replace, so that a task that still recovers receipts over a replaced
\* client does not hold the last reference to an open one.
OneConnects ==
  ~overlapped =>
    /\ \A t, u \in Task : Connecting(t) /\ Connecting(u) => t = u
    /\ \A t \in Task : Connecting(t) /\ current # 0 => link[current] # "open"
    /\ \A t \in Task : pc[t] = "replay" => at[t] = current \/ link[at[t]] # "open"

\* While close() disconnects, its client is the current one, unless a sender has
\* connected since.
ClosesCurrent ==
  Closing /\ ~late /\ pc["main"] \in {"discard", "shut"} => at["main"] = current

LinkInv ==
  /\ DiscardedIsNotOpen
  /\ OneConnects
  /\ ClosesCurrent
  /\ NothingLeftOpen
-----------------------------------------------------------------------------
(* Tasks, slots and labels.                                                 *)

\* The main task, the supervisor and the senders are different tasks.
LEMMA Tasks ==
  /\ Task = {"main", "sup"} \cup Sender
  /\ "main" \notin Sender /\ "sup" \notin Sender
BY ConnectionAssumption DEF Task

\* Slot 0 stands for no client.
LEMMA Slots ==
  /\ 0 \in 0..MaxClient /\ 0 \notin Client
  /\ Client \subseteq 0..MaxClient
  /\ \A c \in 0..MaxClient : c # 0 => c \in Client
BY ConnectionAssumption DEF Client

\* Where tasks resume, by kind of task.
LEMMA Outcomes ==
  /\ \A t \in Sender : Resumed(t) = "idle" /\ \A g : Raised(t, g) = "idle"
  /\ Resumed("sup") = (IF running THEN "sleep" ELSE "ended")
  /\ \A g : Raised("sup", g) = "backoff"
  /\ Resumed("main") = "up"
  /\ \A g : Raised("main", g) = IF g = "disconnect" THEN "up" ELSE "failed"
  /\ Emptied("connect") = "dial" /\ Emptied("disconnect") = "up" /\ Emptied("close") = "closed"
BY Tasks DEF Resumed, Raised, Emptied

\* The part of TypeInv that is about where the tasks are.
PlaceInv ==
  /\ pc["main"] \in Phase \cup {"up", "reap", "closed", "failed"}
  /\ pc["sup"] \in Phase \cup {"new", "sleep", "backoff", "ended"}
  /\ \A t \in Sender : pc[t] \in Phase \cup {"idle"}
  /\ goal \in [Task -> {"connect", "disconnect", "close"}]
  /\ at \in [Task -> 0..MaxClient]
  /\ \A t \in Task : at[t] # 0 <=> pc[t] \in Phase \ {"dial"}
  /\ running => supervised /\ pc["sup"] # "new"
  /\ LifeInv

\* The part that is about clients.
CellInv ==
  /\ current \in 0..MaxClient
  /\ flag \in [Client -> BOOLEAN]
  /\ link \in [Client -> {"none", "open", "deaf", "crashed"}]

FlagInv == {supervised, running, overlapped, abandoned, late} \subseteq BOOLEAN

\* The parts make the whole.
LEMMA TypeParts == TypeInv <=> PlaceInv /\ CellInv /\ FlagInv
BY DEF TypeInv, ConnTypeOK, PlaceInv, CellInv, FlagInv

\* A sender moves.
LEMMA SenderMoves ==
  ASSUME PlaceInv, NEW t \in Sender, NEW l \in Phase \cup {"idle"}, NEW c \in 0..MaxClient,
         c # 0 <=> l \in Phase \ {"dial"},
         pc' = [pc EXCEPT ![t] = l], at' = [at EXCEPT ![t] = c],
         goal' = goal \/ goal' = [goal EXCEPT ![t] = "connect"],
         UNCHANGED <<supervised, running>>
  PROVE  PlaceInv'
<1>1. t \in Task /\ t # "main" /\ t # "sup"
  BY Tasks
<1>2. goal' = goal
  BY <1>1 DEF PlaceInv, LifeInv
<1>3. pc'["main"] = pc["main"] /\ pc'["sup"] = pc["sup"]
  BY <1>1 DEF PlaceInv, LifeInv
<1>4. \A u \in Task : at'[u] # 0 <=> pc'[u] \in Phase \ {"dial"}
  BY <1>1 DEF PlaceInv, LifeInv
<1>5. \A u \in Sender : pc'[u] \in Phase \cup {"idle"}
  BY <1>1, Tasks DEF PlaceInv, LifeInv
<1>6. LifeInv'
  BY <1>1, <1>2, <1>3 DEF PlaceInv, LifeInv, Label, Closing
<1> QED
  BY <1>1, <1>2, <1>3, <1>4, <1>5, <1>6 DEF PlaceInv

\* The supervisor moves, while the runtime is up or is being left.
LEMMA SupMoves ==
  ASSUME PlaceInv, NEW l \in Phase \cup {"sleep", "backoff", "ended"}, NEW c \in 0..MaxClient,
         c # 0 <=> l \in Phase \ {"dial"},
         pc["sup"] \notin {"new", "ended"},
         pc' = [pc EXCEPT !["sup"] = l], at' = [at EXCEPT !["sup"] = c],
         goal' = goal \/ goal' = [goal EXCEPT !["sup"] = "connect"],
         UNCHANGED <<supervised, running>>
  PROVE  PlaceInv'
<1>1. "sup" \in Task /\ "sup" # "main"
  BY Tasks
<1>2. goal' = goal
  BY <1>1 DEF PlaceInv, LifeInv
<1>3. pc'["main"] = pc["main"] /\ pc'["sup"] = l
  BY <1>1 DEF PlaceInv, LifeInv
<1>4. \A u \in Task : at'[u] # 0 <=> pc'[u] \in Phase \ {"dial"}
  BY <1>1 DEF PlaceInv, LifeInv
<1>5. \A u \in Sender : pc'[u] \in Phase \cup {"idle"}
  BY <1>1, Tasks DEF PlaceInv, LifeInv
<1>6. l # "new"
  BY DEF Phase
<1>7. LifeInv'
  BY <1>1, <1>2, <1>3, <1>6 DEF PlaceInv, LifeInv, Label, Closing
<1> QED
  BY <1>1, <1>2, <1>3, <1>4, <1>5, <1>6, <1>7 DEF PlaceInv

\* The main task moves.
LEMMA MainMoves ==
  ASSUME PlaceInv, NEW l \in Phase \cup {"up", "closed", "failed"}, NEW c \in 0..MaxClient,
         NEW g \in {"connect", "disconnect", "close"},
         c # 0 <=> l \in Phase \ {"dial"},
         pc' = [pc EXCEPT !["main"] = l], at' = [at EXCEPT !["main"] = c],
         goal' = [goal EXCEPT !["main"] = g],
         UNCHANGED <<supervised, running>>,
         l \in {"dial", "join", "replay"} => g = "connect" /\ pc["sup"] = "new",
         l \in {"discard", "shut"} => g # "connect",
         l = "closed" => g = "close",
         g = "close" => l \in {"discard", "shut", "closed", "failed"} /\ pc["sup"] \in {"new", "ended"}
  PROVE  PlaceInv'
<1>1. "main" \in Task /\ "sup" # "main" /\ "sup" \in Task
  BY Tasks
<1>2. pc'["main"] = l /\ pc'["sup"] = pc["sup"] /\ goal'["main"] = g
  BY <1>1 DEF PlaceInv, LifeInv
<1>3. \A u \in Task : at'[u] # 0 <=> pc'[u] \in Phase \ {"dial"}
  BY <1>1 DEF PlaceInv, LifeInv
<1>4. \A u \in Sender : pc'[u] \in Phase \cup {"idle"}
  BY <1>1, Tasks DEF PlaceInv, LifeInv
<1>5. l # "reap"
  BY DEF Phase
<1>6. LifeInv'
  BY <1>5, <1>1, <1>2 DEF PlaceInv, LifeInv, Label, Closing
<1>7. /\ goal' \in [Task -> {"connect", "disconnect", "close"}]
      /\ at' \in [Task -> 0..MaxClient]
  BY <1>1 DEF PlaceInv
<1> QED
  BY <1>2, <1>3, <1>4, <1>6, <1>7 DEF PlaceInv
-----------------------------------------------------------------------------
(* What the steps do.                                                       *)

\* The three ways disconnect() goes on: no client, or one that is disconnected
\* already; a reader that died; a reader to wait for.
LEMMA DisconnectMoves ==
  ASSUME PlaceInv, CellInv, NEW t \in Task, NEW g \in {"connect", "disconnect", "close"},
         Disconnect(t, g)
  PROVE  /\ goal' = [goal EXCEPT ![t] = g]
         /\ UNCHANGED <<current, abandoned, late>>
         /\ overlapped' = (overlapped \/ (g = "connect" /\ \E u \in Task \ {t} : Connecting(u)))
         /\ \/ /\ pc' = [pc EXCEPT ![t] = Emptied(g)] /\ at' = [at EXCEPT ![t] = 0]
               /\ current # 0 => link[current] = "none"
               /\ link' = link
            \/ /\ pc' = [pc EXCEPT ![t] = Raised(t, g)] /\ at' = [at EXCEPT ![t] = 0]
               /\ link' = link
            \/ /\ pc' = [pc EXCEPT ![t] = "discard"] /\ at' = [at EXCEPT ![t] = current]
               /\ current # 0 /\ link[current] \in {"open", "deaf"}
               /\ link' = [link EXCEPT ![current] = "deaf"]
BY DEF Disconnect, Goto

\* What Shut does to the tasks.
LEMMA ShutMoves ==
  ASSUME PlaceInv, CellInv, NEW t \in Task, Shut(t)
  PROVE  /\ pc[t] = "shut" /\ at[t] \in Client
         /\ pc'[t] = Emptied(goal[t]) /\ at'[t] = 0
         /\ \A u \in Task \ {t} :
              \/ pc'[u] = pc[u] /\ at'[u] = at[u] /\ ~(pc[u] = "replay" /\ at[u] = at[t])
              \/ pc[u] = "replay" /\ at[u] = at[t] /\ pc'[u] = Raised(u, goal[u]) /\ at'[u] = 0
         /\ DOMAIN pc' = Task /\ DOMAIN at' = Task
         /\ pc' = [u \in Task |-> pc'[u]] /\ at' = [u \in Task |-> at'[u]]
         /\ link' = [link EXCEPT ![at[t]] = "none"]
         /\ UNCHANGED <<supervised, running, current, flag, goal, overlapped, abandoned, late>>
<1>1. pc[t] = "shut" /\ at[t] \in Client
  BY Slots DEF Shut, PlaceInv, Phase
<1>2. /\ pc' = [u \in Task |-> IF u = t THEN Emptied(goal[t])
                               ELSE IF pc[u] = "replay" /\ at[u] = at[t] THEN Raised(u, goal[u])
                               ELSE pc[u]]
      /\ at' = [u \in Task |-> IF u = t \/ (pc[u] = "replay" /\ at[u] = at[t]) THEN 0 ELSE at[u]]
  BY DEF Shut
<1>3. \A u \in Task \ {t} :
        \/ pc'[u] = pc[u] /\ at'[u] = at[u] /\ ~(pc[u] = "replay" /\ at[u] = at[t])
        \/ pc[u] = "replay" /\ at[u] = at[t] /\ pc'[u] = Raised(u, goal[u]) /\ at'[u] = 0
  BY <1>2
<1> QED
  BY <1>1, <1>2, <1>3 DEF Shut, historyVars

\* The other steps of a connect move one task and keep its goal.
LEMMA StepMoves ==
  ASSUME PlaceInv, CellInv, NEW t \in Task, Step(t), ~Shut(t), ~ReplayOK(t)
  PROVE  /\ UNCHANGED <<supervised, running, goal>>
         /\ \E l, c :
              /\ pc' = [pc EXCEPT ![t] = l] /\ at' = [at EXCEPT ![t] = c]
              /\ \/ pc[t] = "discard" /\ l = "shut" /\ c \in Client
                 \/ pc[t] = "dial" /\ l = "join" /\ c \in Client
                 \/ pc[t] = "join" /\ l = "replay" /\ c \in Client
                 \/ pc[t] \in {"dial", "join", "replay"} /\ l = Raised(t, goal[t]) /\ c = 0
<1>0. /\ pc[t] \in {"discard", "join"} => at[t] \in Client
      /\ \A l, c : Goto(t, l, c) <=> pc' = [pc EXCEPT ![t] = l] /\ at' = [at EXCEPT ![t] = c]
  BY Slots DEF PlaceInv, Phase, Goto
<1>1. CASE Discard(t)
  BY <1>0, <1>1 DEF Discard
<1>2. CASE Dial(t)
  BY <1>0, <1>2 DEF Dial
<1>3. CASE JoinOK(t)
  BY <1>0, <1>3 DEF JoinOK
<1>4. CASE DialFails(t) \/ ReplayFails(t)
  BY <1>0, <1>4 DEF DialFails, ReplayFails
<1> QED
  BY <1>1, <1>2, <1>3, <1>4 DEF Step

\* A recovery that comes to its end, but for the one that ends the start.
LEMMA ReplayMoves ==
  ASSUME TypeInv, NEW t \in Task, ReplayOK(t), ~(t = "main" /\ supervised)
  PROVE  /\ pc[t] = "replay" /\ link[at[t]] = "open"
         /\ pc' = [pc EXCEPT ![t] = Resumed(t)] /\ at' = [at EXCEPT ![t] = 0]
         /\ UNCHANGED <<supervised, running, goal, current, link, overlapped, abandoned, late>>
<1>1. /\ pc \in [Task -> Label] /\ "sup" \in Task
      /\ running \in BOOLEAN
  BY TypeParts, Tasks DEF PlaceInv, LifeInv, FlagInv
<1>2. /\ pc[t] = "replay" /\ link[at[t]] = "open" /\ at' = [at EXCEPT ![t] = 0]
      /\ UNCHANGED <<supervised, goal, current, link, overlapped, abandoned, late>>
  BY DEF ReplayOK, clientVars, historyVars
<1>3. pc' = [pc EXCEPT ![t] = Resumed(t), !["sup"] = IF t = "sup" THEN Resumed(t) ELSE @]
  BY DEF ReplayOK
<1>4. pc' = [pc EXCEPT ![t] = Resumed(t)]
  BY <1>1, <1>3
<1>5. running' = running
  BY <1>1 DEF ReplayOK
<1> QED
  BY <1>2, <1>4, <1>5

\* Shut leaves every task where it may be.
LEMMA ShutPlaces ==
  ASSUME PlaceInv, CellInv, NEW t \in Task, Shut(t)
  PROVE  PlaceInv'
<1> USE DEF Phase
<1>1. /\ pc[t] = "shut" /\ pc'[t] = Emptied(goal[t]) /\ at'[t] = 0
      /\ \A u \in Task \ {t} :
           \/ pc'[u] = pc[u] /\ at'[u] = at[u]
           \/ pc[u] = "replay" /\ pc'[u] = Raised(u, goal[u]) /\ at'[u] = 0
      /\ pc' = [u \in Task |-> pc'[u]] /\ at' = [u \in Task |-> at'[u]]
      /\ UNCHANGED <<supervised, running, goal>>
  BY ShutMoves
<1>2. \A u \in Sender : /\ u \in Task /\ u # "main" /\ goal[u] = "connect"
                        /\ pc'[u] = pc[u] \/ pc'[u] \in {"dial", "idle"}
  BY <1>1, Tasks, Outcomes DEF PlaceInv, LifeInv
<1>3. pc'["sup"] = pc["sup"] \/ (pc["sup"] \in {"shut", "replay"} /\ pc'["sup"] \in {"dial", "backoff"})
  BY <1>1, Tasks, Outcomes DEF PlaceInv, LifeInv
<1>4. \/ pc'["main"] = pc["main"]
      \/ pc["main"] = "replay" /\ pc'["main"] = "failed"
      \/ pc["main"] = "shut" /\ goal["main"] = "disconnect" /\ pc'["main"] = "up"
      \/ pc["main"] = "shut" /\ goal["main"] = "close" /\ pc'["main"] = "closed"
  BY <1>1, Tasks, Outcomes DEF PlaceInv, LifeInv
<1>5. \A u \in Task : at'[u] # 0 <=> pc'[u] \in Phase \ {"dial"}
  <2>1. Emptied(goal[t]) \notin Phase \ {"dial"}
    BY Outcomes DEF PlaceInv
  <2>2. \A u \in Task : Raised(u, goal[u]) \notin Phase \ {"dial"}
    BY Tasks, Outcomes
  <2> QED
    BY <1>1, <2>1, <2>2 DEF PlaceInv
<1>6. \A u \in Task : at'[u] \in 0..MaxClient /\ pc'[u] \in Label
  BY <1>1, <1>2, <1>3, <1>4, Tasks, Slots DEF PlaceInv, LifeInv, Label
<1>7. LifeInv'
  BY <1>1, <1>3, <1>4, <1>6, Tasks DEF PlaceInv, LifeInv, Closing
<1>8. at' \in [Task -> 0..MaxClient]
  BY <1>1, <1>6
<1> QED
  BY <1>1, <1>2, <1>3, <1>4, <1>5, <1>7, <1>8 DEF PlaceInv

\* The clients' cells keep their types.
LEMMA CellsStay ==
  ASSUME TypeInv, [Next]_vars
  PROVE  CellInv'
<1>0. PlaceInv /\ CellInv
  BY TypeParts
<1>1. ASSUME NEW t \in Task, NEW g \in {"connect", "disconnect", "close"}, Disconnect(t, g)
      PROVE CellInv'
  <2>1. flag' = flag \/ flag' = [flag EXCEPT ![current] = FALSE]
    BY <1>1 DEF Disconnect
  <2>2. UNCHANGED current /\ (link' = link \/ link' = [link EXCEPT ![current] = "deaf"])
    BY <1>0, <1>1, DisconnectMoves
  <2> QED
    BY <1>0, <2>1, <2>2 DEF CellInv
<1>2. CASE \/ \E t \in Sender : EnsureClient(t)
           \/ DisconnectCall \/ Reap
  BY <1>1, <1>2, Tasks DEF EnsureClient, DisconnectCall, Reap
<1>3. CASE Wake
  <2>1. Disconnect("sup", "connect") \/ UNCHANGED clientVars
    BY <1>3 DEF Wake
  <2> QED
    BY <1>0, <1>1, <2>1, Tasks DEF CellInv, clientVars
<1>4. ASSUME NEW t \in Task, Shut(t) PROVE CellInv'
  BY <1>0, <1>4 DEF CellInv, Shut
<1>5. ASSUME NEW t \in Task, Dial(t) PROVE CellInv'
  <2>1. PICK c \in Client : link' = [link EXCEPT ![c] = "open"] /\ flag' = [flag EXCEPT ![c] = FALSE]
    BY <1>5 DEF Dial
  <2> QED
    BY <1>0, <1>5, <2>1 DEF CellInv, Dial
<1>6. ASSUME NEW t \in Task, JoinOK(t) PROVE CellInv'
  BY <1>0, <1>6 DEF CellInv, JoinOK, PlaceInv
<1>7. ASSUME NEW c \in Client, LinkLost(c) PROVE CellInv'
  <2>1. PICK lost \in {"deaf", "crashed"} : link' = [link EXCEPT ![c] = lost]
    BY <1>7 DEF LinkLost
  <2> QED
    BY <1>0, <1>7, <2>1 DEF CellInv, LinkLost
<1>8. CASE \/ \E t \in Task : Discard(t) \/ DialFails(t) \/ ReplayOK(t) \/ ReplayFails(t)
           \/ \E t \in Task : Cancel(t)
           \/ BackoffEnds \/ Exit \/ UNCHANGED vars
  BY <1>0, <1>8 DEF CellInv, Cancel, Discard, DialFails, ReplayOK, ReplayFails, BackoffEnds, Exit, vars,
                    clientVars
<1> QED
  BY <1>2, <1>3, <1>4, <1>5, <1>6, <1>7, <1>8 DEF Next, Step

\* The flags and the history stay Boolean; the history variables are only set.
LEMMA FlagsStay ==
  ASSUME TypeInv, [Next]_vars
  PROVE  /\ FlagInv'
         /\ supervised' = supervised
         /\ overlapped => overlapped'
         /\ abandoned => abandoned'
         /\ late => late'
<1>0. /\ supervised \in BOOLEAN /\ running \in BOOLEAN /\ overlapped \in BOOLEAN
      /\ abandoned \in BOOLEAN /\ late \in BOOLEAN
  BY TypeParts DEF FlagInv
<1> USE DEF Next, Step, vars, historyVars, Disconnect, EnsureClient, DisconnectCall, Reap, Wake,
            Shut, Dial, JoinOK, LinkLost, Discard, DialFails, ReplayOK, ReplayFails, BackoffEnds,
            Exit, Cancelled, Cancel
<1>1. supervised' = supervised
  OBVIOUS
<1>2. running' \in BOOLEAN
  BY <1>0
<1>3. overlapped' \in BOOLEAN /\ (overlapped => overlapped')
  BY <1>0
<1>4. abandoned' \in BOOLEAN /\ (abandoned => abandoned')
  BY <1>0
<1>5. late' \in BOOLEAN /\ (late => late')
  BY <1>0
<1> QED
  BY <1>0, <1>1, <1>2, <1>3, <1>4, <1>5 DEF FlagInv
-----------------------------------------------------------------------------
\* Every variable stays in its type, a task has a client exactly while it works on
\* one, and the life of the connection keeps its order: start, supervisor, close.
THEOREM ConnectionTypeCorrect == Spec => []TypeInv
<1>1. Init => TypeInv
  <2> SUFFICES ASSUME Init PROVE TypeInv
    OBVIOUS
  <2>1. /\ pc = [t \in Task |-> IF t = "main" THEN "dial" ELSE IF t = "sup" THEN "new" ELSE "idle"]
        /\ goal = [t \in Task |-> "connect"] /\ at = [t \in Task |-> 0] /\ running = FALSE
    BY DEF Init
  <2>2. pc["main"] = "dial" /\ pc["sup"] = "new" /\ \A t \in Sender : pc[t] = "idle"
    BY <2>1, Tasks
  <2>3. \A t \in Task : at[t] = 0 /\ pc[t] \notin Phase \ {"dial"}
    BY <2>1 DEF Phase
  <2>4. LifeInv
    BY <2>1, <2>2, Tasks DEF LifeInv, Label, Phase, Closing
  <2>5. PlaceInv
    BY <2>1, <2>2, <2>3, <2>4, Slots DEF PlaceInv, Phase
  <2>6. CellInv
    BY Slots DEF Init, CellInv
  <2>7. FlagInv
    BY DEF Init, FlagInv
  <2> QED
    BY <2>5, <2>6, <2>7, TypeParts
<1>2. TypeInv /\ [Next]_vars => TypeInv'
  <2> SUFFICES ASSUME TypeInv, [Next]_vars PROVE PlaceInv'
    BY CellsStay, FlagsStay DEF TypeInv, ConnTypeOK, PlaceInv, CellInv, FlagInv
  <2>0. PlaceInv /\ CellInv /\ \A t \in Task : at[t] \in 0..MaxClient
    BY TypeParts DEF PlaceInv
  <2> USE DEF Phase
  <2>1. ASSUME NEW t \in Sender, Step(t) \/ EnsureClient(t) PROVE PlaceInv'
    <3>0. /\ t \in Task /\ t # "main" /\ t # "sup" /\ goal[t] = "connect"
          /\ Resumed(t) = "idle" /\ \A g : Raised(t, g) = "idle"
      BY <2>0, Tasks, Outcomes DEF PlaceInv, LifeInv
    <3>1. CASE EnsureClient(t)
      BY <2>0, <3>0, <3>1, SenderMoves, DisconnectMoves, Outcomes, Slots DEF EnsureClient, CellInv
    <3>2. CASE Shut(t)
      BY <2>0, <3>0, <3>2, ShutPlaces
    <3>3. CASE ReplayOK(t)
      <4>1. /\ pc' = [pc EXCEPT ![t] = "idle"] /\ at' = [at EXCEPT ![t] = 0]
            /\ UNCHANGED <<supervised, running, goal>>
        BY <3>0, <3>3, ReplayMoves
      <4> QED
        BY <2>0, <3>0, <4>1, SenderMoves, Slots
    <3>4. CASE Step(t) /\ ~Shut(t) /\ ~ReplayOK(t)
      <4>1. UNCHANGED <<supervised, running, goal>>
        BY <2>0, <3>0, <3>4, StepMoves
      <4>2. PICK l, c :
              /\ pc' = [pc EXCEPT ![t] = l] /\ at' = [at EXCEPT ![t] = c]
              /\ \/ pc[t] = "discard" /\ l = "shut" /\ c \in Client
                 \/ pc[t] = "dial" /\ l = "join" /\ c \in Client
                 \/ pc[t] = "join" /\ l = "replay" /\ c \in Client
                 \/ pc[t] \in {"dial", "join", "replay"} /\ l = Raised(t, goal[t]) /\ c = 0
        BY <2>0, <3>0, <3>4, StepMoves
      <4> QED
        BY <2>0, <3>0, <4>1, <4>2, SenderMoves, Slots
    <3> QED
      BY <2>1, <3>1, <3>2, <3>3, <3>4
  <2>2. CASE Step("sup") \/ Wake \/ BackoffEnds
    <3>0. /\ "sup" \in Task /\ "sup" # "main" /\ "sup" \notin Sender /\ goal["sup"] = "connect"
          /\ \A g : Raised("sup", g) = "backoff"
          /\ Resumed("sup") \in {"sleep", "ended"}
      BY <2>0, Tasks, Outcomes DEF PlaceInv, LifeInv
    <3>1. CASE Wake
      <4>1. CASE LooksDown
        BY <2>0, <3>0, <3>1, <4>1, SupMoves, DisconnectMoves, Outcomes, Slots DEF Wake, CellInv
      <4>2. CASE ~LooksDown
        <5>1. /\ pc["sup"] = "sleep" /\ pc' = [pc EXCEPT !["sup"] = Resumed("sup")]
              /\ UNCHANGED <<supervised, running, goal, at>>
          BY <3>1, <4>2 DEF Wake
        <5>2. at' = [at EXCEPT !["sup"] = 0]
          BY <2>0, <3>0, <5>1 DEF PlaceInv
        <5> QED
          BY <2>0, <3>0, <5>1, <5>2, SupMoves, Slots
      <4> QED
        BY <4>1, <4>2
    <3>2. CASE BackoffEnds
      <4>1. /\ pc["sup"] = "backoff" /\ pc' = [pc EXCEPT !["sup"] = Resumed("sup")]
            /\ UNCHANGED <<supervised, running, goal, at>>
        BY <3>2 DEF BackoffEnds
      <4>2. at' = [at EXCEPT !["sup"] = 0]
        BY <2>0, <3>0, <4>1 DEF PlaceInv
      <4> QED
        BY <2>0, <3>0, <4>1, <4>2, SupMoves, Slots
    <3>3. CASE Shut("sup")
      BY <2>0, <3>0, <3>3, ShutPlaces
    <3>4. CASE ReplayOK("sup")
      <4>1. /\ pc["sup"] = "replay"
            /\ pc' = [pc EXCEPT !["sup"] = Resumed("sup")] /\ at' = [at EXCEPT !["sup"] = 0]
            /\ UNCHANGED <<supervised, running, goal>>
        BY <3>0, <3>4, ReplayMoves
      <4> QED
        BY <2>0, <3>0, <4>1, SupMoves, Slots
    <3>5. CASE Step("sup") /\ ~Shut("sup") /\ ~ReplayOK("sup")
      <4>1. UNCHANGED <<supervised, running, goal>>
        BY <2>0, <3>0, <3>5, StepMoves
      <4>2. PICK l, c :
              /\ pc' = [pc EXCEPT !["sup"] = l] /\ at' = [at EXCEPT !["sup"] = c]
              /\ \/ pc["sup"] = "discard" /\ l = "shut" /\ c \in Client
                 \/ pc["sup"] = "dial" /\ l = "join" /\ c \in Client
                 \/ pc["sup"] = "join" /\ l = "replay" /\ c \in Client
                 \/ pc["sup"] \in {"dial", "join", "replay"} /\ l = Raised("sup", goal["sup"]) /\ c = 0
        BY <2>0, <3>0, <3>5, StepMoves
      <4> QED
        BY <2>0, <3>0, <4>1, <4>2, SupMoves, Slots
    <3> QED
      BY <2>2, <3>1, <3>2, <3>3, <3>4, <3>5
  <2>3. CASE Step("main") \/ DisconnectCall \/ Reap
    <3>0. /\ "main" \in Task /\ "sup" # "main" /\ "main" \notin Sender
          /\ \A g : Raised("main", g) = IF g = "disconnect" THEN "up" ELSE "failed"
          /\ Resumed("main") = "up"
      BY Tasks, Outcomes
    <3>1. CASE DisconnectCall
      BY <2>0, <3>0, <3>1, MainMoves, DisconnectMoves, Outcomes, Slots DEF DisconnectCall, CellInv
    <3>2. CASE Reap
      <4>1. pc["sup"] \in {"new", "ended"}
        BY <2>0, <3>2 DEF Reap, PlaceInv, LifeInv
      <4> QED
        BY <2>0, <3>0, <3>2, <4>1, MainMoves, DisconnectMoves, Outcomes, Slots DEF Reap, CellInv
    <3>3. CASE Shut("main")
      BY <2>0, <3>0, <3>3, ShutPlaces
    <3>4. CASE ReplayOK("main") /\ ~supervised
      <4>1. /\ pc["main"] = "replay"
            /\ pc' = [pc EXCEPT !["main"] = "up"] /\ at' = [at EXCEPT !["main"] = 0]
            /\ UNCHANGED <<supervised, running, goal>>
        BY <3>0, <3>4, ReplayMoves
      <4>2. goal["main"] = "connect" /\ goal' = [goal EXCEPT !["main"] = "connect"]
        BY <2>0, <3>0, <4>1 DEF PlaceInv, LifeInv
      <4> QED
        BY <2>0, <3>0, <4>1, <4>2, MainMoves, Slots
    <3>5. CASE ReplayOK("main") /\ supervised
      <4>1. /\ pc["main"] = "replay" /\ pc["sup"] = "new" /\ goal["main"] = "connect"
            /\ pc' = [pc EXCEPT !["main"] = "up", !["sup"] = "sleep"]
            /\ at' = [at EXCEPT !["main"] = 0]
            /\ UNCHANGED <<supervised, goal>>
        BY <2>0, <3>0, <3>5 DEF ReplayOK, PlaceInv, LifeInv
      <4>2. /\ pc'["main"] = "up" /\ pc'["sup"] = "sleep" /\ at'["main"] = 0 /\ at'["sup"] = 0
            /\ \A u \in Task \ {"main", "sup"} : pc'[u] = pc[u] /\ at'[u] = at[u]
            /\ pc' \in [Task -> Label] /\ at' \in [Task -> 0..MaxClient]
        BY <2>0, <3>0, <4>1, Tasks, Slots DEF PlaceInv, LifeInv, Label
      <4>3. LifeInv'
        BY <2>0, <3>0, <3>5, <4>1, <4>2 DEF PlaceInv, LifeInv, Closing
      <4> QED
        BY <2>0, <3>0, <3>5, <4>1, <4>2, <4>3, Tasks DEF PlaceInv
    <3>6. CASE Step("main") /\ ~Shut("main") /\ ~ReplayOK("main")
      <4>1. UNCHANGED <<supervised, running, goal>>
        BY <2>0, <3>0, <3>6, StepMoves
      <4>2. PICK l, c :
              /\ pc' = [pc EXCEPT !["main"] = l] /\ at' = [at EXCEPT !["main"] = c]
              /\ \/ pc["main"] = "discard" /\ l = "shut" /\ c \in Client
                 \/ pc["main"] = "dial" /\ l = "join" /\ c \in Client
                 \/ pc["main"] = "join" /\ l = "replay" /\ c \in Client
                 \/ pc["main"] \in {"dial", "join", "replay"} /\ l = Raised("main", goal["main"]) /\ c = 0
        BY <2>0, <3>0, <3>6, StepMoves
      <4>3. goal' = [goal EXCEPT !["main"] = goal["main"]]
        BY <2>0, <3>0, <4>1 DEF PlaceInv
      <4>4. CASE pc["main"] = "discard"
        <5>1. l = "shut" /\ c \in Client
          BY <4>2, <4>4
        <5>2. goal["main"] # "connect" /\ (goal["main"] = "close" => pc["sup"] \in {"new", "ended"})
          BY <2>0, <4>4 DEF PlaceInv, LifeInv, Closing
        <5>3. goal["main"] \in {"connect", "disconnect", "close"}
          BY <2>0, <3>0 DEF PlaceInv
        <5> QED
          BY <2>0, <4>1, <4>2, <4>3, <5>1, <5>2, <5>3, MainMoves, Slots
      <4>5. CASE pc["main"] \in {"dial", "join", "replay"}
        <5>1. goal["main"] = "connect" /\ pc["sup"] = "new"
          BY <2>0, <4>5 DEF PlaceInv, LifeInv
        <5>2. (l \in {"join", "replay"} /\ c \in Client) \/ (l = "failed" /\ c = 0)
          BY <3>0, <4>2, <4>5, <5>1
        <5> QED
          BY <2>0, <4>1, <4>2, <4>3, <5>1, <5>2, MainMoves, Slots
      <4> QED
        BY <4>2, <4>4, <4>5
    <3> QED
      BY <2>3, <3>1, <3>2, <3>3, <3>4, <3>5, <3>6
  <2>4. CASE Exit
    <3>1. /\ supervised /\ pc["main"] = "up" /\ running' = FALSE
          /\ UNCHANGED <<supervised, goal>>
          /\ "main" \in Task /\ "sup" \in Task /\ "main" # "sup"
      BY <2>4, Tasks DEF Exit
    <3>2. CASE pc["sup"] = "discard"
      <4>1. pc' = [pc EXCEPT !["main"] = "reap"] /\ at' = at
        BY <2>4, <3>2 DEF Exit, Cancelled
      <4>2. /\ pc'["main"] = "reap" /\ pc'["sup"] = pc["sup"] /\ pc' \in [Task -> Label]
            /\ \A u \in Task \ {"main"} : pc'[u] = pc[u]
        BY <2>0, <3>1, <4>1 DEF PlaceInv, LifeInv, Label
      <4>3. LifeInv'
        BY <2>0, <3>1, <3>2, <4>2 DEF PlaceInv, LifeInv, Closing
      <4> QED
        BY <2>0, <3>1, <4>1, <4>2, <4>3, Tasks DEF PlaceInv
    <3>3. CASE pc["sup"] # "discard"
      <4>1. /\ pc' = [pc EXCEPT !["main"] = "reap", !["sup"] = "ended"]
            /\ at' = [at EXCEPT !["sup"] = 0]
        BY <2>4, <3>3 DEF Exit, Cancelled
      <4>2. /\ pc'["main"] = "reap" /\ pc'["sup"] = "ended" /\ at'["sup"] = 0
            /\ at'["main"] = at["main"]
            /\ \A u \in Task \ {"main", "sup"} : pc'[u] = pc[u] /\ at'[u] = at[u]
            /\ pc' \in [Task -> Label] /\ at' \in [Task -> 0..MaxClient]
        BY <2>0, <3>1, <4>1, Slots DEF PlaceInv, LifeInv, Label
      <4>3. LifeInv'
        BY <2>0, <3>1, <4>2 DEF PlaceInv, LifeInv, Closing
      <4> QED
        BY <2>0, <3>1, <4>2, <4>3, Tasks DEF PlaceInv
    <3> QED
      BY <3>2, <3>3
  <2>5. ASSUME NEW c \in Client, LinkLost(c) PROVE PlaceInv'
    BY <2>0, <2>5 DEF LinkLost, taskVars, PlaceInv, LifeInv, Closing
  <2>6. CASE UNCHANGED vars
    BY <2>0, <2>6 DEF vars, taskVars, PlaceInv, LifeInv, Closing
  <2>7. ASSUME NEW t \in Task, Cancel(t) PROVE PlaceInv'
    <3>1. /\ UNCHANGED <<supervised, running, goal>>
          /\ pc' = [pc EXCEPT ![t] = IF t = "sup" THEN "ended" ELSE Raised(t, goal[t])]
          /\ at' = [at EXCEPT ![t] = 0]
      BY <2>7 DEF Cancel, Goto
    <3>2. CASE t \in Sender
      BY <2>0, <3>1, <3>2, Tasks, Outcomes, SenderMoves, Slots
    <3>3. CASE t = "sup"
      <4>1. pc["sup"] \notin {"new", "ended"}
        BY <2>0, <2>7, <3>3, Tasks DEF Cancel, PlaceInv, LifeInv
      <4>2. /\ pc' = [pc EXCEPT !["sup"] = "ended"] /\ at' = [at EXCEPT !["sup"] = 0]
            /\ goal' = goal
        BY <3>1, <3>3
      <4> QED
        BY <2>0, <3>1, <4>1, <4>2, SupMoves, Slots
    <3>4. CASE t = "main"
      <4>1. /\ goal' = [goal EXCEPT !["main"] = goal["main"]]
            /\ goal["main"] \in {"connect", "disconnect", "close"}
            /\ goal["main"] = "close" => pc["sup"] \in {"new", "ended"}
        BY <2>0, <3>1, Tasks DEF PlaceInv, LifeInv, Closing
      <4>2. pc' = [pc EXCEPT !["main"] = IF goal["main"] = "disconnect" THEN "up" ELSE "failed"]
        BY <3>1, <3>4, Tasks, Outcomes
      <4> QED
        BY <2>0, <3>1, <3>4, <4>1, <4>2, MainMoves, Slots
    <3> QED
      BY <3>2, <3>3, <3>4, Tasks
  <2> QED
    BY <2>1, <2>2, <2>3, <2>4, <2>5, <2>6, <2>7, Tasks DEF Next
<1> QED
  BY <1>1, <1>2, PTL DEF Spec
-----------------------------------------------------------------------------
(* What the steps do to links.                                              *)

\* Tasks go on to shut their client, or let go of what they worked on; a client
\* in a join is let go of only if it is counted as abandoned.
Releases ==
  /\ UNCHANGED <<current, link, goal, overlapped, late>>
  /\ abandoned => abandoned'
  /\ \A u \in Task :
       \/ pc'[u] = pc[u] /\ at'[u] = at[u]
       \/ pc[u] = "discard" /\ pc'[u] = "shut" /\ at'[u] = at[u]
       \/ pc'[u] \notin Phase \cup {"closed"} /\ at'[u] = 0 /\ (pc[u] = "join" => abandoned')

\* Letting go loses no open client.
LEMMA ReleasesKeepLinks ==
  ASSUME TypeInv, LinkInv, Releases
  PROVE  LinkInv'
<1>0. PlaceInv /\ CellInv /\ DiscardedIsNotOpen /\ OneConnects /\ ClosesCurrent /\ NothingLeftOpen
  BY TypeParts DEF LinkInv
<1> USE DEF Phase
<1>1. DiscardedIsNotOpen'
  BY <1>0 DEF Releases, DiscardedIsNotOpen
<1>2. OneConnects'
  <2>1. \A u \in Task : Connecting(u)' => Connecting(u)
    BY DEF Releases, Connecting
  <2>2. \A u \in Task : pc'[u] = "replay" => pc[u] = "replay" /\ at'[u] = at[u]
    BY DEF Releases
  <2> QED
    BY <1>0, <2>1, <2>2 DEF Releases, OneConnects
<1>3. ClosesCurrent'
  BY <1>0, Tasks DEF Releases, ClosesCurrent, Closing
<1>4. NothingLeftOpen'
  <2>1. ASSUME ~overlapped', ~abandoned', NEW c \in Client, link'[c] = "open"
        PROVE  Referenced(c)'
    <3>1. ~overlapped /\ ~abandoned /\ link[c] = "open" /\ current' = current
      BY <2>1 DEF Releases
    <3>2. CASE c = current
      BY <3>1, <3>2 DEF Referenced
    <3>3. CASE c # current
      <4>1. PICK u \in Task : at[u] = c
        BY <1>0, <3>1, <3>3 DEF NothingLeftOpen, Referenced
      <4>2. pc[u] \in {"discard", "shut", "join", "replay"}
        BY <1>0, <4>1, Slots DEF PlaceInv
      <4>3. pc[u] = "join"
        BY <1>0, <3>1, <3>3, <4>1, <4>2 DEF DiscardedIsNotOpen, OneConnects
      <4>4. at'[u] = at[u]
        BY <2>1, <4>3 DEF Releases
      <4> QED
        BY <4>1, <4>4 DEF Referenced
    <3> QED
      BY <3>2, <3>3
  <2>2. pc'["main"] = "closed" => pc["main"] = "closed"
    BY Tasks DEF Releases
  <2>3. pc'["main"] = "closed" /\ ~late' /\ current' # 0 => link'[current'] = "none"
    BY <1>0, <2>2 DEF Releases, NothingLeftOpen
  <2> QED
    BY <2>1, <2>3 DEF NothingLeftOpen
<1> QED
  BY <1>1, <1>2, <1>3, <1>4 DEF LinkInv

\* disconnect() of the current client, or of none.
LEMMA DisconnectKeepsLinks ==
  ASSUME TypeInv, LinkInv, NEW t \in Task, NEW g \in {"connect", "disconnect", "close"},
         at[t] = 0, t # "main" => g = "connect", t = "main" => g # "connect",
         pc["main"] = "closed" => t # "main",
         Disconnect(t, g)
  PROVE  LinkInv'
<1>0. PlaceInv /\ CellInv /\ DiscardedIsNotOpen /\ OneConnects /\ ClosesCurrent /\ NothingLeftOpen
  BY TypeParts DEF LinkInv
<1>1. /\ goal' = [goal EXCEPT ![t] = g]
      /\ UNCHANGED <<current, abandoned, late>>
      /\ overlapped' = (overlapped \/ (g = "connect" /\ \E u \in Task \ {t} : Connecting(u)))
      /\ \/ /\ pc' = [pc EXCEPT ![t] = Emptied(g)] /\ at' = [at EXCEPT ![t] = 0]
            /\ current # 0 => link[current] = "none"
            /\ link' = link
         \/ /\ pc' = [pc EXCEPT ![t] = Raised(t, g)] /\ at' = [at EXCEPT ![t] = 0]
            /\ link' = link
         \/ /\ pc' = [pc EXCEPT ![t] = "discard"] /\ at' = [at EXCEPT ![t] = current]
            /\ current # 0 /\ link[current] \in {"open", "deaf"}
            /\ link' = [link EXCEPT ![current] = "deaf"]
  BY <1>0, DisconnectMoves
<1>2. /\ Emptied(g) = (IF g = "connect" THEN "dial" ELSE IF g = "disconnect" THEN "up" ELSE "closed")
      /\ Raised(t, g) \in {"idle", "backoff", "up", "failed"}
  BY Tasks, Outcomes
<1>3. /\ \A u \in Task \ {t} : pc'[u] = pc[u] /\ at'[u] = at[u] /\ goal'[u] = goal[u]
      /\ pc'[t] \in {Emptied(g), Raised(t, g), "discard"} /\ goal'[t] = g
      /\ pc'[t] = "discard" => at'[t] = current /\ current # 0 /\ link'[current] = "deaf"
      /\ pc'[t] = "closed" => (current # 0 => link[current] = "none") /\ link' = link
      /\ pc'[t] = "dial" => (current # 0 => link'[current] = "none")
      /\ \A c \in Client : link'[c] = link[c] \/ (c = current /\ link'[c] = "deaf" /\ link[c] # "none")
  BY <1>0, <1>1, <1>2, Slots DEF PlaceInv, LifeInv, CellInv
<1>4. \A u \in Task : at[u] # 0 => at[u] \in Client
  BY <1>0, Slots DEF PlaceInv
<1>5. DiscardedIsNotOpen'
  <2>1. \A u \in Task : pc[u] \in {"discard", "shut"} => at[u] \in Client
    BY <1>0, <1>4 DEF PlaceInv, Phase
  <2> QED
    BY <1>0, <1>1, <1>2, <1>3, <2>1 DEF DiscardedIsNotOpen
<1>6. OneConnects'
  <2> SUFFICES ASSUME ~overlapped' PROVE
           /\ \A u, v \in Task : Connecting(u)' /\ Connecting(v)' => u = v
           /\ \A u \in Task : Connecting(u)' /\ current' # 0 => link'[current'] # "open"
           /\ \A u \in Task : pc'[u] = "replay" => at'[u] = current' \/ link'[at'[u]] # "open"
    BY DEF OneConnects
  <2>1. ~overlapped /\ (g = "connect" => \A u \in Task \ {t} : ~Connecting(u))
    BY <1>1
  <2>2. \A u \in Task \ {t} : Connecting(u)' = Connecting(u)
    BY <1>3 DEF Connecting
  <2>3. Connecting(t)' => g = "connect" /\ pc'[t] \in {"dial", "discard"}
    BY <1>2, <1>3 DEF Connecting
  <2>4. current # 0 => current \in Client
    BY <1>0, Slots DEF CellInv
  <2>5. \A u, v \in Task : Connecting(u)' /\ Connecting(v)' => u = v
    BY <1>0, <2>1, <2>2, <2>3 DEF OneConnects
  <2>6. \A u \in Task : Connecting(u)' /\ current' # 0 => link'[current'] # "open"
    BY <1>0, <1>1, <1>3, <2>1, <2>2, <2>3, <2>4 DEF OneConnects
  <2>7. \A u \in Task : pc'[u] = "replay" => at'[u] = current' \/ link'[at'[u]] # "open"
    <3>1. \A u \in Task : pc'[u] = "replay" => u # t /\ pc[u] = "replay" /\ at[u] \in Client
      BY <1>0, <1>2, <1>3, <1>4 DEF PlaceInv, Phase
    <3> QED
      BY <1>0, <1>1, <1>3, <2>1, <3>1 DEF OneConnects
  <2> QED
    BY <2>5, <2>6, <2>7
<1>7. ClosesCurrent'
  <2>1. CASE t = "main"
    BY <1>1, <1>2, <1>3, <2>1 DEF ClosesCurrent
  <2>2. CASE t # "main"
    BY <1>0, <1>1, <1>3, <2>2, Tasks DEF ClosesCurrent, Closing
  <2> QED
    BY <2>1, <2>2
<1>8. NothingLeftOpen'
  <2>1. ASSUME ~overlapped', ~abandoned', NEW c \in Client, link'[c] = "open"
        PROVE  Referenced(c)'
    <3>1. ~overlapped /\ ~abandoned /\ link[c] = "open"
      BY <1>1, <1>3, <2>1
    <3>2. c = current \/ \E u \in Task : at[u] = c
      BY <1>0, <3>1 DEF NothingLeftOpen, Referenced
    <3>3. \A u \in Task : at[u] = c => at'[u] = c
      BY <1>3, Slots
    <3> QED
      BY <1>1, <3>2, <3>3 DEF Referenced
  <2>2. ASSUME pc'["main"] = "closed", ~late', current' # 0 PROVE link'[current'] = "none"
    <3>1. CASE t = "main"
      BY <1>1, <1>3, <2>2, <3>1
    <3>2. CASE t # "main"
      <4>1. pc["main"] = "closed" /\ ~late /\ current \in Client
        BY <1>0, <1>1, <1>3, <2>2, <3>2, Tasks, Slots DEF CellInv
      <4>2. link[current] = "none"
        BY <1>0, <1>1, <2>2, <4>1 DEF NothingLeftOpen
      <4> QED
        BY <1>1, <1>3, <4>1, <4>2
    <3> QED
      BY <3>1, <3>2
  <2> QED
    BY <2>1, <2>2 DEF NothingLeftOpen
<1> QED
  BY <1>5, <1>6, <1>7, <1>8 DEF LinkInv

\* The socket of a client is closed, and whoever recovers over it gives up.
LEMMA ShutKeepsLinks ==
  ASSUME TypeInv, LinkInv, NEW t \in Task, Shut(t)
  PROVE  LinkInv'
<1>0. PlaceInv /\ CellInv /\ DiscardedIsNotOpen /\ OneConnects /\ ClosesCurrent /\ NothingLeftOpen
  BY TypeParts DEF LinkInv
<1>1. /\ pc[t] = "shut" /\ at[t] \in Client
      /\ pc'[t] = Emptied(goal[t]) /\ at'[t] = 0
      /\ \A u \in Task \ {t} :
           \/ pc'[u] = pc[u] /\ at'[u] = at[u] /\ ~(pc[u] = "replay" /\ at[u] = at[t])
           \/ pc[u] = "replay" /\ at[u] = at[t] /\ pc'[u] = Raised(u, goal[u]) /\ at'[u] = 0
      /\ link' = [link EXCEPT ![at[t]] = "none"]
      /\ UNCHANGED <<current, goal, overlapped, abandoned, late>>
  BY <1>0, ShutMoves
<1>2. /\ link'[at[t]] = "none"
      /\ \A c \in Client : c # at[t] => link'[c] = link[c]
  BY <1>0, <1>1 DEF CellInv
<1>3. /\ \A u \in Task : Raised(u, goal[u]) \in {"idle", "backoff", "up", "failed"}
      /\ goal[t] \in {"connect", "disconnect", "close"}
      /\ Emptied(goal[t]) = IF goal[t] = "connect" THEN "dial"
                            ELSE IF goal[t] = "disconnect" THEN "up" ELSE "closed"
  BY <1>0, Tasks, Outcomes DEF PlaceInv
<1>4. \A u \in Task : pc[u] \in {"discard", "shut", "join", "replay"} => at[u] \in Client
  BY <1>0, Slots DEF PlaceInv, Phase
<1>5. \A u \in Task : pc'[u] \in {"discard", "shut", "replay"} =>
        u # t /\ pc[u] = pc'[u] /\ at'[u] = at[u]
  BY <1>1, <1>3
<1>6. DiscardedIsNotOpen'
  BY <1>0, <1>2, <1>4, <1>5 DEF DiscardedIsNotOpen
<1>7. OneConnects'
  <2>1. \A u \in Task : Connecting(u)' => Connecting(u)
    BY <1>1, <1>3 DEF Connecting
  <2>2. current # 0 /\ link[current] # "open" => link'[current] # "open"
    BY <1>0, <1>2, Slots DEF CellInv
  <2>3. \A u \in Task : pc'[u] = "replay" =>
          /\ pc[u] = "replay" /\ at'[u] = at[u]
          /\ link[at[u]] # "open" => link'[at[u]] # "open"
    BY <1>2, <1>4, <1>5
  <2> QED
    BY <1>0, <1>1, <2>1, <2>2, <2>3 DEF OneConnects
<1>8. ClosesCurrent'
  BY <1>0, <1>1, <1>5, Tasks DEF ClosesCurrent, Closing
<1>9. NothingLeftOpen'
  <2>1. ASSUME ~overlapped', ~abandoned', NEW c \in Client, link'[c] = "open"
        PROVE  Referenced(c)'
    <3>1. ~overlapped /\ ~abandoned /\ link[c] = "open" /\ c # at[t]
      BY <1>1, <1>2, <2>1
    <3>2. c = current \/ \E u \in Task : at[u] = c
      BY <1>0, <3>1 DEF NothingLeftOpen, Referenced
    <3>3. \A u \in Task : at[u] = c => at'[u] = c
      BY <1>1, <3>1
    <3> QED
      BY <1>1, <3>2, <3>3 DEF Referenced
  <2>2. ASSUME pc'["main"] = "closed", ~late', current' # 0 PROVE link'[current'] = "none"
    <3>0. current \in Client /\ ~late /\ "main" \in Task
      BY <1>0, <1>1, <2>2, Slots, Tasks DEF CellInv
    <3>1. CASE t = "main"
      <4>1. goal["main"] = "close"
        BY <1>1, <1>3, <2>2, <3>1
      <4>2. at["main"] = current
        BY <1>0, <1>1, <3>0, <3>1, <4>1 DEF ClosesCurrent, Closing
      <4> QED
        BY <1>1, <1>2, <3>1, <4>2
    <3>2. CASE t # "main"
      <4>1. pc["main"] = "closed"
        BY <1>1, <1>3, <2>2, <3>0, <3>2
      <4>2. link[current] = "none"
        BY <1>0, <1>1, <2>2, <3>0, <4>1 DEF NothingLeftOpen
      <4> QED
        BY <1>1, <1>2, <3>0, <4>2
    <3> QED
      BY <3>1, <3>2
  <2> QED
    BY <2>1, <2>2 DEF NothingLeftOpen
<1> QED
  BY <1>6, <1>7, <1>8, <1>9 DEF LinkInv

\* A new client is opened in a slot that nothing refers to.
LEMMA DialKeepsLinks ==
  ASSUME TypeInv, LinkInv, NEW t \in Task, Dial(t)
  PROVE  LinkInv'
<1>0. PlaceInv /\ CellInv /\ DiscardedIsNotOpen /\ OneConnects /\ ClosesCurrent /\ NothingLeftOpen
  BY TypeParts DEF LinkInv
<1>1. PICK c \in Client :
        /\ c # current /\ \A u \in Task : at[u] # c
        /\ pc' = [pc EXCEPT ![t] = "join"] /\ at' = [at EXCEPT ![t] = c]
        /\ link' = [link EXCEPT ![c] = "open"]
  BY DEF Dial, Goto
<1>2. /\ pc[t] = "dial" /\ at[t] = 0
      /\ UNCHANGED <<current, goal, overlapped, abandoned, late>>
  BY <1>0 DEF Dial, PlaceInv, historyVars
<1>3. /\ pc'[t] = "join" /\ at'[t] = c
      /\ \A u \in Task \ {t} : pc'[u] = pc[u] /\ at'[u] = at[u]
      /\ \A d \in Client : d # c => link'[d] = link[d]
  BY <1>0, <1>1 DEF PlaceInv, LifeInv, CellInv
<1>4. \A u \in Task : pc[u] \in {"discard", "shut", "join", "replay"} => at[u] \in Client
  BY <1>0, Slots DEF PlaceInv, Phase
<1>5. current # 0 => current \in Client /\ link'[current] = link[current]
  BY <1>0, <1>1, <1>3, Slots DEF CellInv
<1>6. DiscardedIsNotOpen'
  BY <1>0, <1>1, <1>3, <1>4 DEF DiscardedIsNotOpen
<1>7. OneConnects'
  <2>1. \A u \in Task : Connecting(u)' => Connecting(u)
    BY <1>2, <1>3 DEF Connecting
  <2>2. \A u \in Task : pc'[u] = "replay" =>
          pc[u] = "replay" /\ at'[u] = at[u] /\ link'[at[u]] = link[at[u]]
    BY <1>1, <1>3, <1>4
  <2> QED
    BY <1>0, <1>2, <1>5, <2>1, <2>2 DEF OneConnects
<1>8. ClosesCurrent'
  BY <1>0, <1>2, <1>3, Tasks DEF ClosesCurrent, Closing
<1>9. NothingLeftOpen'
  <2>1. ASSUME ~overlapped', ~abandoned', NEW d \in Client, link'[d] = "open"
        PROVE  Referenced(d)'
    <3>1. CASE d = c
      BY <1>3, <3>1 DEF Referenced
    <3>2. CASE d # c
      <4>1. d = current \/ \E u \in Task : at[u] = d
        BY <1>0, <1>2, <1>3, <2>1, <3>2 DEF NothingLeftOpen, Referenced
      <4>2. \A u \in Task : at[u] = d => at'[u] = d
        BY <1>2, <1>3, Slots
      <4> QED
        BY <1>2, <4>1, <4>2 DEF Referenced
    <3> QED
      BY <3>1, <3>2
  <2>2. pc'["main"] = "closed" => pc["main"] = "closed"
    BY <1>3, Tasks
  <2>3. pc'["main"] = "closed" /\ ~late' /\ current' # 0 => link'[current'] = "none"
    BY <1>0, <1>2, <1>5, <2>2 DEF NothingLeftOpen
  <2> QED
    BY <2>1, <2>3 DEF NothingLeftOpen
<1> QED
  BY <1>6, <1>7, <1>8, <1>9 DEF LinkInv

\* The client that has joined replaces one that is not open.
LEMMA JoinKeepsLinks ==
  ASSUME TypeInv, LinkInv, NEW t \in Task, JoinOK(t)
  PROVE  LinkInv'
<1>0. PlaceInv /\ CellInv /\ DiscardedIsNotOpen /\ OneConnects /\ ClosesCurrent /\ NothingLeftOpen
  BY TypeParts DEF LinkInv
<1>1. /\ pc[t] = "join" /\ current' = at[t]
      /\ UNCHANGED <<link, goal, overlapped, abandoned>>
      /\ late' = (late \/ (t \in Sender /\ Closing))
      /\ \/ pc' = [pc EXCEPT ![t] = "replay"] /\ at' = [at EXCEPT ![t] = at[t]]
         \/ pc' = [pc EXCEPT ![t] = Raised(t, goal[t])] /\ at' = [at EXCEPT ![t] = 0]
  BY DEF JoinOK, Goto
<1>2. /\ Raised(t, goal[t]) \in {"idle", "backoff", "up", "failed"}
      /\ goal[t] = "connect"
  BY <1>0, <1>1, Tasks, Outcomes DEF PlaceInv, LifeInv
<1>3. /\ (pc'[t] = "replay" /\ at'[t] = current') \/ pc'[t] \in {"idle", "backoff", "up", "failed"}
      /\ \A u \in Task \ {t} : pc'[u] = pc[u] /\ at'[u] = at[u]
  BY <1>0, <1>1, <1>2 DEF PlaceInv, LifeInv
<1>4. Closing => late'
  <2>1. t # "sup" /\ t # "main" => t \in Sender
    BY Tasks
  <2>2. Closing => t # "sup" /\ t # "main"
    BY <1>0, <1>1 DEF PlaceInv, LifeInv
  <2> QED
    BY <1>1, <2>1, <2>2
<1>5. DiscardedIsNotOpen'
  BY <1>0, <1>1, <1>3 DEF DiscardedIsNotOpen
<1>6. ~overlapped => /\ current # 0 => link[current] # "open"
                     /\ \A u \in Task \ {t} : ~Connecting(u)
  BY <1>0, <1>1, <1>2 DEF OneConnects, Connecting
<1>7. OneConnects'
  <2> SUFFICES ASSUME ~overlapped' PROVE
           /\ \A u \in Task : ~Connecting(u)'
           /\ \A u \in Task : pc'[u] = "replay" => at'[u] = current' \/ link'[at'[u]] # "open"
    BY DEF OneConnects
  <2>1. ~overlapped
    BY <1>1
  <2>2. \A u \in Task : ~Connecting(u)'
    BY <1>1, <1>3, <1>6, <2>1 DEF Connecting
  <2>3. \A u \in Task \ {t} : pc[u] = "replay" => at[u] # 0
    BY <1>0 DEF PlaceInv, Phase
  <2>4. \A u \in Task \ {t} : pc'[u] = "replay" => link[at'[u]] # "open"
    BY <1>0, <1>3, <1>6, <2>1, <2>3 DEF OneConnects
  <2> QED
    BY <1>1, <1>3, <2>2, <2>4
<1>8. ClosesCurrent'
  BY <1>1, <1>4 DEF ClosesCurrent, Closing
<1>9. NothingLeftOpen'
  <2>1. ASSUME ~overlapped', ~abandoned', NEW c \in Client, link'[c] = "open"
        PROVE  Referenced(c)'
    <3>1. ~overlapped /\ ~abandoned /\ link[c] = "open"
      BY <1>1, <2>1
    <3>2. c # current
      BY <1>6, <3>1, Slots
    <3>3. PICK u \in Task : at[u] = c
      BY <1>0, <3>1, <3>2 DEF NothingLeftOpen, Referenced
    <3> QED
      BY <1>1, <1>3, <3>3 DEF Referenced
  <2>2. pc'["main"] = "closed" => Closing
    BY <1>0, <1>3, Tasks DEF PlaceInv, LifeInv
  <2> QED
    BY <1>4, <2>1, <2>2 DEF NothingLeftOpen
<1> QED
  BY <1>5, <1>7, <1>8, <1>9 DEF LinkInv

\* A link that is lost was open, and is not any more.
LEMMA LossKeepsLinks ==
  ASSUME TypeInv, LinkInv, NEW c \in Client, LinkLost(c)
  PROVE  LinkInv'
<1>0. PlaceInv /\ CellInv /\ DiscardedIsNotOpen /\ OneConnects /\ ClosesCurrent /\ NothingLeftOpen
  BY TypeParts DEF LinkInv
<1>1. PICK lost \in {"deaf", "crashed"} : link' = [link EXCEPT ![c] = lost]
  BY DEF LinkLost
<1>2. /\ link[c] = "open"
      /\ UNCHANGED <<pc, at, goal, current, overlapped, abandoned, late>>
  BY DEF LinkLost, taskVars, historyVars
<1>3. /\ link'[c] # "open"
      /\ \A d \in Client : d # c => link'[d] = link[d]
  BY <1>0, <1>1 DEF CellInv
<1>4. \A u \in Task : pc[u] \in {"discard", "shut", "join", "replay"} => at[u] \in Client
  BY <1>0, Slots DEF PlaceInv, Phase
<1>5. current # 0 => current \in Client
  BY <1>0, Slots DEF CellInv
<1>6. DiscardedIsNotOpen'
  BY <1>0, <1>2, <1>3, <1>4 DEF DiscardedIsNotOpen
<1>7. OneConnects'
  <2>1. \A u \in Task : Connecting(u)' = Connecting(u)
    BY <1>2 DEF Connecting
  <2> QED
    BY <1>0, <1>2, <1>3, <1>4, <1>5, <2>1 DEF OneConnects
<1>8. ClosesCurrent'
  BY <1>0, <1>2 DEF ClosesCurrent, Closing
<1>9. NothingLeftOpen'
  BY <1>0, <1>2, <1>3, <1>5 DEF NothingLeftOpen, Referenced
<1> QED
  BY <1>6, <1>7, <1>8, <1>9 DEF LinkInv
-----------------------------------------------------------------------------
\* Clients are replaced, disconnected and let go of without leaving a connection
\* behind: the invariant NothingLeftOpen follows from.
THEOREM LinksAreKept == Spec => []LinkInv
<1>1. Init => LinkInv
  <2> SUFFICES ASSUME Init PROVE LinkInv
    OBVIOUS
  <2>1. /\ \A t \in Task : pc[t] \in {"dial", "new", "idle"} /\ (pc[t] = "dial" => t = "main")
        /\ current = 0 /\ \A c \in Client : link[c] = "none"
        /\ \A t \in Task : goal[t] = "connect"
    BY DEF Init
  <2> QED
    BY <2>1, Tasks DEF LinkInv, DiscardedIsNotOpen, OneConnects, ClosesCurrent, NothingLeftOpen,
                       Connecting, Closing
<1>2. TypeInv /\ LinkInv /\ [Next]_vars => LinkInv'
  <2> SUFFICES ASSUME TypeInv, LinkInv, [Next]_vars PROVE LinkInv'
    OBVIOUS
  <2>0. /\ PlaceInv /\ CellInv
        /\ \A u \in Task : pc[u] \notin Phase \ {"dial"} => at[u] = 0
        /\ abandoned => abandoned'
    BY TypeParts, FlagsStay DEF PlaceInv
  <2>1. ASSUME NEW t \in Sender, EnsureClient(t) PROVE LinkInv'
    BY <2>0, <2>1, Tasks, DisconnectKeepsLinks DEF EnsureClient, Phase
  <2>2. CASE DisconnectCall
    BY <2>0, <2>2, Tasks, DisconnectKeepsLinks DEF DisconnectCall, Phase
  <2>3. CASE Reap
    BY <2>0, <2>3, Tasks, DisconnectKeepsLinks DEF Reap, Phase
  <2>4. CASE Wake /\ LooksDown
    BY <2>0, <2>4, Tasks, DisconnectKeepsLinks DEF Wake, Phase
  <2>5. ASSUME NEW t \in Task, Shut(t) \/ Dial(t) \/ JoinOK(t) PROVE LinkInv'
    BY <2>5, ShutKeepsLinks, DialKeepsLinks, JoinKeepsLinks
  <2>6. ASSUME NEW c \in Client, LinkLost(c) PROVE LinkInv'
    BY <2>6, LossKeepsLinks
  <2>7. ASSUME NEW t \in Task, Discard(t) \/ DialFails(t) \/ ReplayFails(t) PROVE Releases
    BY <2>0, <2>7, Tasks, Outcomes
       DEF Releases, Discard, DialFails, ReplayFails, Goto, PlaceInv, LifeInv, Phase, clientVars,
           historyVars
  <2>8. ASSUME NEW t \in Task, ReplayOK(t) PROVE Releases
    <3>1. CASE ~(t = "main" /\ supervised)
      <4>1. Resumed(t) \in {"idle", "sleep", "ended", "up"}
        BY Tasks, Outcomes
      <4> QED
        BY <2>0, <2>8, <3>1, <4>1, ReplayMoves DEF Releases, Phase, PlaceInv, LifeInv
    <3>2. CASE t = "main" /\ supervised
      <4>1. /\ pc["main"] = "replay" /\ pc["sup"] = "new" /\ at["sup"] = 0
            /\ pc' = [pc EXCEPT !["main"] = "up", !["sup"] = "sleep"]
            /\ at' = [at EXCEPT !["main"] = 0]
            /\ UNCHANGED <<current, link, goal, overlapped, abandoned, late>>
        BY <2>0, <2>8, <3>2, Tasks, Outcomes
           DEF ReplayOK, PlaceInv, LifeInv, Phase, clientVars, historyVars
      <4>2. /\ pc'["main"] = "up" /\ at'["main"] = 0
            /\ pc'["sup"] = "sleep" /\ at'["sup"] = 0
            /\ \A u \in Task \ {"main", "sup"} : pc'[u] = pc[u] /\ at'[u] = at[u]
        BY <2>0, <4>1, Tasks DEF PlaceInv, LifeInv
      <4> QED
        BY <4>1, <4>2 DEF Releases, Phase
    <3> QED
      BY <3>1, <3>2
  <2>9. ASSUME (Wake /\ ~LooksDown) \/ BackoffEnds PROVE Releases
    <3>1. /\ pc["sup"] \in {"sleep", "backoff"} /\ at' = at
          /\ pc' = [pc EXCEPT !["sup"] = Resumed("sup")]
          /\ UNCHANGED <<current, link, goal, overlapped, abandoned, late>>
      BY <2>9 DEF Wake, BackoffEnds, clientVars, historyVars
    <3>2. at["sup"] = 0 /\ Resumed("sup") \in {"sleep", "ended"}
      BY <2>0, <3>1, Tasks, Outcomes DEF Phase
    <3> QED
      BY <2>0, <3>1, <3>2 DEF Releases, Phase, PlaceInv, LifeInv
  <2>10. ASSUME Exit PROVE Releases
    <3>1. /\ pc["main"] = "up" /\ at["main"] = 0
          /\ "main" \in Task /\ "sup" \in Task /\ "main" # "sup"
          /\ UNCHANGED <<current, link, goal, overlapped, late>>
      BY <2>0, <2>10, Tasks DEF Exit, clientVars, Phase
    <3>2. CASE pc["sup"] = "discard"
      BY <2>0, <2>10, <3>1, <3>2 DEF Exit, Cancelled, Releases, Phase, PlaceInv, LifeInv
    <3>3. CASE pc["sup"] # "discard"
      <4>1. /\ pc' = [pc EXCEPT !["main"] = "reap", !["sup"] = "ended"]
            /\ at' = [at EXCEPT !["sup"] = 0]
            /\ abandoned' = (abandoned \/ pc["sup"] = "join")
        BY <2>10, <3>3 DEF Exit, Cancelled
      <4>2. /\ pc'["main"] = "reap" /\ at'["main"] = 0 /\ pc'["sup"] = "ended" /\ at'["sup"] = 0
            /\ \A u \in Task \ {"main", "sup"} : pc'[u] = pc[u] /\ at'[u] = at[u]
        BY <2>0, <3>1, <4>1 DEF PlaceInv, LifeInv
      <4> QED
        BY <2>0, <3>1, <4>1, <4>2 DEF Releases, Phase
    <3> QED
      BY <3>2, <3>3
  <2>11. ASSUME UNCHANGED vars PROVE Releases
    BY <2>11 DEF Releases, vars, clientVars, taskVars, historyVars
  <2>12. ASSUME NEW t \in Task, Cancel(t) PROVE Releases
    <3>1. /\ pc' = [pc EXCEPT ![t] = IF t = "sup" THEN "ended" ELSE Raised(t, goal[t])]
          /\ at' = [at EXCEPT ![t] = 0]
          /\ abandoned' = (abandoned \/ pc[t] = "join")
          /\ UNCHANGED <<current, link, goal, overlapped, late>>
      BY <2>12 DEF Cancel, Goto, clientVars
    <3>2. /\ pc'[t] \in {"idle", "ended", "up", "failed"} /\ at'[t] = 0
          /\ \A u \in Task \ {t} : pc'[u] = pc[u] /\ at'[u] = at[u]
      BY <2>0, <3>1, Tasks, Outcomes DEF PlaceInv, LifeInv
    <3> QED
      BY <3>1, <3>2 DEF Releases, Phase
  <2> QED
    BY <2>1, <2>2, <2>3, <2>4, <2>5, <2>6, <2>7, <2>8, <2>9, <2>10, <2>11, <2>12, ReleasesKeepLinks
       DEF Next, Step
<1> QED
  BY <1>1, <1>2, ConnectionTypeCorrect, PTL DEF Spec

\* The type invariant the run checks.
THEOREM ConnectionTypes == Spec => []ConnTypeOK
<1>1. TypeInv => ConnTypeOK
  BY DEF TypeInv
<1> QED
  BY <1>1, ConnectionTypeCorrect, PTL

\* Whatever is lost, refused or cancelled in between, and however many senders
\* reconnect: an open connection that nothing refers to comes only of two
\* connects that overlapped or of a start, a supervisor or a sender that was
\* cancelled in its join, never of a cancellation anywhere else; and a closed
\* runtime whose senders have stopped has no open client.
THEOREM NothingIsLeftOpen == Spec => []NothingLeftOpen
<1>1. LinkInv => NothingLeftOpen
  BY DEF LinkInv
<1> QED
  BY <1>1, LinksAreKept, PTL
-----------------------------------------------------------------------------
(* InboundDelivery                                                          *)

Announced(e) == HasSidecarEvent(events, e, "message")

\* How far the handler has come with its envelope.  Every commit of the handler
\* relies on the commits before it, and the first two on the check that
\* preceded them still being true.
HandlerInv ==
  /\ reader.step \in {"inbox", "event"} =>
       reader.env \in Decryptable /\ ~Announced(reader.env)
  /\ reader.step = "event" => reader.env \in inbox
  /\ reader.step = "cursor" => reader.env \in inbox /\ Announced(reader.env)
  /\ reader.step = "confirm" /\ reader.env \in Decryptable =>
       reader.env \in inbox /\ Announced(reader.env)

\* This handler writes message events only, so the check of HasSidecarEvent sees
\* every event of the envelope.
OnlyMessageEvents == \A i \in DOMAIN events : events[i].type = "message"

DeliveryInv ==
  /\ HandlerInv
  /\ OnlyMessageEvents
  /\ ConfirmedIsDurable
  /\ EventHasInbox
  /\ OneMessageEvent
-----------------------------------------------------------------------------
\* Every variable of the receiving side stays in its type, and a handler at work
\* has an envelope, whatever order deliveries, commits, failures, disconnects
\* and crashes come in.
THEOREM InboundTypeCorrect == InboundSpec => []InboundTypeOK
<1> USE InboundAssumption DEF InboundAssumption
<1>1. InboundInit => InboundTypeOK
  <2> SUFFICES ASSUME InboundInit PROVE InboundTypeOK
    OBVIOUS
  <2>1. events \in Seq(SidecarEvent) /\ frames \in Seq(Envelope)
    BY DEF InboundInit
  <2>2. /\ reader \in [step : ReaderStep, env : Envelope \cup {NoEnvelope}]
        /\ reader.step \in {"inbox", "event", "cursor", "confirm"} => reader.env \in Envelope
    BY DEF InboundInit, At, ReaderStep
  <2>3. /\ inbox = {} /\ receipting = {} /\ confirmed = {}
        /\ lastSeen = NoEnvelope /\ lives \in 0..MaxLife
    BY DEF InboundInit
  <2>4. linked \in BOOLEAN
    BY DEF InboundInit
  <2> QED
    BY <2>1, <2>2, <2>3, <2>4 DEF InboundTypeOK, ReaderStep
<1>2. InboundTypeOK /\ [InboundNext]_inboundVars => InboundTypeOK'
  <2> SUFFICES ASSUME InboundTypeOK, [InboundNext]_inboundVars PROVE InboundTypeOK'
    OBVIOUS
  <2> USE DEF InboundTypeOK, ReaderStep, At
  <2>1. CASE ReadDeliver
    BY <2>1 DEF ReadDeliver, tables
  <2>2. CASE StoreInbox
    BY <2>2 DEF StoreInbox, InsertInboxMessage
  <2>3. CASE StoreEvent
    <3>1. [type |-> "message", env |-> reader.env] \in SidecarEvent
      BY <2>3 DEF StoreEvent, SidecarEvent, EventType
    <3>2. events' \in Seq(SidecarEvent)
      BY <2>3, <3>1 DEF StoreEvent, InsertSidecarEvent
    <3>3. UNCHANGED <<inbox, lastSeen, linked, frames, receipting, confirmed, lives>>
      BY <2>3 DEF StoreEvent
    <3> QED
      BY <2>3, <3>2, <3>3 DEF StoreEvent
  <2>4. CASE StoreCursor
    BY <2>4 DEF StoreCursor
  <2>5. CASE StoreRaises \/ SendReceipt \/ ReaderEnds
    BY <2>5 DEF StoreRaises, SendReceipt, ReaderEnds, tables
  <2>6. CASE Connect
    <3>1. frames' \in Seq(Envelope)
      BY <2>6 DEF Connect
    <3>2. /\ UNCHANGED <<inbox, events, lastSeen, receipting, confirmed>>
          /\ linked' \in BOOLEAN
          /\ lives' \in 0..MaxLife
      BY <2>6 DEF Connect, tables
    <3>3. reader' = At("idle", NoEnvelope)
      BY <2>6 DEF Connect
    <3> QED
      BY <3>1, <3>2, <3>3
  <2>7. CASE SocketCloses \/ CancelReader \/ Crash
    <3>1. UNCHANGED <<tables, frames, receipting, confirmed, lives>> /\ linked' = FALSE
      BY <2>7 DEF SocketCloses, CancelReader, Crash
    <3>2. reader' = reader \/ reader' = At("none", NoEnvelope)
      BY <2>7 DEF SocketCloses, CancelReader, Crash
    <3>3. CASE reader' = reader
      BY <3>1, <3>3 DEF tables
    <3>4. CASE reader' = At("none", NoEnvelope)
      BY <3>1, <3>4 DEF tables
    <3> QED
      BY <3>2, <3>3, <3>4
  <2>8. ASSUME NEW e \in Envelope, RelayDelivers(e) PROVE InboundTypeOK'
    <3>1. frames' \in Seq(Envelope)
      BY <2>8 DEF RelayDelivers
    <3>2. UNCHANGED <<inbox, events, lastSeen, linked, reader, receipting, confirmed, lives>>
      BY <2>8 DEF RelayDelivers, tables
    <3> QED
      BY <3>1, <3>2
  <2>9. ASSUME NEW e \in Envelope, RelayConfirms(e) \/ ReceiptLost(e) PROVE InboundTypeOK'
    BY <2>9 DEF RelayConfirms, ReceiptLost, tables
  <2>10. CASE UNCHANGED inboundVars
    BY <2>10 DEF inboundVars
  <2> QED
    BY <2>1, <2>2, <2>3, <2>4, <2>5, <2>6, <2>7, <2>8, <2>9, <2>10 DEF InboundNext, Reader
<1> QED
  BY <1>1, <1>2, PTL DEF InboundSpec

\* A step that leaves the tables alone keeps what was announced.
LEMMA EventsAreKept ==
  ASSUME NEW e, events' = events
  PROVE  Announced(e)' = Announced(e)
BY DEF Announced, HasSidecarEvent

\* Storing an event announces its envelope and no other, in one new row.
LEMMA EventIsAdded ==
  ASSUME InboundTypeOK, StoreEvent
  PROVE  /\ DOMAIN events' = DOMAIN events \cup {Len(events) + 1}
         /\ \A i \in DOMAIN events : events'[i] = events[i]
         /\ events'[Len(events) + 1] = [type |-> "message", env |-> reader.env]
         /\ \A e : Announced(e)' <=> Announced(e) \/ e = reader.env
<1> DEFINE new == [type |-> "message", env |-> reader.env]
<1>1. /\ events \in Seq(SidecarEvent)
      /\ new \in SidecarEvent
      /\ events' = Append(events, new)
  BY DEF InboundTypeOK, StoreEvent, InsertSidecarEvent, SidecarEvent, EventType
<1>2. /\ DOMAIN events = 1..Len(events)
      /\ DOMAIN events' = DOMAIN events \cup {Len(events) + 1}
      /\ \A i \in DOMAIN events : events'[i] = events[i]
      /\ events'[Len(events) + 1] = new
  BY <1>1
<1>3. ASSUME NEW e PROVE Announced(e)' <=> Announced(e) \/ e = reader.env
  <2>1. Announced(e)' <=> \E i \in DOMAIN events' : events'[i] = [type |-> "message", env |-> e]
    BY DEF Announced, HasSidecarEvent
  <2>2. new = [type |-> "message", env |-> e] <=> e = reader.env
    OBVIOUS
  <2> QED
    BY <1>2, <2>1, <2>2 DEF Announced, HasSidecarEvent
<1> QED
  BY <1>2, <1>3

\* What the handler committed is there for what it does next, and for what it
\* confirms: the invariant the three safety theorems follow from.
THEOREM DeliveryIsSafe == InboundSpec => []DeliveryInv
<1> USE InboundAssumption DEF InboundAssumption
<1>1. InboundInit => DeliveryInv
  BY DEF InboundInit, DeliveryInv, HandlerInv, OnlyMessageEvents, ConfirmedIsDurable, EventHasInbox,
         OneMessageEvent, At
<1>2. InboundTypeOK /\ DeliveryInv /\ [InboundNext]_inboundVars => DeliveryInv'
  <2> SUFFICES ASSUME InboundTypeOK, DeliveryInv, [InboundNext]_inboundVars PROVE DeliveryInv'
    OBVIOUS
  <2>0. /\ HandlerInv /\ OnlyMessageEvents /\ ConfirmedIsDurable
        /\ EventHasInbox /\ OneMessageEvent
        /\ reader \in [step : ReaderStep, env : Envelope \cup {NoEnvelope}]
    BY DEF DeliveryInv, InboundTypeOK
  <2>1. CASE ReadDeliver
    <3> DEFINE e == Head(frames)
    <3>1. UNCHANGED <<inbox, events, receipting, confirmed>>
      BY <2>1 DEF ReadDeliver, tables
    <3>2. reader' = At(IF e \in Decryptable /\ ~Announced(e) THEN "inbox" ELSE "confirm", e)
      BY <2>1 DEF ReadDeliver, Announced
    <3>3. Announced(e) => e \in inbox
      BY <2>0 DEF Announced, HasSidecarEvent, EventHasInbox
    <3>4. \A d : Announced(d)' = Announced(d)
      BY <3>1, EventsAreKept
    <3>5. HandlerInv'
      BY <3>1, <3>2, <3>3, <3>4 DEF HandlerInv, At
    <3> QED
      BY <2>0, <3>1, <3>5 DEF DeliveryInv, OnlyMessageEvents, ConfirmedIsDurable,
                              HasSidecarEvent, EventHasInbox, OneMessageEvent
  <2>2. CASE StoreInbox
    <3>1. /\ UNCHANGED <<events, receipting, confirmed>>
          /\ inbox' = inbox \cup {reader.env}
          /\ reader.step = "inbox"
          /\ reader'.step = "event" /\ reader'.env = reader.env
      BY <2>0, <2>2 DEF StoreInbox, InsertInboxMessage
    <3>2. \A d : Announced(d)' = Announced(d)
      BY <3>1, EventsAreKept
    <3>3. HandlerInv'
      BY <2>0, <3>1, <3>2 DEF HandlerInv
    <3> QED
      BY <2>0, <3>1, <3>3 DEF DeliveryInv, OnlyMessageEvents, ConfirmedIsDurable,
                              HasSidecarEvent, EventHasInbox, OneMessageEvent
  <2>3. CASE StoreEvent
    <3>1. /\ UNCHANGED <<inbox, receipting, confirmed>>
          /\ reader.step = "event"
          /\ reader'.step = "cursor" /\ reader'.env = reader.env
      BY <2>0, <2>3 DEF StoreEvent
    <3>2. /\ reader.env \in inbox
          /\ ~Announced(reader.env)
      BY <2>0, <3>1 DEF HandlerInv
    <3>3. /\ DOMAIN events' = DOMAIN events \cup {Len(events) + 1}
          /\ \A i \in DOMAIN events : events'[i] = events[i]
          /\ events'[Len(events) + 1] = [type |-> "message", env |-> reader.env]
          /\ \A e : Announced(e)' <=> Announced(e) \/ e = reader.env
      BY <2>3, EventIsAdded
    <3>4. HandlerInv'
      BY <3>1, <3>2, <3>3 DEF HandlerInv
    <3>5. OnlyMessageEvents' /\ EventHasInbox'
      BY <2>0, <3>1, <3>2, <3>3 DEF OnlyMessageEvents, EventHasInbox
    <3>6. ConfirmedIsDurable'
      BY <2>0, <3>1, <3>3 DEF ConfirmedIsDurable, Announced
    <3>7. OneMessageEvent'
      <4>1. \A i \in DOMAIN events : events'[i] # events'[Len(events) + 1]
        BY <3>2, <3>3 DEF Announced, HasSidecarEvent
      <4> QED
        BY <2>0, <3>3, <4>1 DEF OneMessageEvent
    <3> QED
      BY <3>4, <3>5, <3>6, <3>7 DEF DeliveryInv
  <2>4. CASE SendReceipt
    <3>1. /\ UNCHANGED <<inbox, events, confirmed>>
          /\ receipting' \subseteq receipting \cup {reader.env}
          /\ reader.step = "confirm"
          /\ reader'.step \in {"await", "dead"}
      BY <2>4 DEF SendReceipt, tables, At
    <3>2. reader.env \in Decryptable => reader.env \in inbox /\ Announced(reader.env)
      BY <2>0, <3>1 DEF HandlerInv
    <3>3. ConfirmedIsDurable'
      BY <2>0, <3>1, <3>2 DEF ConfirmedIsDurable, Announced, HasSidecarEvent
    <3> QED
      BY <2>0, <3>1, <3>3 DEF DeliveryInv, HandlerInv, OnlyMessageEvents, HasSidecarEvent,
                              EventHasInbox, OneMessageEvent
  <2>5. CASE \/ StoreCursor \/ StoreRaises \/ ReaderEnds
             \/ Connect \/ SocketCloses \/ CancelReader \/ Crash
             \/ (\E e \in Envelope : RelayDelivers(e) \/ RelayConfirms(e) \/ ReceiptLost(e))
             \/ UNCHANGED inboundVars
    <3>1. /\ UNCHANGED <<inbox, events>>
          /\ receipting' \cup confirmed' \subseteq receipting \cup confirmed
      BY <2>5 DEF StoreCursor, StoreRaises, ReaderEnds, Connect, SocketCloses, CancelReader, Crash,
                  RelayDelivers, RelayConfirms, ReceiptLost, inboundVars, tables
    <3>2. \/ reader' = reader
          \/ reader'.step \in {"none", "idle", "dead"}
          \/ reader.step = "cursor" /\ reader'.step = "confirm" /\ reader'.env = reader.env
      BY <2>0, <2>5 DEF StoreCursor, StoreRaises, ReaderEnds, Connect, SocketCloses, CancelReader,
                  Crash, RelayDelivers, RelayConfirms, ReceiptLost, inboundVars, At
    <3>3. \A d : Announced(d)' = Announced(d)
      BY <3>1, EventsAreKept
    <3>4. HandlerInv'
      BY <2>0, <3>1, <3>2, <3>3 DEF HandlerInv
    <3> QED
      BY <2>0, <3>1, <3>4 DEF DeliveryInv, OnlyMessageEvents, ConfirmedIsDurable,
                              HasSidecarEvent, EventHasInbox, OneMessageEvent
  <2> QED
    BY <2>1, <2>2, <2>3, <2>4, <2>5 DEF InboundNext, Reader
<1> QED
  BY <1>1, <1>2, InboundTypeCorrect, PTL DEF InboundSpec

\* Whatever the relay holds as delivered, or is about to, is stored and
\* announced here: a crash between any two commits of the handler, or a failed
\* one, loses no confirmed message.
THEOREM ConfirmedMessagesAreDurable == InboundSpec => []ConfirmedIsDurable
<1>1. DeliveryInv => ConfirmedIsDurable
  BY DEF DeliveryInv
<1> QED
  BY <1>1, DeliveryIsSafe, PTL

\* No local client is told of a message whose inbox row was never written.
THEOREM EventsHaveTheirMessage == InboundSpec => []EventHasInbox
<1>1. DeliveryInv => EventHasInbox
  BY DEF DeliveryInv
<1> QED
  BY <1>1, DeliveryIsSafe, PTL

\* Redelivery after a lost receipt, a reconnect or a crash never adds a second
\* event for an envelope.
THEOREM MessagesAreAnnouncedOnce == InboundSpec => []OneMessageEvent
<1>1. DeliveryInv => OneMessageEvent
  BY DEF DeliveryInv
<1> QED
  BY <1>1, DeliveryIsSafe, PTL
=============================================================================
