--------------------------- MODULE AgentConnection ---------------------------
(***************************************************************************)
(* The life of the agent's connection (plenipo/runtime/agent.py): the      *)
(* start in ensure_ready, the supervisor _maintain_connection, senders     *)
(* that reconnect in _ensure_client, disconnect(), and the end in          *)
(* __aexit__ / close().  The sidecar (plenipo/sidecar/server.py) starts    *)
(* and closes the same runtime without a supervisor.                       *)
(*                                                                         *)
(* A task runs from one await to the next.  The link of a client is        *)
(*   none     no socket (any more)                                         *)
(*   open     joined or joining, and its reader reads                      *)
(*   deaf     the reader was cancelled, has ended, or hears nothing: it    *)
(*            waits for the reply to its own receipt, the peer is gone, or *)
(*            the join was refused                                         *)
(*   crashed  the reader died of an exception                              *)
(* How long a back-off lasts is left out.  A sender, the start and close()  *)
(* may be cancelled wherever they wait: a caller's time-out does it.        *)
(***************************************************************************)
EXTENDS Naturals

CONSTANTS
  Sender,     \* tasks that call send()
  MaxClient,  \* clients that something refers to at one time
  MaxMishap   \* bound: links lost, and tasks cancelled but by __aexit__

ASSUME ConnectionAssumption ==
  /\ Sender \cap {"main", "sup"} = {}
  /\ MaxClient \in Nat \ {0} /\ MaxMishap \in Nat

VARIABLES
  supervised, \* `async with' as opposed to the sidecar
  running,    \* _running
  current,    \* _client, 0 for None
  flag,       \* _connected of each client
  link,
  pc,
  goal,       \* what a disconnect() is part of
  at,         \* the client a task disconnects, connects or asks; 0 if none
  overlapped, \* history: two tasks ran _connect_client together
  abandoned,  \* history: a task was cancelled while it joined
  late,       \* history: a sender has joined since close() began
  mishaps

clientVars == <<current, flag, link>>
taskVars == <<pc, goal, at>>
historyVars == <<overlapped, abandoned, late>>
vars == <<supervised, running, clientVars, taskVars, historyVars, mishaps>>

Task == {"main", "sup"} \cup Sender
Client == 1..MaxClient
Phase == {"discard", "shut", "dial", "join", "replay"}

ConnTypeOK ==
  /\ {supervised, running, overlapped, abandoned, late} \subseteq BOOLEAN
  /\ current \in 0..MaxClient
  /\ flag \in [Client -> BOOLEAN]
  /\ link \in [Client -> {"none", "open", "deaf", "crashed"}]
  /\ pc["main"] \in Phase \cup {"up", "reap", "closed", "failed"}
  /\ pc["sup"] \in Phase \cup {"new", "sleep", "backoff", "ended"}
  /\ \A t \in Sender : pc[t] \in Phase \cup {"idle"}
  /\ goal \in [Task -> {"connect", "disconnect", "close"}]
  /\ at \in [Task -> 0..MaxClient]
  /\ \A t \in Task : at[t] # 0 <=> pc[t] \in Phase \ {"dial"}
  /\ running => supervised /\ pc["sup"] # "new"

Init ==
  /\ supervised \in BOOLEAN
  /\ running = FALSE
  /\ current = 0
  /\ flag = [c \in Client |-> FALSE] /\ link = [c \in Client |-> "none"]
  /\ pc = [t \in Task |-> IF t = "main" THEN "dial" ELSE IF t = "sup" THEN "new" ELSE "idle"]
  /\ goal = [t \in Task |-> "connect"] /\ at = [t \in Task |-> 0]
  /\ overlapped = FALSE /\ abandoned = FALSE /\ late = FALSE
  /\ mishaps = 0

LooksDown == current # 0 => ~flag[current]

\* The new client is not self._client before it has joined.
Connecting(t) == pc[t] \in {"discard", "shut", "dial", "join"} /\ goal[t] = "connect"

Closing == goal["main"] = "close"

\* Where a task goes when its _connect_client, its disconnect() or the first
\* line of its _connect_client returns, and where an exception out of it leads.
Resumed(t) == CASE t \in Sender -> "idle"
                [] t = "sup"    -> IF running THEN "sleep" ELSE "ended"
                [] t = "main"   -> "up"

Emptied(g) == CASE g = "connect"    -> "dial"
                [] g = "disconnect" -> "up"
                [] g = "close"      -> "closed"

Raised_BUG_supervisor_ends(t, g) ==
  CASE t \in Sender -> "idle"
    [] t = "sup"    -> "ended"
    [] t = "main"   -> IF g = "disconnect" THEN "up" ELSE "failed"

Raised(t, g) == CASE t \in Sender -> "idle"
                  [] t = "sup"    -> "backoff"
                  [] t = "main"   -> IF g = "disconnect" THEN "up" ELSE "failed"

Goto(t, label, c) ==
  /\ pc' = [pc EXCEPT ![t] = label]
  /\ at' = [at EXCEPT ![t] = c]
-----------------------------------------------------------------------------
(* PlenipoClient.disconnect of self._client, and what calls it              *)

\* Up to the first await: the flag is cleared and the reader cancelled.  What a
\* dead reader died of is raised again each time.
Disconnect(t, g) ==
  /\ goal' = [goal EXCEPT ![t] = g]
  /\ overlapped' = (overlapped \/ (g = "connect" /\ \E u \in Task \ {t} : Connecting(u)))
  /\ flag' = IF current = 0 THEN flag ELSE [flag EXCEPT ![current] = FALSE]
  /\ LET state == IF current = 0 THEN "none" ELSE link[current]
     IN  \/ state = "none" /\ Goto(t, Emptied(g), 0) /\ UNCHANGED link
         \/ state = "crashed" /\ Goto(t, Raised(t, g), 0) /\ UNCHANGED link
         \/ /\ state \in {"open", "deaf"}
            /\ link' = [link EXCEPT ![current] = "deaf"]
            /\ Goto(t, "discard", current)
  /\ UNCHANGED <<current, abandoned, late, mishaps>>

\* The reader has ended.
Discard(t) ==
  /\ pc[t] = "discard"
  /\ Goto(t, "shut", at[t])
  /\ UNCHANGED <<supervised, running, clientVars, goal, historyVars, mishaps>>

\* The socket is closed and the futures of the client fail: a replay that waits
\* for one raises.
Shut(t) ==
  /\ pc[t] = "shut"
  /\ link' = [link EXCEPT ![at[t]] = "none"]
  /\ LET failed == {u \in Task : pc[u] = "replay" /\ at[u] = at[t]}
     IN  /\ pc' = [u \in Task |-> IF u = t THEN Emptied(goal[t])
                                  ELSE IF u \in failed THEN Raised(u, goal[u]) ELSE pc[u]]
         /\ at' = [u \in Task |-> IF u \in failed \cup {t} THEN 0 ELSE at[u]]
  /\ UNCHANGED <<supervised, running, current, flag, goal, historyVars, mishaps>>

\* A call that finds the client down.  After a failed start nobody calls.
EnsureClient(t) ==
  /\ t \in Sender /\ pc[t] = "idle" /\ LooksDown
  /\ pc["main"] \in {"up", "reap"} \/ goal["main"] # "connect"
  /\ Disconnect(t, "connect")
  /\ UNCHANGED <<supervised, running>>

\* disconnect() leaves the supervisor running.
DisconnectCall ==
  /\ pc["main"] = "up"
  /\ Disconnect("main", "disconnect")
  /\ UNCHANGED <<supervised, running>>
-----------------------------------------------------------------------------
(* The rest of _connect_client                                              *)

\* Challenge, socket and the request to join.
Dial(t) ==
  /\ pc[t] = "dial"
  /\ \E c \in Client :
       /\ c # current /\ \A u \in Task : at[u] # c
       /\ \A d \in 1..(c - 1) : d = current \/ \E u \in Task : at[u] = d
       /\ Goto(t, "join", c)
       /\ link' = [link EXCEPT ![c] = "open"]
       /\ flag' = [flag EXCEPT ![c] = FALSE]
  /\ UNCHANGED <<supervised, running, current, goal, historyVars, mishaps>>

DialFails(t) ==
  /\ pc[t] = "dial"
  /\ Goto(t, Raised(t, goal[t]), 0)
  /\ UNCHANGED <<supervised, running, clientVars, goal, historyVars, mishaps>>

\* self._client changes only here; the client there was is forgotten.  A replay
\* after close() finds the store closed and raises.
JoinOK(t) ==
  /\ pc[t] = "join" /\ link[at[t]] = "open"
  /\ current' = at[t]
  /\ flag' = [flag EXCEPT ![at[t]] = TRUE]
  /\ late' = (late \/ (t \in Sender /\ Closing))
  /\ IF pc["main"] = "closed" THEN Goto(t, Raised(t, goal[t]), 0) ELSE Goto(t, "replay", at[t])
  /\ UNCHANGED <<supervised, running, link, goal, overlapped, abandoned, mishaps>>

\* At the end of the start __aenter__ creates the supervisor.
ReplayOK_BUG_always_running(t) ==
  /\ pc[t] = "replay" /\ link[at[t]] = "open" /\ pc["main"] # "closed"
  /\ at' = [at EXCEPT ![t] = 0]
  /\ running' = (running \/ t = "main")
  /\ pc' = [pc EXCEPT ![t] = Resumed(t), !["sup"] = IF t = "main" THEN "sleep"
                                                    ELSE IF t = "sup" THEN Resumed(t) ELSE @]
  /\ UNCHANGED <<supervised, clientVars, goal, historyVars, mishaps>>

ReplayOK(t) ==
  /\ pc[t] = "replay" /\ link[at[t]] = "open" /\ pc["main"] # "closed"
  /\ at' = [at EXCEPT ![t] = 0]
  /\ LET starts == t = "main" /\ supervised
     IN  /\ running' = (running \/ starts)
         /\ pc' = [pc EXCEPT ![t] = Resumed(t), !["sup"] = IF starts THEN "sleep"
                                                           ELSE IF t = "sup" THEN Resumed(t) ELSE @]
  /\ UNCHANGED <<supervised, clientVars, goal, historyVars, mishaps>>

\* The relay answers with an error, or the store is closed.
ReplayFails(t) ==
  /\ pc[t] = "replay" /\ (link[at[t]] = "open" \/ pc["main"] = "closed")
  /\ Goto(t, Raised(t, goal[t]), 0)
  /\ UNCHANGED <<supervised, running, clientVars, goal, historyVars, mishaps>>

\* A socket that closes or breaks, a join that is refused, a reader that waits
\* for the reply to its own receipt or has met the reply to a request that was
\* cancelled.  Nothing tells `connected'.
LinkLost(c) ==
  /\ mishaps < MaxMishap /\ link[c] = "open"
  /\ \E lost \in {"deaf", "crashed"} : link' = [link EXCEPT ![c] = lost]
  /\ mishaps' = mishaps + 1
  /\ UNCHANGED <<supervised, running, current, flag, taskVars, historyVars>>
-----------------------------------------------------------------------------
(* _maintain_connection                                                     *)

\* The second has passed: the body of the loop, then its condition.
Wake ==
  /\ pc["sup"] = "sleep"
  /\ IF LooksDown THEN Disconnect("sup", "connect")
     ELSE /\ pc' = [pc EXCEPT !["sup"] = Resumed("sup")]
          /\ UNCHANGED <<clientVars, goal, at, historyVars, mishaps>>
  /\ UNCHANGED <<supervised, running>>

BackoffEnds ==
  /\ pc["sup"] = "backoff"
  /\ pc' = [pc EXCEPT !["sup"] = Resumed("sup")]
  /\ UNCHANGED <<supervised, running, clientVars, goal, at, historyVars, mishaps>>

\* __aexit__, up to the await of the supervisor.  disconnect() takes the
\* cancellation that reaches it while it waits for the reader for the reader's
\* own, and the supervisor goes on.  The client it was joining is dropped with
\* its socket open.
Cancelled ==
  IF pc["sup"] = "discard" THEN UNCHANGED <<at, abandoned>> /\ pc' = [pc EXCEPT !["main"] = "reap"]
  ELSE /\ pc' = [pc EXCEPT !["main"] = "reap", !["sup"] = "ended"]
       /\ at' = [at EXCEPT !["sup"] = 0]
       /\ abandoned' = (abandoned \/ pc["sup"] = "join")

Exit_BUG_still_running ==
  /\ supervised /\ pc["main"] = "up"
  /\ Cancelled
  /\ UNCHANGED <<supervised, running, clientVars, goal, overlapped, late, mishaps>>

Exit ==
  /\ supervised /\ pc["main"] = "up"
  /\ running' = FALSE
  /\ Cancelled
  /\ UNCHANGED <<supervised, clientVars, goal, overlapped, late, mishaps>>

\* A task is cancelled where it waits, and a cancellation of __aexit__ is passed on
\* to the supervisor it awaits.  Cancelled while it closes a socket, disconnect()
\* does nothing more: no future fails, and the client keeps its closing socket.
\* Waiting for the reader, it swallows the cancellation.
Cancel(t) ==
  /\ IF t = "sup" THEN pc["main"] = "reap" /\ pc[t] \notin {"discard", "ended"}
     ELSE pc[t] \in {"shut", "dial", "join", "replay"}
  /\ Goto(t, IF t = "sup" THEN "ended" ELSE Raised(t, goal[t]), 0)
  /\ abandoned' = (abandoned \/ pc[t] = "join")
  /\ mishaps < MaxMishap /\ mishaps' = mishaps + 1
  /\ UNCHANGED <<supervised, running, clientVars, goal, overlapped, late>>

\* close() once the supervisor is over; the sidecar has none.
Reap_BUG_not_awaited ==
  /\ pc["main"] = IF supervised THEN "reap" ELSE "up"
  /\ Disconnect("main", "close")
  /\ UNCHANGED <<supervised, running>>

Reap ==
  /\ IF supervised THEN pc["main"] = "reap" /\ pc["sup"] = "ended" ELSE pc["main"] = "up"
  /\ Disconnect("main", "close")
  /\ UNCHANGED <<supervised, running>>

-----------------------------------------------------------------------------
Step(t) == Discard(t) \/ Shut(t) \/ Dial(t) \/ DialFails(t) \/ JoinOK(t) \/ ReplayOK(t) \/ ReplayFails(t)

Next ==
  \/ \E t \in Task : Step(t) \/ Cancel(t)
  \/ \E t \in Sender : EnsureClient(t)
  \/ \E c \in Client : LinkLost(c)
  \/ Wake \/ BackoffEnds \/ DisconnectCall \/ Exit \/ Reap

Spec == Init /\ [][Next]_vars

\* The event loop runs every task that is not waiting, and a relay that is asked
\* again and again accepts in the end.
Fairness ==
  /\ \A t \in Task : WF_vars(Step(t)) /\ SF_vars(Dial(t)) /\ SF_vars(JoinOK(t))
  /\ WF_vars(Wake) /\ WF_vars(BackoffEnds)
  /\ WF_vars(Reap /\ supervised)

FairSpec == Spec /\ Fairness
-----------------------------------------------------------------------------
(* Correctness                                                              *)

\* A connection that nothing refers to stays open only if two connects
\* overlapped, or whoever connected (the start, the supervisor, a sender) was
\* cancelled in its join; cancelled anywhere else, it leaves none.  And after
\* close() the client the runtime has is not open unless a sender has connected
\* since: what _connect_client replaces and what close() ends is closed.
Referenced(c) == c = current \/ \E t \in Task : at[t] = c

NothingLeftOpen ==
  /\ ~overlapped /\ ~abandoned => \A c \in Client : link[c] = "open" => Referenced(c)
  /\ pc["main"] = "closed" /\ ~late /\ current # 0 => link[current] = "none"

\* A task that waits in connect() or in the replay for a reader that hears
\* nothing, where nobody is about to close that client.
Hangs(t) ==
  /\ pc[t] \in {"join", "replay"} /\ link[at[t]] # "open"
  /\ \A u \in Task : at[u] = at[t] => pc[u] \notin {"discard", "shut"}

\* A client that looks down is replaced by one that looks up, whatever the
\* relay refuses in between, unless the runtime is closed, the reader died of an
\* exception, which every disconnect() raises again, or the supervisor hangs in
\* a join or a replay that has no time-out.
LossIsRepaired ==
  (running /\ LooksDown)
    ~> (~LooksDown \/ ~running \/ Hangs("sup") \/ (current # 0 /\ link[current] = "crashed"))

\* __aexit__ comes to an end, with the runtime closed or with an exception,
\* unless the cancelled supervisor hangs.
CloseEnds == (pc["main"] = "reap") ~> (pc["main"] \in {"closed", "failed"} \/ Hangs("sup"))

\* The README and the docstring of the runtime: it reconnects automatically.
AgentReconnects ==
  (running /\ current # 0 /\ link[current] # "open")
    ~> (~running \/ (current # 0 /\ link[current] = "open"))
=============================================================================
