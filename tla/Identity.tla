------------------------------ MODULE Identity ------------------------------
(***************************************************************************)
(* ~/.plenipo/identity.json and its registration with Core                 *)
(* (plenipo/identity/{store,provision,sync,register,route,capabilities}.py,*)
(* the identity tools of plenipo/mcp/server.py, POST /route of the sidecar *)
(* and PlenipoAgentRuntime.ensure_ready).                                  *)
(*                                                                         *)
(* A task is a process that shares the home directory with the others: an  *)
(* MCP server, a sidecar, a command.  Two coroutines of one process are    *)
(* the same with fewer interleavings.  The file is truncated and filled in *)
(* two steps, and a process may die between any two.  Core answers or      *)
(* drops a request before its time-out of ten seconds.                     *)
(***************************************************************************)
EXTENDS RouteRecord

CONSTANTS
  Task,      \* processes
  Key,       \* key pairs, each with its DID
  EnvKey,    \* the one an environment may name
  EnvCaps,   \* ['general'], what the document made up for it declares
  Request,   \* operations a process may run
  MaxCall,   \* bound: operations started
  MaxCrash   \* bound: processes that die in the middle

ASSUME IdentityAssumption ==
  /\ EnvKey \in Key /\ EnvCaps \subseteq Capability
  /\ {MaxCall, MaxCrash} \subseteq Nat
  /\ \A o \in Request :
       /\ o.args.caps \subseteq SUBSET Capability
       /\ o.kind = "caps" => o.args.caps # None

VARIABLES
  env,         \* tasks started with PLENIPO_DID, a secret and a document URL
  file,        \* identity.json
  core,        \* external: the documents Core hosts
  pc,
  op,          \* the operation a task runs; empty when idle
  rec,         \* the identity it holds; empty before the load
  phase,       \* "ensure" inside ensure_identity, then "main"
  after,       \* what follows the save
  used,        \* external: key pairs drawn so far
  held,        \* history: the last whole record of the file
  stale,       \* history: tasks whose identity another task has saved over
  lost,        \* history: a stale task posted or saved
  raced,       \* history: two tasks created an identity at the same time
  calls,
  crashes

taskVars == <<pc, op, rec, phase, after>>
historyVars == <<held, stale, lost, raced>>
vars == <<env, file, core, taskVars, used, historyVars, calls, crashes>>

FileState == {"absent", "empty", "mangled", "whole"}
TaskState == {"idle", "load", "truncate", "fill", "post", "main"}

\* What an AgentIdentity is to this module; ext is did_document_mode 'external'.
IsIdentity(i) ==
  /\ i.key \in Key
  /\ \A s \in i.doc : \A c \in s.caps : c \subseteq Capability
  /\ {i.pending, i.registered, i.ext} \subseteq BOOLEAN
  /\ i.ext <=> i.key = EnvKey

IdTypeOK ==
  /\ env \subseteq Task
  /\ file.state \in FileState
  /\ (file.state = "whole") <=> (file.rec # None)
  /\ pc \in [Task -> TaskState]
  /\ \A t \in Task : pc[t] = "idle" <=> op[t] = None
  /\ \A t \in Task : pc[t] \in {"idle", "load"} <=> rec[t] = None
  /\ \A i \in file.rec \cup held \cup UNION {rec[t] : t \in Task} : IsIdentity(i)
  /\ phase \in [Task -> {"ensure", "main"}]
  /\ after \in [Task -> {"post", "main", "done"}]
  /\ used \subseteq Key
  /\ stale \subseteq {t \in Task : rec[t] # None}

Init ==
  /\ env \in SUBSET Task
  /\ file = [state |-> "absent", rec |-> None]
  /\ core = [k \in Key |-> None]
  /\ pc = [t \in Task |-> "idle"]
  /\ op = [t \in Task |-> None]
  /\ rec = [t \in Task |-> None]
  /\ phase = [t \in Task |-> "ensure"]
  /\ after = [t \in Task |-> "done"]
  /\ used = {EnvKey}
  /\ held = None
  /\ stale = {}
  /\ lost = FALSE
  /\ raced = FALSE
  /\ calls = 0
  /\ crashes = 0

Only(set) == CHOOSE v \in set : TRUE

EmptyService == [caps |-> None, protocols |-> None, payment |-> None,
                 limits |-> None, alg |-> None]

\* create_did_document, and the document _env_identity_complete makes up.
CreatedDocument == PatchService(Defaults)
EnvDocument == Some([EmptyService EXCEPT !.caps = Some(EnvCaps)])

CreatedIdentity_BUG_external(k) ==
  [key |-> k, doc |-> CreatedDocument, pending |-> FALSE, registered |-> TRUE, ext |-> TRUE]

CreatedIdentity(k) ==
  [key |-> k, doc |-> CreatedDocument, pending |-> TRUE, registered |-> FALSE, ext |-> FALSE]
EnvIdentity ==
  [key |-> EnvKey, doc |-> EnvDocument, pending |-> FALSE, registered |-> TRUE, ext |-> TRUE]

\* ensure_identity syncs these.
NeedsSync(i) == ~i.ext /\ (i.pending \/ ~i.registered)
-----------------------------------------------------------------------------
Goto(t, label) == pc' = [pc EXCEPT ![t] = label]

\* The task begins to save i, and goes on with `label' when that is done.
Save(t, i, label) ==
  /\ rec' = [rec EXCEPT ![t] = Some(i)]
  /\ after' = [after EXCEPT ![t] = label]
  /\ Goto(t, "truncate")

Start(t, o) ==
  /\ pc[t] = "idle"
  /\ calls < MaxCall
  /\ calls' = calls + 1
  /\ Goto(t, "load")
  /\ op' = [op EXCEPT ![t] = Some(o)]
  /\ UNCHANGED <<env, file, core, rec, phase, after, used, historyVars, crashes>>

\* The call ends; it returned, or it raised.
End(t) ==
  /\ Goto(t, "idle")
  /\ op' = [op EXCEPT ![t] = None]
  /\ rec' = [rec EXCEPT ![t] = None]
  /\ phase' = [phase EXCEPT ![t] = "ensure"]
  /\ stale' = stale \ {t}

(* ensure_identity                                                          *)

LoadEnv(t) ==
  /\ pc[t] = "load"
  /\ t \in env
  /\ rec' = [rec EXCEPT ![t] = Some(EnvIdentity)]
  /\ Goto(t, "main")
  /\ UNCHANGED <<env, file, core, op, phase, after, used, historyVars, calls, crashes>>

LoadFile(t) ==
  /\ pc[t] = "load"
  /\ t \notin env
  /\ file.state = "whole"
  /\ rec' = [rec EXCEPT ![t] = file.rec]
  /\ Goto(t, IF NeedsSync(Only(file.rec)) THEN "post" ELSE "main")
  /\ UNCHANGED <<env, file, core, op, phase, after, used, historyVars, calls, crashes>>

\* json.loads raises; the caller sees the error and nothing is written.
LoadUnreadable(t) ==
  /\ pc[t] = "load"
  /\ t \notin env
  /\ file.state \in {"empty", "mangled"}
  /\ End(t)
  /\ UNCHANGED <<env, file, core, after, used, held, lost, raced, calls, crashes>>

NoIdentity_BUG_unreadable == file.state # "whole"

\* load_identity returned None.
NoIdentity == file.state = "absent"

\* create_local_identity
LoadNothing(t, k) ==
  /\ pc[t] = "load"
  /\ t \notin env
  /\ NoIdentity
  /\ k \notin used
  /\ used' = used \cup {k}
  /\ Save(t, CreatedIdentity(k), "post")
  /\ raced' = (raced \/ \E u \in Task \ {t} : pc[u] = "truncate")
  /\ UNCHANGED <<env, file, core, op, phase, held, stale, lost, calls, crashes>>

(* save_identity                                                            *)

Truncate(t) ==
  /\ pc[t] = "truncate"
  /\ file' = [state |-> "empty", rec |-> None]
  /\ Goto(t, "fill")
  /\ stale' = stale \cup {u \in Task \ {t} : rec[u] # None}
  /\ lost' = (lost \/ t \in stale)
  /\ UNCHANGED <<env, core, op, rec, phase, after, used, held, raced, calls, crashes>>

\* The text lands at the start of the file.  Over the text of another task it
\* may leave the end of that text behind.
Written(i) ==
  {[state |-> "whole", rec |-> Some(i)]} \cup
  (IF file.state = "empty" THEN {} ELSE {[state |-> "mangled", rec |-> None]})

\* ensure_ready declares the default route when the document has none.
DefaultRoute ==
  [kind |-> "route", replace |-> FALSE,
   args |-> [caps |-> Some(DefaultCaps), protocols |-> Some(SupportedProtocols),
             payment |-> Some([price |-> Some(Defaults.price)]),
             limits |-> Some([kb |-> Some(Defaults.kb), ttl |-> Some(Defaults.ttl)])]]

\* The operation is over, or ensure_ready goes on to declare a route, for
\* which the identity is loaded again.
Finish(t) ==
  IF Only(op[t]).kind = "ready" /\ ~HasRoute(Only(rec[t]).doc)
  THEN /\ Goto(t, "load")
       /\ op' = [op EXCEPT ![t] = Some(DefaultRoute)]
       /\ rec' = [rec EXCEPT ![t] = None]
       /\ phase' = [phase EXCEPT ![t] = "ensure"]
       /\ stale' = stale \ {t}
  ELSE End(t)

Fill(t) ==
  /\ pc[t] = "fill"
  /\ file' \in Written(Only(rec[t]))
  /\ held' = IF file'.rec = None THEN held ELSE file'.rec
  /\ \/ after[t] = "done" /\ Finish(t)
     \/ after[t] # "done" /\ Goto(t, after[t]) /\ UNCHANGED <<op, rec, phase, stale>>
  /\ after' = [after EXCEPT ![t] = "done"]
  /\ UNCHANGED <<env, core, used, lost, raced, calls, crashes>>

(* sync_identity_with_core                                                  *)

AfterSync(t) == IF phase[t] = "ensure" THEN "main" ELSE "done"

\* A posted identity is saved with what the answer says of it.
Synced(i, ok) == [i EXCEPT !.registered = ok, !.pending = ~ok]

Reach(t) == core' = [core EXCEPT ![Only(rec[t]).key] = Some(Only(rec[t]).doc)]

Posted(t, ok) ==
  /\ Save(t, Synced(Only(rec[t]), ok), AfterSync(t))
  /\ lost' = (lost \/ t \in stale)
  /\ UNCHANGED <<env, file, op, phase, used, held, stale, raced, calls, crashes>>

PostAccepted(t) == pc[t] = "post" /\ Reach(t) /\ Posted(t, TRUE)

\* Core took the document, and the answer did not come or was not JSON.
PostAnswerLost(t) == pc[t] = "post" /\ Reach(t) /\ Posted(t, FALSE)

\* Unreachable, a refused challenge, or a refused document.
PostFailed(t) == pc[t] = "post" /\ UNCHANGED core /\ Posted(t, FALSE)

(* What the operations do with the identity.                                *)

Documents_BUG_resets_limits(i, o) ==
  IF o.kind = "caps" THEN {DeclareCapabilities(i.doc, Only(o.args.caps), o.replace)}
  ELSE {PatchService(NormalizeRoute(
         [caps |-> Some(Else(Given(o.args.caps), RouteFromDocument(i.doc).caps)),
          protocols |-> o.args.protocols, payment |-> o.args.payment,
          limits |-> o.args.limits, alg |-> None]))}

\* The document a declaration saves; none when it raises.
Documents(i, o) ==
  IF o.kind = "caps" THEN {DeclareCapabilities(i.doc, Only(o.args.caps), o.replace)}
  ELSE IF Declarable(i.doc, o.args, o.replace) THEN {DeclareRoute(i.doc, o.args, o.replace)}
  ELSE {}

Declares(o) == o.kind \in {"route", "caps"}

\* plenipo_identity and load_mcp_config want the identity and no more;
\* plenipo_sync_identity leaves an external one alone, ensure_ready does not.
MainReturns(t) ==
  /\ pc[t] = "main"
  /\ LET o == Only(op[t])
         i == Only(rec[t])
     IN  \/ o.kind = "identity"
         \/ o.kind = "sync" /\ i.ext
         \/ Declares(o) /\ Documents(i, o) = {}
  /\ End(t)
  /\ UNCHANGED <<env, file, core, after, used, held, lost, raced, calls, crashes>>

MainSyncs(t) ==
  /\ pc[t] = "main"
  /\ \/ Only(op[t]).kind = "ready"
     \/ Only(op[t]).kind = "sync" /\ ~Only(rec[t]).ext
  /\ phase' = [phase EXCEPT ![t] = "main"]
  /\ Goto(t, "post")
  /\ UNCHANGED <<env, file, core, op, rec, after, used, historyVars, calls, crashes>>

MainDeclares_BUG_posts_first(t) ==
  /\ pc[t] = "main"
  /\ Declares(Only(op[t]))
  /\ \E d \in Documents(Only(rec[t]), Only(op[t])) :
       rec' = [rec EXCEPT ![t] = Some([Only(@) EXCEPT !.doc = d, !.pending = TRUE])]
  /\ phase' = [phase EXCEPT ![t] = "main"]
  /\ Goto(t, "post")
  /\ UNCHANGED <<env, file, core, op, after, used, historyVars, calls, crashes>>

\* declare_route and declare_capabilities: saved as pending, then synced.
MainDeclares(t) ==
  /\ pc[t] = "main"
  /\ Declares(Only(op[t]))
  /\ \E d \in Documents(Only(rec[t]), Only(op[t])) :
       Save(t, [Only(rec[t]) EXCEPT !.doc = d, !.pending = TRUE], "post")
  /\ phase' = [phase EXCEPT ![t] = "main"]
  /\ UNCHANGED <<env, file, core, op, used, historyVars, calls, crashes>>

\* The process dies.
Crash(t) ==
  /\ pc[t] # "idle"
  /\ crashes < MaxCrash
  /\ crashes' = crashes + 1
  /\ End(t)
  /\ after' = [after EXCEPT ![t] = "done"]
  /\ UNCHANGED <<env, file, core, used, held, lost, raced, calls>>

Next ==
  \E t \in Task :
    \/ \E o \in Request : Start(t, o)
    \/ LoadEnv(t) \/ LoadFile(t) \/ LoadUnreadable(t)
    \/ \E k \in Key : LoadNothing(t, k)
    \/ Truncate(t) \/ Fill(t)
    \/ PostAccepted(t) \/ PostAnswerLost(t) \/ PostFailed(t)
    \/ MainReturns(t) \/ MainSyncs(t) \/ MainDeclares(t)
    \/ Crash(t)

Spec == Init /\ [][Next]_vars
-----------------------------------------------------------------------------
(* The secrets exist nowhere but in the file.  Once an identity created here
   is in it, another key pair takes its place only when two processes created
   one at the same time, or when it is the one of an environment (sync.py:56,
   83): no interruption, unreadable file or refused registration makes the
   agent someone else. *)
KeyIsKept ==
  [][\A old \in held, new \in held' :
       old.key # new.key /\ ~old.ext => raced \/ new.ext]_vars

(* An identity that the file calls registered and not pending is one Core
   hosts with that very document, whatever call, answer or process was lost on
   the way, unless a task went on with an identity that another had saved over
   (route.py:189-227, sync.py:34-83). *)
SettledMatchesCore ==
  ~lost => \A i \in file.rec :
    i.registered /\ ~i.pending /\ ~i.ext => core[i.key] = Some(i.doc)

RouteFields == {"caps", "protocols", "price", "kb", "ttl", "alg"}

\* The fields a request may change.
Named(o) ==
  (IF Given(o.args.caps) # None \/ o.replace THEN {"caps"} ELSE {}) \cup
  (IF o.kind = "route" /\ Given(o.args.protocols) # None THEN {"protocols"} ELSE {}) \cup
  (IF o.kind = "route" /\ o.args.payment # None THEN {"price"} ELSE {}) \cup
  (IF o.kind = "route" /\ o.args.limits # None THEN {"kb", "ttl"} ELSE {}) \cup
  (IF o.kind = "route" /\ o.replace THEN RouteFields ELSE {})

\* The fields the operation of a task leaves alone.
Unnamed(t) == RouteFields \ (IF Declares(Only(op[t])) THEN Named(Only(op[t])) ELSE {})

(* What was declared stays declared: a save changes no field of the route that
   its request does not name, unless a task went on with an identity that
   another had saved over, or one of the two is the identity of an environment,
   whose document is made up again for each call (route.py:190-199,
   capabilities.py:26, provision.py:45). *)
DeclaredIsKept ==
  [][\A t \in Task : \A old \in held, new \in held' :
       pc[t] = "fill" /\ pc'[t] # "fill" /\ ~lost /\ ~old.ext /\ ~new.ext =>
         \A f \in Unnamed(t) :
           RouteFromDocument(new.doc)[f] = RouteFromDocument(old.doc)[f]]_vars
=============================================================================
