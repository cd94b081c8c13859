--------------------------- MODULE SidecarGateway ---------------------------
(***************************************************************************)
(* Sidecars of one user: start, token file, restarts, the requests that    *)
(* change something, and the clients of PlenipoSidecarClient.from_env      *)
(* (plenipo/sidecar/server.py, auth.py, middleware.py, api.py, client.py). *)
(*                                                                         *)
(* The sidecars share the home directory: the token file and identity.json *)
(* with its route.  The environment is one for all.  A sidecar writes its  *)
(* token file in two steps, between which others run or it dies.  The      *)
(* route a handler declares is written in one step (Identity takes that    *)
(* apart); requests that only read change nothing and appear only in       *)
(* ClientIsServed.                                                         *)
(***************************************************************************)
EXTENDS SidecarConfig, Naturals

CONSTANTS
  Sidecar,
  LocalClient,   \* programs that create a client with from_env
  CliChoice, EnvChoice, FileChoice, \* settings the operator may give
  Generated,     \* what generate_sidecar_token may return, each once
  Route,         \* routes a request may declare
  StartRoute,    \* what a start declares: its settings, with default prices
  MaxStart,      \* bound: starts
  MaxSend        \* bound: messages sent

GivenTokens == {s["token"] : s \in {x \in CliChoice \cup EnvChoice \cup FileChoice : "token" \in DOMAIN x}}

ASSUME GatewayAssumption ==
  /\ StartRoute \notin Route
  /\ MaxStart \in Nat /\ MaxSend \in Nat
  /\ Generated \cap (GivenTokens \cup {"", " ", "absent", "unborn", "guess"}) = {}

VARIABLES
  env,        \* the environment variables
  tokenFile,  \* contents of sidecar-token; "absent"
  route,      \* of identity.json; "none" before the first start
  sends,      \* calls of runtime.send
  pc, config, fresh, security, \* of each sidecar; fresh: a token to be written
  bearer,     \* the token each client was created with; "unborn"
  fromFile,   \* history: clients that read it from the file
  used,       \* history: tokens that were generated
  overlapped, \* history: two sidecars were about to write the token file
  authorised, \* history: whether who asked for the last change was let in by right
  starts

durable == <<tokenFile, route>>
sidecarVars == <<pc, config, fresh, security>>
clientVars == <<bearer, fromFile>>
historyVars == <<used, overlapped, authorised>>
vars == <<env, durable, sends, sidecarVars, clientVars, historyVars, starts>>

NoConfig == [Defaults EXCEPT !.allow_remote_bind = FALSE, !.no_auth = FALSE]
NoSecurity == Security(NoConfig, <<>>, "")
Token == Generated \cup GivenTokens \cup {""}

GatewayTypeOK ==
  /\ env \in EnvChoice
  /\ tokenFile \in {"absent", ""} \cup used
  /\ route \in Route \cup {StartRoute, "none"}
  /\ sends \in 0..MaxSend /\ starts \in 0..MaxStart
  /\ pc \in [Sidecar -> {"down", "token", "create", "write", "up"}]
  /\ \A p \in Sidecar : /\ pc[p] \in {"create", "write"} <=> fresh[p] # ""
                        /\ fresh[p] \in used \cup {""}
                        /\ IF pc[p] = "up" THEN security[p].token \in Token
                           ELSE security[p] = NoSecurity
  /\ bearer \in [LocalClient -> Token \cup {"unborn"}]
  /\ fromFile \subseteq LocalClient /\ used \subseteq Generated
  /\ {overlapped, authorised} \subseteq BOOLEAN

Init ==
  /\ env \in EnvChoice
  /\ tokenFile = "absent" /\ route = "none" /\ sends = 0
  /\ pc = [p \in Sidecar |-> "down"]
  /\ config = [p \in Sidecar |-> NoConfig] /\ fresh = [p \in Sidecar |-> ""]
  /\ security = [p \in Sidecar |-> NoSecurity]
  /\ bearer = [c \in LocalClient |-> "unborn"] /\ fromFile = {}
  /\ used = {} /\ overlapped = FALSE /\ authorised = TRUE
  /\ starts = 0
-----------------------------------------------------------------------------
(* Start and end of a sidecar                                               *)

\* Settings that are refused change nothing.  Whatever route was declared, the
\* start declares its own.
Start(p) ==
  /\ pc[p] = "down" /\ starts < MaxStart
  /\ \E cli \in CliChoice, file \in FileChoice :
       LET resolved == ResolveSidecarConfig(cli, env, file)
       IN  Validated(resolved) /\ config' = [config EXCEPT ![p] = resolved]
  /\ route' = StartRoute
  /\ authorised' = TRUE
  /\ pc' = [pc EXCEPT ![p] = "token"]
  /\ starts' = starts + 1
  /\ UNCHANGED <<env, tokenFile, sends, fresh, security, clientVars, used, overlapped>>

Serve(p, token) ==
  /\ pc' = [pc EXCEPT ![p] = "up"]
  /\ fresh' = [fresh EXCEPT ![p] = ""]
  /\ security' = [security EXCEPT ![p] = Security(config[p], env, token)]

ReadSidecarTokenFile == IF tokenFile = "absent" THEN "" ELSE Strip(tokenFile)

Generate(p) ==
  \E token \in Generated \ used :
    /\ used' = used \cup {token}
    /\ fresh' = [fresh EXCEPT ![p] = token]
    /\ pc' = [pc EXCEPT ![p] = "create"]
    /\ overlapped' = (overlapped \/ \E q \in Sidecar \ {p} : pc[q] \in {"create", "write"})
    /\ UNCHANGED security

\* resolve_sidecar_token: none without authentication, the given one stripped,
\* the file's, or a new one.
ResolveToken_BUG_file_ignored(p) ==
  /\ pc[p] = "token"
  /\ LET given == GivenToken(config[p], env)
     IN  \/ /\ config[p].no_auth \/ given # ""
            /\ Serve(p, IF config[p].no_auth THEN "" ELSE Strip(given))
            /\ UNCHANGED <<used, overlapped>>
         \/ ~config[p].no_auth /\ given = "" /\ Generate(p)
  /\ UNCHANGED <<env, durable, sends, config, clientVars, authorised, starts>>

ResolveToken(p) ==
  /\ pc[p] = "token"
  /\ LET given == GivenToken(config[p], env)
         found == IF config[p].no_auth THEN ""
                  ELSE IF given # "" THEN Strip(given) ELSE ReadSidecarTokenFile
     IN  IF config[p].no_auth \/ given # "" \/ found # ""
         THEN Serve(p, found) /\ UNCHANGED <<used, overlapped>>
         ELSE Generate(p)
  /\ UNCHANGED <<env, durable, sends, config, clientVars, authorised, starts>>

\* write_text: the file is created or emptied, then filled.
CreateTokenFile(p) ==
  /\ pc[p] = "create"
  /\ tokenFile' = ""
  /\ pc' = [pc EXCEPT ![p] = "write"]
  /\ UNCHANGED <<env, route, sends, config, fresh, security, clientVars, historyVars, starts>>

WriteTokenFile(p) ==
  /\ pc[p] = "write"
  /\ tokenFile' = fresh[p]
  /\ Serve(p, fresh[p])
  /\ UNCHANGED <<env, route, sends, config, clientVars, historyVars, starts>>

\* Shutdown, or a crash at any point.
Stop_BUG_keeps_security(p) ==
  /\ pc[p] # "down"
  /\ pc' = [pc EXCEPT ![p] = "down"]
  /\ config' = [config EXCEPT ![p] = NoConfig]
  /\ fresh' = [fresh EXCEPT ![p] = ""]
  /\ UNCHANGED <<env, durable, sends, security, clientVars, historyVars, starts>>

Stop(p) ==
  /\ pc[p] # "down"
  /\ pc' = [pc EXCEPT ![p] = "down"]
  /\ config' = [config EXCEPT ![p] = NoConfig]
  /\ fresh' = [fresh EXCEPT ![p] = ""]
  /\ security' = [security EXCEPT ![p] = NoSecurity]
  /\ UNCHANGED <<env, durable, sends, clientVars, historyVars, starts>>
-----------------------------------------------------------------------------
(* Clients and requests                                                     *)

\* from_env: the token is read once and kept in the headers.
FromEnv(c) ==
  /\ bearer[c] = "unborn"
  /\ LET variable == Variable(env, "token")
     IN  /\ bearer' = [bearer EXCEPT ![c] = IF variable # "" THEN Strip(variable)
                                            ELSE ReadSidecarTokenFile]
         /\ fromFile' = IF variable = "" THEN fromFile \cup {c} ELSE fromFile
  /\ UNCHANGED <<env, durable, sends, sidecarVars, historyVars, starts>>

\* Requests from anywhere, with any of the tokens and secrets there are.
Request(path) ==
  [path : {path}, method : {"POST", "OPTIONS"},
   origin : {"", "elsewhere"} \cup {config[p].allowed_origins : p \in Sidecar},
   bearer : {"", "guess"} \cup {bearer[c] : c \in LocalClient},
   signature : {""} \cup {security[p].signed_request_secret : p \in Sidecar}]

\* Who may ask, by the README: a request with the bearer token and, where a
\* secret is set, the signature; anyone on this machine without authentication.
MayAsk(p, r) ==
  IF config[p].no_auth THEN config[p].host = "loopback"
  ELSE /\ r.bearer = security[p].token /\ r.bearer # ""
       /\ security[p].signed_request_secret \in {"", r.signature}

\* A request to a route that only a POST reaches, behind both middlewares.
Posted(p, path) ==
  /\ pc[p] = "up"
  /\ \E r \in Request(path) : /\ r.method = "POST" /\ ReachesHandler(security[p], r)
                              /\ authorised' = MayAsk(p, r)

\* A body that is not usable gets 400 and changes nothing; what the runtime
\* raises becomes 502.
Send(p) ==
  /\ sends < MaxSend
  /\ Posted(p, "/send")
  /\ sends' = sends + 1
  /\ UNCHANGED <<env, durable, sidecarVars, clientVars, used, overlapped, starts>>

\* A body that is no JSON object declares the present route again; a value that
\* does not validate raises before anything is written.
DeclareRoute(p) ==
  /\ Posted(p, "/route")
  /\ route' \in Route
  /\ UNCHANGED <<env, tokenFile, sends, sidecarVars, clientVars, used, overlapped, starts>>
-----------------------------------------------------------------------------
Next ==
  \/ \E p \in Sidecar : \/ Start(p) \/ ResolveToken(p) \/ CreateTokenFile(p)
                        \/ WriteTokenFile(p) \/ Stop(p) \/ Send(p) \/ DeclareRoute(p)
  \/ \E c \in LocalClient : FromEnv(c)

Spec == Init /\ [][Next]_vars
-----------------------------------------------------------------------------
(* Correctness                                                              *)

\* Nothing is sent and no route declared but by the start of a sidecar or by a
\* request that carries the token, and the signature where one is required, of
\* the sidecar that serves it, or comes from this machine to a sidecar without
\* authentication: whatever the sources of the settings say, and over restarts
\* under other settings.
ChangesAreAuthorised == [][(sends' # sends \/ route' # route) => authorised']_vars

\* A client that from_env gave a token of the file is let in by every sidecar
\* that takes its token from the file, over stops, crashes and restarts, unless
\* two sidecars started together without a file; and one that has its token
\* from the environment by every sidecar whose settings do not give another.
\* Neither client signs its requests.
StatusRequest(c) ==
  [path |-> "/status", method |-> "GET", origin |-> "", bearer |-> bearer[c],
   signature |-> ""]

SameSource(c, p) ==
  /\ bearer[c] \notin {"unborn", ""}
  /\ security[p].signed_request_secret = ""
  /\ IF c \in fromFile THEN GivenToken(config[p], env) = "" /\ ~overlapped
     ELSE config[p].token \in {"", env["token"]}

ClientIsServed ==
  \A c \in LocalClient, p \in Sidecar :
    pc[p] = "up" /\ SameSource(c, p) => ReachesHandler(security[p], StatusRequest(c))
=============================================================================
