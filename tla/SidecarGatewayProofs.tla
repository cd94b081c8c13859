------------------------- MODULE SidecarGatewayProofs -------------------------
(***************************************************************************)
(* Theorems of SidecarGateway, for every set of sidecars, clients, sources *)
(* of settings and tokens, and every bound: nothing changes but on behalf  *)
(* of someone entitled to ask, and a client that shares its source of the  *)
(* token with a sidecar is served.                                         *)
(***************************************************************************)
EXTENDS SidecarGateway, TLAPS

\* How one setting is resolved: command line, environment, file, default.
Resolve(k, cli, e, file) ==
  IF k \in DOMAIN cli THEN cli[k]
  ELSE IF k \in DOMAIN e /\ e[k] # "" THEN e[k]
  ELSE IF k \in DOMAIN file THEN file[k]
  ELSE Defaults[k]

\* Every setting comes from the first source that gives it, whatever else the
\* sources hold; the two switches are read as Booleans.
LEMMA ResolvedSettings ==
  ASSUME NEW cli, NEW e, NEW file
  PROVE  LET settings == ResolveSidecarConfig(cli, e, file)
         IN  /\ \A k \in Supported \ {"allow_remote_bind", "no_auth"} :
                  settings[k] = Resolve(k, cli, e, file)
             /\ \A k \in {"allow_remote_bind", "no_auth"} :
                  settings[k] = BoolValue(Resolve(k, cli, e, file))
<1> DEFINE third == Over(CoerceFileValues(file), Defaults)
<1> DEFINE second == Over(EnvValues(e), third)
<1> DEFINE values == Over(cli, second)
<1>0. /\ {"allow_remote_bind", "no_auth"} \subseteq Supported
      /\ Supported = DOMAIN Defaults
  BY DEF Supported, Defaults
<1>1. /\ DOMAIN EnvValues(e) = {k \in DOMAIN e \cap Supported : e[k] # ""}
      /\ \A k \in DOMAIN EnvValues(e) : EnvValues(e)[k] = e[k]
  BY DEF EnvValues
<1>2. /\ DOMAIN CoerceFileValues(file) = DOMAIN file \cap Supported
      /\ \A k \in DOMAIN CoerceFileValues(file) : CoerceFileValues(file)[k] = file[k]
  BY DEF CoerceFileValues
<1>3. /\ Supported \subseteq DOMAIN values
      /\ \A k \in Supported : values[k] = Resolve(k, cli, e, file)
  <2>1. /\ DOMAIN third = Supported
        /\ \A k \in Supported : third[k] = IF k \in DOMAIN file THEN file[k] ELSE Defaults[k]
    BY <1>0, <1>2 DEF Over
  <2> HIDE DEF third
  <2>2. /\ DOMAIN second = Supported
        /\ \A k \in Supported : second[k] = IF k \in DOMAIN e /\ e[k] # "" THEN e[k] ELSE third[k]
    BY <1>1, <2>1 DEF Over
  <2> HIDE DEF second
  <2>3. /\ Supported \subseteq DOMAIN values
        /\ \A k \in Supported : values[k] = IF k \in DOMAIN cli THEN cli[k] ELSE second[k]
    BY <2>2 DEF Over
  <2> QED
    BY <2>1, <2>2, <2>3 DEF Resolve
<1>4. ResolveSidecarConfig(cli, e, file) =
        [values EXCEPT !.allow_remote_bind = BoolValue(@), !.no_auth = BoolValue(@)]
  BY DEF ResolveSidecarConfig
<1> HIDE DEF values
<1> DEFINE settings == ResolveSidecarConfig(cli, e, file)
<1>5. /\ \A k \in Supported \ {"allow_remote_bind", "no_auth"} : settings[k] = values[k]
      /\ \A k \in {"allow_remote_bind", "no_auth"} : settings[k] = BoolValue(values[k])
  <2>1. ASSUME NEW k \in Supported \ {"allow_remote_bind", "no_auth"} PROVE settings[k] = values[k]
    BY <1>0, <1>3, <1>4
  <2>2. settings["allow_remote_bind"] = BoolValue(values["allow_remote_bind"])
    BY <1>0, <1>3, <1>4
  <2>3. settings["no_auth"] = BoolValue(values["no_auth"])
    BY <1>0, <1>3, <1>4
  <2> QED
    BY <2>1, <2>2, <2>3
<1> HIDE DEF settings
<1>6. \A k \in {"allow_remote_bind", "no_auth"} : settings[k] = BoolValue(Resolve(k, cli, e, file))
  BY <1>0, <1>3, <1>5
<1>7. \A k \in Supported \ {"allow_remote_bind", "no_auth"} : settings[k] = Resolve(k, cli, e, file)
  BY <1>3, <1>5
<1> QED
  BY <1>6, <1>7 DEF settings
-----------------------------------------------------------------------------
WritesToken(p) == pc[p] \in {"create", "write"}

\* A sidecar that runs passed the checks of its settings, and its middlewares
\* check by those settings.
SettingsInv ==
  /\ DOMAIN config = Sidecar /\ DOMAIN fresh = Sidecar /\ DOMAIN security = Sidecar
  /\ \A p \in Sidecar :
       pc[p] # "down" => /\ config[p].no_auth \in BOOLEAN
                         /\ Validated(config[p])
                         /\ GivenToken(config[p], env) \in GivenTokens \cup {""}
  /\ \A p \in Sidecar :
       pc[p] = "up" => security[p] = Security(config[p], env, security[p].token)

GatewayInv == GatewayTypeOK /\ SettingsInv

\* Tokens that were given, to a sidecar or to a client, are the ones they use.
GivenInv ==
  /\ \A p \in Sidecar :
       pc[p] = "up" /\ ~config[p].no_auth /\ GivenToken(config[p], env) # "" =>
         security[p].token = Strip(GivenToken(config[p], env))
  /\ \A p \in Sidecar : WritesToken(p) => GivenToken(config[p], env) = ""
  /\ \A c \in LocalClient :
       bearer[c] # "unborn" /\ c \notin fromFile =>
         /\ Variable(env, "token") # ""
         /\ bearer[c] = Strip(Variable(env, "token"))
  /\ \A c \in fromFile : Variable(env, "token") = ""

\* While no two sidecars write at once, the file has no token as long as one
\* writes, so a token that was read from it, or that a sidecar serves with, stays
\* the one it holds.
FileInv ==
  ~overlapped =>
    /\ \A p, q \in Sidecar : WritesToken(p) /\ WritesToken(q) => p = q
    /\ \A p \in Sidecar : WritesToken(p) => tokenFile \in {"absent", ""}
    /\ \A c \in fromFile : bearer[c] # "" => bearer[c] = tokenFile /\ tokenFile \in Generated
    /\ \A p \in Sidecar :
         pc[p] = "up" /\ ~config[p].no_auth /\ GivenToken(config[p], env) = "" =>
           security[p].token = tokenFile /\ tokenFile \in Generated
-----------------------------------------------------------------------------
\* A token that is taken from the settings or from the environment is one the
\* operator gave.
LEMMA TokensAreGiven ==
  ASSUME NEW e \in EnvChoice
  PROVE  /\ Variable(e, "token") \in GivenTokens \cup {""}
         /\ \A cli \in CliChoice, file \in FileChoice :
              /\ GivenToken(ResolveSidecarConfig(cli, e, file), e) \in GivenTokens \cup {""}
              /\ ResolveSidecarConfig(cli, e, file).no_auth \in BOOLEAN
<1>1. \A x \in CliChoice \cup EnvChoice \cup FileChoice :
        "token" \in DOMAIN x => x["token"] \in GivenTokens
  BY DEF GivenTokens
<1>2. Variable(e, "token") \in GivenTokens \cup {""}
  BY <1>1 DEF Variable
<1>3. ASSUME NEW cli \in CliChoice, NEW file \in FileChoice
      PROVE  /\ GivenToken(ResolveSidecarConfig(cli, e, file), e) \in GivenTokens \cup {""}
             /\ ResolveSidecarConfig(cli, e, file).no_auth \in BOOLEAN
  <2> DEFINE resolved == ResolveSidecarConfig(cli, e, file)
  <2>1. /\ "token" \in Supported \ {"allow_remote_bind", "no_auth"}
        /\ Defaults["token"] = ""
    BY DEF Supported, Defaults
  <2>2. /\ resolved["token"] = Resolve("token", cli, e, file)
        /\ resolved["no_auth"] = BoolValue(Resolve("no_auth", cli, e, file))
    BY <2>1, ResolvedSettings
  <2> HIDE DEF resolved
  <2>3. resolved["token"] \in GivenTokens \cup {""}
    BY <1>1, <2>1, <2>2 DEF Resolve
  <2>4. GivenToken(resolved, e) \in GivenTokens \cup {""}
    BY <1>2, <2>3 DEF GivenToken
  <2>5. resolved.no_auth \in BOOLEAN
    BY <2>2 DEF BoolValue
  <2> QED
    BY <2>4, <2>5 DEF resolved
<1> QED
  BY <1>2, <1>3

\* What is read from the token file is a generated token, or nothing.
LEMMA FileIsRead ==
  ASSUME GatewayTypeOK
  PROVE  /\ ReadSidecarTokenFile \in used \cup {""}
         /\ ReadSidecarTokenFile # "" => ReadSidecarTokenFile = tokenFile /\ tokenFile \in Generated
         /\ ReadSidecarTokenFile = "" <=> tokenFile \in {"absent", ""}
<1>1. /\ tokenFile \in {"absent", ""} \cup used
      /\ used \subseteq Generated
      /\ \A t \in used : t \notin {"absent", "", " "}
  BY GatewayAssumption DEF GatewayTypeOK
<1> QED
  BY <1>1 DEF ReadSidecarTokenFile, Strip
-----------------------------------------------------------------------------
(* The parts of GatewayTypeOK, by the variables they are about.             *)

SidecarsOK ==
  /\ pc \in [Sidecar -> {"down", "token", "create", "write", "up"}]
  /\ \A p \in Sidecar : /\ pc[p] \in {"create", "write"} <=> fresh[p] # ""
                        /\ fresh[p] \in used \cup {""}
                        /\ IF pc[p] = "up" THEN security[p].token \in Token
                           ELSE security[p] = NoSecurity

ClientsOK ==
  /\ bearer \in [LocalClient -> Token \cup {"unborn"}]
  /\ fromFile \subseteq LocalClient

SharedOK ==
  /\ env \in EnvChoice
  /\ tokenFile \in {"absent", ""} \cup used
  /\ route \in Route \cup {StartRoute, "none"}
  /\ used \subseteq Generated

CountsOK == sends \in 0..MaxSend /\ starts \in 0..MaxStart

HistoryOK == {overlapped, authorised} \subseteq BOOLEAN

\* The parts make the whole.
LEMMA TypeParts ==
  GatewayTypeOK <=> SidecarsOK /\ ClientsOK /\ SharedOK /\ CountsOK /\ HistoryOK
BY DEF GatewayTypeOK, SidecarsOK, ClientsOK, SharedOK, CountsOK, HistoryOK

\* The counters stay within their bounds, the environment stays as it is and the
\* history variables stay Boolean.
LEMMA CountsStay ==
  ASSUME GatewayTypeOK, [Next]_vars
  PROVE  CountsOK' /\ HistoryOK' /\ env' = env
<1> USE DEF Next, vars, durable, historyVars, Start, ResolveToken, CreateTokenFile, WriteTokenFile,
            Stop, Send, DeclareRoute, FromEnv
<1>1. env' = env
  OBVIOUS
<1>2. CountsOK'
  <2>1. sends \in 0..MaxSend /\ starts \in 0..MaxStart
    BY DEF GatewayTypeOK
  <2>2. sends' = sends \/ (sends < MaxSend /\ sends' = sends + 1)
    OBVIOUS
  <2>3. starts' = starts \/ (starts < MaxStart /\ starts' = starts + 1)
    OBVIOUS
  <2>4. MaxStart \in Nat /\ MaxSend \in Nat
    BY GatewayAssumption
  <2> QED
    BY ONLY <2>1, <2>2, <2>3, <2>4 DEF CountsOK
<1>3. HistoryOK'
  <2>1. overlapped \in BOOLEAN /\ authorised \in BOOLEAN
    BY DEF GatewayTypeOK
  <2>2. overlapped' \in BOOLEAN
    BY <2>1 DEF Generate
  <2>3. \A p \in Sidecar : \A r : MayAsk(p, r) \in BOOLEAN
    BY DEF MayAsk
  <2>4. authorised' \in BOOLEAN
    BY <2>1, <2>3 DEF Posted
  <2> QED
    BY <2>2, <2>4 DEF HistoryOK
<1> QED
  BY <1>1, <1>2, <1>3

\* A sidecar that goes up with a token that is known checks by its settings.
LEMMA ServeKeeps ==
  ASSUME GatewayInv, NEW p \in Sidecar, pc[p] # "down", NEW token \in Token, Serve(p, token),
         used' = used, env' = env, config' = config
  PROVE  SidecarsOK' /\ SettingsInv'
<1>1. /\ SidecarsOK /\ SettingsInv
  BY TypeParts DEF GatewayInv
<1>2. security'[p] = Security(config[p], env, token) /\ security'[p].token = token
  BY <1>1 DEF Serve, Security, SettingsInv
<1>3. /\ pc'[p] = "up" /\ fresh'[p] = ""
      /\ \A q \in Sidecar \ {p} :
           pc'[q] = pc[q] /\ fresh'[q] = fresh[q] /\ security'[q] = security[q]
  BY <1>1 DEF Serve, SidecarsOK, SettingsInv
<1>4. /\ pc' \in [Sidecar -> {"down", "token", "create", "write", "up"}]
      /\ DOMAIN fresh' = Sidecar /\ DOMAIN security' = Sidecar
  BY <1>1 DEF Serve, SidecarsOK, SettingsInv
<1>5. SidecarsOK'
  BY <1>1, <1>2, <1>3, <1>4 DEF SidecarsOK, Token, NoSecurity, NoConfig
<1>6. SettingsInv'
  BY <1>1, <1>2, <1>3, <1>4 DEF SettingsInv
<1> QED
  BY <1>5, <1>6

\* Every variable of the gateway stays in its type, a sidecar that does not serve
\* holds no security, and one that serves checks by the settings it was started
\* with, over stops, crashes and restarts under other settings.
THEOREM GatewayTypeCorrect == Spec => []GatewayInv
<1>1. Init => GatewayInv
  <2> SUFFICES ASSUME Init PROVE GatewayInv
    OBVIOUS
  <2>1. SidecarsOK /\ SettingsInv
    BY DEF Init, SidecarsOK, SettingsInv
  <2>2. ClientsOK
    BY DEF Init, ClientsOK
  <2>3. SharedOK
    BY DEF Init, SharedOK
  <2>4. CountsOK
    <3>1. sends = 0 /\ starts = 0
      BY DEF Init
    <3>2. MaxStart \in Nat /\ MaxSend \in Nat
      BY GatewayAssumption
    <3> QED
      BY ONLY <3>1, <3>2 DEF CountsOK
  <2>5. HistoryOK
    BY DEF Init, HistoryOK
  <2> QED
    BY <2>1, <2>2, <2>3, <2>4, <2>5, TypeParts DEF GatewayInv
<1>2. GatewayInv /\ [Next]_vars => GatewayInv'
  <2> SUFFICES ASSUME GatewayInv, [Next]_vars PROVE SidecarsOK' /\ SettingsInv' /\ ClientsOK' /\ SharedOK'
    BY CountsStay DEF GatewayInv, GatewayTypeOK, SidecarsOK, ClientsOK, SharedOK, CountsOK, HistoryOK
  <2>0. /\ SidecarsOK /\ SettingsInv /\ ClientsOK /\ SharedOK /\ GatewayTypeOK
        /\ env' = env
    BY TypeParts, CountsStay DEF GatewayInv
  <2>1. ASSUME NEW p \in Sidecar, Start(p) PROVE SidecarsOK' /\ SettingsInv' /\ ClientsOK' /\ SharedOK'
    <3>1. PICK cli \in CliChoice, file \in FileChoice :
            /\ Validated(ResolveSidecarConfig(cli, env, file))
            /\ config' = [config EXCEPT ![p] = ResolveSidecarConfig(cli, env, file)]
      BY <2>1 DEF Start
    <3>2. /\ ResolveSidecarConfig(cli, env, file).no_auth \in BOOLEAN
          /\ GivenToken(ResolveSidecarConfig(cli, env, file), env) \in GivenTokens \cup {""}
      BY <2>0, TokensAreGiven DEF SharedOK
    <3>3. /\ pc[p] = "down" /\ pc' = [pc EXCEPT ![p] = "token"]
          /\ route' = StartRoute
          /\ UNCHANGED <<tokenFile, fresh, security, bearer, fromFile, used>>
      BY <2>1 DEF Start, clientVars
    <3>4. SidecarsOK' /\ ClientsOK' /\ SharedOK'
      BY <2>0, <3>3 DEF SidecarsOK, ClientsOK, SharedOK
    <3>5. SettingsInv'
      BY <2>0, <3>1, <3>2, <3>3 DEF SettingsInv, SidecarsOK
    <3> QED
      BY <3>4, <3>5
  <2>2. ASSUME NEW p \in Sidecar, ResolveToken(p)
        PROVE  SidecarsOK' /\ SettingsInv' /\ ClientsOK' /\ SharedOK'
    <3>1. /\ pc[p] = "token"
          /\ UNCHANGED <<env, tokenFile, route, config, bearer, fromFile>>
      BY <2>2 DEF ResolveToken, durable, clientVars
    <3>2. CASE Generate(p)
      <4>1. PICK token \in Generated \ used :
              /\ used' = used \cup {token}
              /\ fresh' = [fresh EXCEPT ![p] = token]
              /\ pc' = [pc EXCEPT ![p] = "create"]
              /\ security' = security
        BY <3>2 DEF Generate
      <4>2. token # ""
        BY GatewayAssumption
      <4> QED
        BY <2>0, <3>1, <4>1, <4>2 DEF SidecarsOK, SettingsInv, ClientsOK, SharedOK
    <3>3. CASE ~Generate(p)
      <4>1. PICK token \in {"", Strip(GivenToken(config[p], env)), ReadSidecarTokenFile} :
              Serve(p, token) /\ used' = used
        BY <2>2, <3>3 DEF ResolveToken
      <4>2. token \in Token
        BY <2>0, <3>1, <4>1, FileIsRead DEF Token, Strip, SettingsInv, SharedOK
      <4>3. SidecarsOK' /\ SettingsInv'
        BY <3>1, <4>1, <4>2, ServeKeeps
      <4> QED
        BY <2>0, <3>1, <4>1, <4>3 DEF ClientsOK, SharedOK
    <3> QED
      BY <3>2, <3>3
  <2>3. ASSUME NEW p \in Sidecar, CreateTokenFile(p)
        PROVE  SidecarsOK' /\ SettingsInv' /\ ClientsOK' /\ SharedOK'
    <3>1. /\ pc[p] = "create" /\ pc' = [pc EXCEPT ![p] = "write"] /\ tokenFile' = ""
          /\ UNCHANGED <<route, config, fresh, security, bearer, fromFile, used>>
      BY <2>3 DEF CreateTokenFile, clientVars, historyVars
    <3> QED
      BY <2>0, <3>1 DEF SidecarsOK, SettingsInv, ClientsOK, SharedOK
  <2>4. ASSUME NEW p \in Sidecar, WriteTokenFile(p)
        PROVE  SidecarsOK' /\ SettingsInv' /\ ClientsOK' /\ SharedOK'
    <3>1. /\ pc[p] = "write" /\ tokenFile' = fresh[p] /\ Serve(p, fresh[p])
          /\ UNCHANGED <<route, config, bearer, fromFile, used>>
      BY <2>4 DEF WriteTokenFile, clientVars, historyVars
    <3>2. fresh[p] \in used /\ fresh[p] \in Token
      BY <2>0, <3>1 DEF SidecarsOK, SharedOK, Token
    <3>3. SidecarsOK' /\ SettingsInv'
      BY <2>0, <3>1, <3>2, ServeKeeps
    <3> QED
      BY <2>0, <3>1, <3>2, <3>3 DEF ClientsOK, SharedOK
  <2>5. ASSUME NEW p \in Sidecar, Stop(p)
        PROVE  SidecarsOK' /\ SettingsInv' /\ ClientsOK' /\ SharedOK'
    <3>1. /\ pc' = [pc EXCEPT ![p] = "down"] /\ config' = [config EXCEPT ![p] = NoConfig]
          /\ fresh' = [fresh EXCEPT ![p] = ""]
          /\ security' = [security EXCEPT ![p] = NoSecurity]
          /\ UNCHANGED <<tokenFile, route, bearer, fromFile, used>>
      BY <2>5 DEF Stop, durable, clientVars, historyVars
    <3>2. SidecarsOK' /\ ClientsOK' /\ SharedOK'
      BY <2>0, <3>1 DEF SidecarsOK, SettingsInv, ClientsOK, SharedOK
    <3>3. SettingsInv'
      BY <2>0, <3>1 DEF SidecarsOK, SettingsInv
    <3> QED
      BY <3>2, <3>3
  <2>6. ASSUME NEW p \in Sidecar, Send(p) \/ DeclareRoute(p)
        PROVE  SidecarsOK' /\ SettingsInv' /\ ClientsOK' /\ SharedOK'
    <3>1. /\ route' = route \/ route' \in Route
          /\ UNCHANGED <<tokenFile, pc, config, fresh, security, bearer, fromFile, used>>
      BY <2>6 DEF Send, DeclareRoute, durable, sidecarVars, clientVars
    <3> QED
      BY <2>0, <3>1 DEF SidecarsOK, SettingsInv, ClientsOK, SharedOK
  <2>7. ASSUME NEW c \in LocalClient, FromEnv(c)
        PROVE  SidecarsOK' /\ SettingsInv' /\ ClientsOK' /\ SharedOK'
    <3>1. /\ UNCHANGED <<tokenFile, route, pc, config, fresh, security, used>>
          /\ fromFile' \subseteq fromFile \cup {c}
      BY <2>7 DEF FromEnv, durable, sidecarVars, historyVars
    <3>2. PICK token \in {Strip(Variable(env, "token")), ReadSidecarTokenFile} :
            bearer' = [bearer EXCEPT ![c] = token]
      BY <2>7 DEF FromEnv
    <3>3. token \in Token
      BY <2>0, <3>2, FileIsRead, TokensAreGiven DEF Token, Strip, SharedOK
    <3>4. ClientsOK'
      BY <2>0, <3>1, <3>2, <3>3 DEF ClientsOK
    <3> QED
      BY <2>0, <3>1, <3>4 DEF SidecarsOK, SettingsInv, SharedOK
  <2>8. CASE UNCHANGED vars
    BY <2>0, <2>8 DEF vars, durable, sidecarVars, clientVars, historyVars, SidecarsOK, SettingsInv,
                      ClientsOK, SharedOK
  <2> QED
    BY <2>1, <2>2, <2>3, <2>4, <2>5, <2>6, <2>7, <2>8 DEF Next
<1> QED
  BY <1>1, <1>2, PTL DEF Spec

\* The type invariant the run checks.
THEOREM GatewayTypes == Spec => []GatewayTypeOK
<1>1. GatewayInv => GatewayTypeOK
  BY DEF GatewayInv
<1> QED
  BY <1>1, GatewayTypeCorrect, PTL
-----------------------------------------------------------------------------
\* A sidecar that serves asks for authentication unless its settings say no_auth.
LEMMA EnabledBySettings ==
  ASSUME GatewayInv, NEW p \in Sidecar, pc[p] = "up"
  PROVE  /\ config[p].no_auth \in BOOLEAN
         /\ security[p].auth_enabled = ~config[p].no_auth
<1>1. /\ security[p] = Security(config[p], env, security[p].token)
      /\ config[p].no_auth \in BOOLEAN
  BY DEF GatewayInv, SettingsInv
<1>2. Security(config[p], env, security[p].token).auth_enabled = ~config[p].no_auth
  BY DEF Security
<1> QED
  BY <1>1, <1>2, Zenon

\* A POST that passes both middlewares of a sidecar is one its settings allow.
LEMMA OnlyTheAuthorisedPost ==
  ASSUME GatewayInv, NEW p \in Sidecar, NEW path \in {"/send", "/route"}, Posted(p, path)
  PROVE  authorised'
<1>1. PICK r \in Request(path) :
        r.method = "POST" /\ ReachesHandler(security[p], r) /\ authorised' = MayAsk(p, r)
  BY DEF Posted
<1>2. r.path = path
  BY DEF Request
<1>3. /\ config[p].no_auth \in BOOLEAN
      /\ security[p].auth_enabled = ~config[p].no_auth
      /\ config[p].no_auth => config[p].host = "loopback"
  BY EnabledBySettings DEF Posted, GatewayInv, SettingsInv, Validated, IsLocalhost
<1>4. Authorized(security[p], r) /\ path # "/health"
  BY <1>1 DEF ReachesHandler
<1>5. MayAsk(p, r)
  BY <1>2, <1>3, <1>4 DEF MayAsk, Authorized, TokenMatches, VerifySignedRequest
<1> QED
  BY <1>1, <1>5

\* No request changes the route or sends a message unless it carries what the
\* settings of the sidecar that serves it ask for; without authentication that
\* is a request from this machine, because such settings are refused for any
\* other host.
THEOREM OnlyAuthorisedChanges == Spec => ChangesAreAuthorised
<1>1. GatewayInv /\ [Next]_vars => [(sends' # sends \/ route' # route) => authorised']_vars
  <2> SUFFICES ASSUME GatewayInv, Next, sends' # sends \/ route' # route PROVE authorised'
    OBVIOUS
  <2>1. CASE \E p \in Sidecar : Start(p)
    BY <2>1 DEF Start
  <2>2. CASE \E p \in Sidecar : Send(p) \/ DeclareRoute(p)
    BY <2>2, OnlyTheAuthorisedPost DEF Send, DeclareRoute
  <2>3. CASE \/ \E p \in Sidecar : \/ ResolveToken(p) \/ CreateTokenFile(p) \/ WriteTokenFile(p)
                                   \/ Stop(p)
             \/ \E c \in LocalClient : FromEnv(c)
    BY <2>3 DEF ResolveToken, CreateTokenFile, WriteTokenFile, Stop, FromEnv, durable
  <2> QED
    BY <2>1, <2>2, <2>3 DEF Next
<1> QED
  BY <1>1, GatewayTypeCorrect, PTL DEF Spec, ChangesAreAuthorised
-----------------------------------------------------------------------------
\* The steps of the gateway, sorted by what they do to tokens.
LEMMA TokenSteps ==
  ASSUME GatewayInv, [Next]_vars
  PROVE  \/ \E p \in Sidecar : Start(p) \/ Stop(p) \/ ResolveToken(p) \/ CreateTokenFile(p)
                              \/ WriteTokenFile(p)
         \/ \E c \in LocalClient : FromEnv(c)
         \/ UNCHANGED <<tokenFile, pc, config, fresh, security, bearer, fromFile, overlapped>>
BY DEF Next, vars, durable, sidecarVars, clientVars, historyVars, Send, DeclareRoute

\* A sidecar that starts or stops serves nobody, and takes nothing from others.
LEMMA StartOrStop ==
  ASSUME GatewayInv, NEW p \in Sidecar, Start(p) \/ Stop(p)
  PROVE  /\ pc'[p] \in {"down", "token"}
         /\ \A q \in Sidecar \ {p} : pc'[q] = pc[q] /\ config'[q] = config[q] /\ security'[q] = security[q]
         /\ UNCHANGED <<env, tokenFile, bearer, fromFile, overlapped>>
BY DEF GatewayInv, GatewayTypeOK, SettingsInv, Start, Stop, durable, clientVars, historyVars

\* What a sidecar that finds its token serves with.
LEMMA ServesFound ==
  ASSUME GatewayInv, NEW p \in Sidecar, pc[p] # "down", NEW token, Serve(p, token), UNCHANGED config
  PROVE  /\ pc'[p] = "up" /\ security'[p].token = token
         /\ \A q \in Sidecar \ {p} : pc'[q] = pc[q] /\ config'[q] = config[q] /\ security'[q] = security[q]
BY DEF GatewayInv, GatewayTypeOK, SettingsInv, Serve, Security

\* The token a sidecar comes to by its settings, or by its file.
LEMMA ResolveCases ==
  ASSUME GatewayInv, NEW p \in Sidecar, ResolveToken(p)
  PROVE  /\ pc[p] = "token"
         /\ UNCHANGED <<env, tokenFile, config, bearer, fromFile>>
         /\ \/ /\ Generate(p)
               /\ GivenToken(config[p], env) = "" /\ ReadSidecarTokenFile = ""
            \/ /\ UNCHANGED overlapped
               /\ \E token : /\ Serve(p, token)
                             /\ ~config[p].no_auth =>
                                  IF GivenToken(config[p], env) # ""
                                  THEN token = Strip(GivenToken(config[p], env))
                                  ELSE token = ReadSidecarTokenFile /\ token # ""
BY DEF ResolveToken, durable, clientVars

\* Given tokens are what they were, and the token file keeps its token.
THEOREM TokensAgree == Spec => [](GivenInv /\ FileInv)
<1>1. Init => GivenInv /\ FileInv
  BY DEF Init, GivenInv, FileInv, WritesToken
<1>2. GatewayInv /\ GivenInv /\ FileInv /\ [Next]_vars => GivenInv' /\ FileInv'
  <2> SUFFICES ASSUME GatewayInv, GivenInv, FileInv, [Next]_vars PROVE GivenInv' /\ FileInv'
    OBVIOUS
  <2>0. /\ env' = env
        /\ pc \in [Sidecar -> {"down", "token", "create", "write", "up"}]
        /\ bearer \in [LocalClient -> Token \cup {"unborn"}]
        /\ fromFile \subseteq LocalClient
        /\ GatewayTypeOK
    BY CountsStay DEF GatewayInv, GatewayTypeOK
  <2>1. ASSUME NEW p \in Sidecar, Start(p) \/ Stop(p) PROVE GivenInv' /\ FileInv'
    <3>1. /\ pc'[p] \in {"down", "token"}
          /\ \A q \in Sidecar \ {p} : pc'[q] = pc[q] /\ config'[q] = config[q] /\ security'[q] = security[q]
          /\ UNCHANGED <<env, tokenFile, bearer, fromFile, overlapped>>
      BY <2>1, StartOrStop
    <3>2. GivenInv'
      BY <3>1 DEF GivenInv, WritesToken
    <3>3. FileInv'
      BY <3>1 DEF FileInv, WritesToken
    <3> QED
      BY <3>2, <3>3
  <2>2. ASSUME NEW p \in Sidecar, ResolveToken(p) PROVE GivenInv' /\ FileInv'
    <3>1. pc[p] = "token" /\ UNCHANGED <<env, tokenFile, config, bearer, fromFile>>
      BY <2>2, ResolveCases
    <3>2. CASE Generate(p) /\ GivenToken(config[p], env) = "" /\ ReadSidecarTokenFile = ""
      <4>1. /\ pc' = [pc EXCEPT ![p] = "create"] /\ security' = security
            /\ overlapped' = (overlapped \/ \E q \in Sidecar \ {p} : pc[q] \in {"create", "write"})
        BY <3>2 DEF Generate
      <4>2. tokenFile \in {"absent", ""}
        BY <2>0, <3>2, FileIsRead
      <4>3. GivenInv'
        BY <2>0, <3>1, <3>2, <4>1 DEF GivenInv, WritesToken
      <4>4. FileInv'
        BY <2>0, <3>1, <4>1, <4>2 DEF FileInv, WritesToken
      <4> QED
        BY <4>3, <4>4
    <3>3. CASE /\ UNCHANGED overlapped
               /\ \E token : /\ Serve(p, token)
                             /\ ~config[p].no_auth =>
                                  IF GivenToken(config[p], env) # ""
                                  THEN token = Strip(GivenToken(config[p], env))
                                  ELSE token = ReadSidecarTokenFile /\ token # ""
      <4>1. PICK token : /\ Serve(p, token)
                         /\ ~config[p].no_auth =>
                              IF GivenToken(config[p], env) # ""
                              THEN token = Strip(GivenToken(config[p], env))
                              ELSE token = ReadSidecarTokenFile /\ token # ""
        BY <3>3
      <4>2. /\ pc'[p] = "up" /\ security'[p].token = token
            /\ \A q \in Sidecar \ {p} : pc'[q] = pc[q] /\ config'[q] = config[q] /\ security'[q] = security[q]
        BY <3>1, <4>1, ServesFound
      <4>3. GivenInv'
        BY <3>1, <4>1, <4>2 DEF GivenInv, WritesToken
      <4>4. token = ReadSidecarTokenFile /\ token # "" => token = tokenFile /\ tokenFile \in Generated
        BY <2>0, FileIsRead
      <4>5. FileInv'
        BY <3>1, <3>3, <4>1, <4>2, <4>4 DEF FileInv, WritesToken
      <4> QED
        BY <4>3, <4>5
    <3> QED
      BY <2>2, <3>2, <3>3, ResolveCases
  <2>3. ASSUME NEW p \in Sidecar, CreateTokenFile(p) PROVE GivenInv' /\ FileInv'
    <3>1. /\ pc[p] = "create" /\ pc' = [pc EXCEPT ![p] = "write"] /\ tokenFile' = ""
          /\ UNCHANGED <<env, config, security, bearer, fromFile, overlapped>>
      BY <2>3 DEF CreateTokenFile, clientVars, historyVars
    <3>2. GivenInv'
      BY <2>0, <3>1 DEF GivenInv, WritesToken
    <3>3. ~overlapped => tokenFile \in {"absent", ""} /\ tokenFile \notin Generated
      BY <3>1, GatewayAssumption DEF FileInv, WritesToken
    <3>4. FileInv'
      BY <2>0, <3>1, <3>3 DEF FileInv, WritesToken
    <3> QED
      BY <3>2, <3>4
  <2>4. ASSUME NEW p \in Sidecar, WriteTokenFile(p) PROVE GivenInv' /\ FileInv'
    <3>1. /\ pc[p] = "write" /\ tokenFile' = fresh[p] /\ Serve(p, fresh[p])
          /\ UNCHANGED <<env, config, bearer, fromFile, overlapped>>
      BY <2>4 DEF WriteTokenFile, clientVars, historyVars
    <3>2. fresh[p] \in Generated
      BY <2>0, <3>1 DEF GatewayTypeOK
    <3>3. /\ pc'[p] = "up" /\ security'[p].token = fresh[p]
          /\ \A q \in Sidecar \ {p} : pc'[q] = pc[q] /\ config'[q] = config[q] /\ security'[q] = security[q]
      BY <3>1, ServesFound
    <3>4. GivenInv'
      BY <3>1, <3>3 DEF GivenInv, WritesToken
    <3>5. ~overlapped => tokenFile \in {"absent", ""} /\ tokenFile \notin Generated
      BY <3>1, GatewayAssumption DEF FileInv, WritesToken
    <3>6. FileInv'
      BY <3>1, <3>2, <3>3, <3>5 DEF FileInv, WritesToken
    <3> QED
      BY <3>4, <3>6
  <2>5. ASSUME NEW c \in LocalClient, FromEnv(c) PROVE GivenInv' /\ FileInv'
    <3>1. UNCHANGED <<env, tokenFile, pc, config, security, overlapped>>
      BY <2>5 DEF FromEnv, durable, sidecarVars, historyVars
    <3>2. CASE Variable(env, "token") # ""
      <4>1. fromFile' = fromFile /\ bearer' = [bearer EXCEPT ![c] = Strip(Variable(env, "token"))]
        BY <2>5, <3>2 DEF FromEnv
      <4>2. c \notin fromFile
        BY <3>2 DEF GivenInv
      <4> QED
        BY <2>0, <3>1, <3>2, <4>1, <4>2 DEF GivenInv, FileInv, WritesToken
    <3>3. CASE Variable(env, "token") = ""
      <4>1. fromFile' = fromFile \cup {c} /\ bearer' = [bearer EXCEPT ![c] = ReadSidecarTokenFile]
        BY <2>5, <3>3 DEF FromEnv
      <4>2. ReadSidecarTokenFile # "" => ReadSidecarTokenFile = tokenFile /\ tokenFile \in Generated
        BY <2>0, FileIsRead
      <4>3. GivenInv'
        BY <2>0, <3>1, <3>3, <4>1 DEF GivenInv, WritesToken
      <4>4. FileInv'
        BY <2>0, <3>1, <4>1, <4>2 DEF FileInv, WritesToken
      <4> QED
        BY <4>3, <4>4
    <3> QED
      BY <3>2, <3>3
  <2>6. CASE UNCHANGED <<tokenFile, pc, config, fresh, security, bearer, fromFile, overlapped>>
    BY <2>0, <2>6 DEF GivenInv, FileInv, WritesToken
  <2> QED
    BY <2>1, <2>2, <2>3, <2>4, <2>5, <2>6, TokenSteps
<1> QED
  BY <1>1, <1>2, GatewayTypeCorrect, PTL DEF Spec

\* A client that from_env gave a token is let in by every sidecar that takes its
\* token from the same source, whatever starts, stops, crashes and second
\* sidecars there were, as long as no two wrote the token file at once.
THEOREM ClientsAreServed == Spec => []ClientIsServed
<1>1. GatewayInv /\ GivenInv /\ FileInv => ClientIsServed
  <2> SUFFICES ASSUME GatewayInv, GivenInv, FileInv, NEW c \in LocalClient, NEW p \in Sidecar,
                      pc[p] = "up", SameSource(c, p)
               PROVE  ReachesHandler(security[p], StatusRequest(c))
    BY DEF ClientIsServed
  <2> DEFINE r == StatusRequest(c)
  <2>1. /\ r.origin = "" /\ r.method = "GET" /\ r.bearer = bearer[c]
        /\ bearer[c] # "" /\ bearer[c] # "unborn"
        /\ security[p].signed_request_secret = ""
    BY DEF StatusRequest, SameSource
  <2>2. /\ config[p].no_auth \in BOOLEAN
        /\ security[p].auth_enabled = ~config[p].no_auth
    BY EnabledBySettings
  <2>3. ~config[p].no_auth => security[p].token = bearer[c]
    <3>1. CASE c \in fromFile
      BY <2>1, <3>1 DEF SameSource, FileInv
    <3>2. CASE c \notin fromFile
      <4>1. /\ Variable(env, "token") # ""
            /\ bearer[c] = Strip(Variable(env, "token"))
        BY <2>1, <3>2 DEF GivenInv
      <4>2. Variable(env, "token") = env["token"]
        BY <4>1 DEF Variable
      <4>3. GivenToken(config[p], env) = Variable(env, "token")
        BY <3>2, <4>2 DEF SameSource, GivenToken
      <4> QED
        BY <4>1, <4>3 DEF GivenInv
    <3> QED
      BY <3>1, <3>2
  <2> HIDE DEF r
  <2>4. ReachesHandler(security[p], r)
    BY <2>1, <2>2, <2>3 DEF ReachesHandler, OriginAllowed, Authorized, TokenMatches
  <2> QED
    BY <2>4 DEF r
<1> QED
  BY <1>1, GatewayTypeCorrect, TokensAgree, PTL
=============================================================================
