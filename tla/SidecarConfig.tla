--------------------------- MODULE SidecarConfig ----------------------------
(***************************************************************************)
(* How the sidecar comes to its settings, its security and its token       *)
(* (plenipo/sidecar/config.py, auth.py and _startup_sidecar).              *)
(*                                                                         *)
(* A source of settings is a function on the settings it has.  A value is  *)
(* a name; a switch is on for "yes" and off for every other; a host is     *)
(* "loopback" or "remote"; " " is a value of white space.  The settings    *)
(* that only reach uvicorn or the route record are left out.               *)
(***************************************************************************)

Defaults == [host |-> "loopback", allow_remote_bind |-> "no", no_auth |-> "no",
             token |-> "", signed_request_secret |-> "", allowed_origins |-> "",
             tls_cert |-> "", tls_key |-> ""]

Supported == DOMAIN Defaults

\* Unknown keys of the file are dropped.
CoerceFileValues(raw) == [k \in DOMAIN raw \cap Supported |-> raw[k]]

\* An empty variable is one that is not set.
EnvValues(env) == [k \in {e \in DOMAIN env \cap Supported : env[e] # ""} |-> env[k]]

Variable(env, k) == IF k \in DOMAIN env THEN env[k] ELSE ""

BoolValue(value) == value = "yes"

Strip(value) == IF value = " " THEN "" ELSE value

\* What f says, and g where f says nothing.
Over(f, g) == [k \in DOMAIN f \cup DOMAIN g |-> IF k \in DOMAIN f THEN f[k] ELSE g[k]]

\* Command line, then environment, then file, then defaults.
ResolveSidecarConfig(cli, env, file) ==
  LET values == Over(cli, Over(EnvValues(env), Over(CoerceFileValues(file), Defaults)))
  IN  [values EXCEPT !.allow_remote_bind = BoolValue(@), !.no_auth = BoolValue(@)]

IsLocalhost(config) == config.host = "loopback"

\* The three checks that refuse to start.
Validated_BUG_no_auth_anywhere(config) ==
  /\ IsLocalhost(config) \/ config.allow_remote_bind
  /\ (config.tls_cert = "") = (config.tls_key = "")

Validated(config) ==
  /\ IsLocalhost(config) \/ config.allow_remote_bind
  /\ config.no_auth => IsLocalhost(config)
  /\ (config.tls_cert = "") = (config.tls_key = "")

\* The token of the settings, or else of the environment, which an empty one on
\* the command line or in the file leaves in force.  "" if there is none.
GivenToken(config, env) ==
  IF config.token # "" THEN config.token ELSE Variable(env, "token")

\* allowed_origins is one origin at most.
Security(config, env, token) ==
  [auth_enabled    |-> ~config.no_auth,
   token           |-> token,
   allowed_origins |-> {config.allowed_origins} \ {""},
   signed_request_secret |-> IF config.signed_request_secret # "" THEN config.signed_request_secret
                             ELSE Variable(env, "signed_request_secret")]
-----------------------------------------------------------------------------
(* A request: method and path, the Origin and the bearer token it carries   *)
(* ("" for none), the secret of its signature, and whether its body is well *)
(* formed.                                                                  *)

OriginAllowed(security, r) == r.origin = "" \/ r.origin \in security.allowed_origins

\* A token that is missing, and one that is blank, match nothing.
TokenMatches(security, bearer) == bearer # "" /\ bearer = security.token

\* The HMAC over method, path, time and body; the five minutes it is good for
\* are left out.
VerifySignedRequest(security, r) == r.signature = security.signed_request_secret

Authorized(security, r) ==
  \/ ~security.auth_enabled \/ r.path = "/health"
  \/ /\ TokenMatches(security, r.bearer)
     /\ security.signed_request_secret # "" => VerifySignedRequest(security, r)

\* CORS comes first; it answers a preflight itself.
ReachesHandler(security, r) ==
  /\ OriginAllowed(security, r)
  /\ ~(r.method = "OPTIONS" /\ r.origin # "")
  /\ Authorized(security, r)
=============================================================================
