---------------------------- MODULE RouteRecord ----------------------------
(***************************************************************************)
(* Route metadata of a DID document: how declare_route and                 *)
(* declare_capabilities merge a request into the PlenipoAgent service      *)
(* (plenipo/identity/route.py, capabilities.py, route_defaults.py).        *)
(*                                                                         *)
(* A value that may be absent is a set of at most one element.  A list of  *)
(* names is the set of its members.  A payment is its price only: model    *)
(* and schemes have one supported value each, and so has the encryption    *)
(* (the reference to its key is left out).                                 *)
(*                                                                         *)
(* document : an optional service                                          *)
(* service  : [caps, protocols, payment, limits, alg], each optional;      *)
(*            a payment is [price], limits are [kb, ttl], each optional;   *)
(*            an empty object counts as absent                             *)
(* route    : [caps, protocols, price, kb, ttl, alg], all present          *)
(***************************************************************************)
EXTENDS Integers

CONSTANTS
  Capability,   \* names of capabilities
  DefaultCaps   \* ['general', 'mcp'], what a new document declares

ASSUME RouteAssumption == DefaultCaps \subseteq Capability

None    == {}
Some(v) == {v}

\* x, or y when x is absent (or, in Python, falsy)
Else(x, y) == IF x = None THEN y ELSE CHOOSE v \in x : TRUE

SupportedProtocols == {"plenipo.message.v1"}
EncryptionAlg == "x25519-xsalsa20poly1305"
MaxPricePerKb == 1000

Defaults == [caps |-> DefaultCaps, protocols |-> SupportedProtocols, price |-> 1,
             kb |-> 256, ttl |-> 86400, alg |-> EncryptionAlg]

NoPrice  == [price |-> None]
NoLimits == [kb |-> None, ttl |-> None]

\* An empty list counts as not given.
Given(list) == list \ {{}}

\* normalize_route, of a service's fields or of a request merged with them.
\* An empty list of protocols counts as absent.
NormalizeRoute(raw) ==
  LET payment == Else(raw.payment, NoPrice)
      limits  == Else(raw.limits, NoLimits)
  IN  [caps      |-> Else(raw.caps, Defaults.caps),
       protocols |-> Else(Given(raw.protocols), Defaults.protocols),
       price     |-> Else(payment.price, Defaults.price),
       kb        |-> Else(limits.kb, Defaults.kb),
       ttl       |-> Else(limits.ttl, Defaults.ttl),
       alg       |-> Else(raw.alg, Defaults.alg)]

\* validate_route
ValidRoute(route) ==
  /\ route.protocols \subseteq SupportedProtocols
  /\ route.price \in 0..MaxPricePerKb
  /\ route.kb \in 1..1024
  /\ route.ttl \in 1..604800
  /\ route.alg = EncryptionAlg

\* route_from_document raises when the service has no list of capabilities:
\* the default of dict.get does not replace a None.
Readable(document) == \A service \in document : service.caps # None

RouteFromDocument(document) ==
  IF document = None THEN Defaults ELSE NormalizeRoute(CHOOSE s \in document : TRUE)

\* route_to_did_service_patch: the service is completed or added.
PatchService(route) ==
  Some([caps |-> Some(route.caps), protocols |-> Some(route.protocols),
        payment |-> Some([price |-> Some(route.price)]), alg |-> Some(route.alg),
        limits |-> Some([kb |-> Some(route.kb), ttl |-> Some(route.ttl)])])

MergedRoute_BUG_resets_limits(document, args, replace) ==
  LET existing == IF replace THEN Defaults ELSE RouteFromDocument(document)
      raw == [caps      |-> Some(Else(Given(args.caps), existing.caps)),
              protocols |-> Some(Else(Given(args.protocols), existing.protocols)),
              payment   |-> Some(Else(args.payment, [price |-> Some(existing.price)])),
              limits    |-> args.limits,
              alg       |-> Some(existing.alg)]
  IN  NormalizeRoute(raw)

\* declare_route before it saves: what is given replaces the whole field, what
\* is not given stays, and `replace' starts from the defaults.
MergedRoute(document, args, replace) ==
  LET existing == IF replace THEN Defaults ELSE RouteFromDocument(document)
      raw == [caps      |-> Some(Else(Given(args.caps), existing.caps)),
              protocols |-> Some(Else(Given(args.protocols), existing.protocols)),
              payment   |-> Some(Else(args.payment, [price |-> Some(existing.price)])),
              limits    |-> Some(Else(args.limits, [kb |-> Some(existing.kb),
                                                    ttl |-> Some(existing.ttl)])),
              alg       |-> Some(existing.alg)]
  IN  NormalizeRoute(raw)

\* declare_route goes on to save and sync; otherwise it raises.
Declarable(document, args, replace) ==
  /\ replace \/ Readable(document)
  /\ ValidRoute(MergedRoute(document, args, replace))

DeclareRoute(document, args, replace) == PatchService(MergedRoute(document, args, replace))

\* _update_document_capabilities; a service that is added has nothing else.
DeclareCapabilities(document, caps, replace) ==
  LET empty   == [caps |-> None, protocols |-> None, payment |-> None,
                  limits |-> None, alg |-> None]
      service == Else(document, empty)
  IN  Some([service EXCEPT !.caps =
              Some(IF replace THEN caps ELSE caps \cup Else(service.caps, {}))])

\* _document_has_route
HasRoute(document) == \E s \in document : Given(s.protocols) # None
=============================================================================
