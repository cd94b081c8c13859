---------------------------- MODULE IdentityProofs ----------------------------
(***************************************************************************)
(* Theorems of Identity, for every set of processes, key pairs and         *)
(* requests: the file never calls settled what Core does not host, nothing *)
(* makes the agent someone else, and a save keeps the route it does not    *)
(* name.                                                                   *)
(***************************************************************************)
EXTENDS Identity, TLAPS

ServiceFields == {"caps", "protocols", "payment", "limits", "alg"}

\* Every document of the model has one service with a list of capabilities.
GoodDoc(d) ==
  \E s \in d :
    /\ d = Some(s)
    /\ DOMAIN s = ServiceFields
    /\ s.caps # None
    /\ \A c \in s.caps : c \subseteq Capability

GoodIdentity(i) ==
  /\ DOMAIN i = {"key", "doc", "pending", "registered", "ext"}
  /\ i.key \in Key
  /\ GoodDoc(i.doc)
  /\ i.pending \in BOOLEAN /\ i.registered \in BOOLEAN /\ i.ext \in BOOLEAN
  /\ i.ext <=> i.key = EnvKey

IsRequest(o) ==
  /\ o.args.caps \subseteq SUBSET Capability
  /\ o.kind = "caps" => o.args.caps # None

\* An identity, or none.
Whole(x) == x # None => \E i \in x : x = Some(i) /\ GoodIdentity(i)

HasRequest(x) == x # None => \E o \in x : x = Some(o) /\ IsRequest(o)

\* Types, and what a task, the file and its last whole record hold.
TypeInv ==
  /\ file.state \in FileState
  /\ (file.state = "whole") <=> (file.rec # None)
  /\ pc \in [Task -> TaskState]
  /\ phase \in [Task -> {"ensure", "main"}]
  /\ after \in [Task -> {"post", "main", "done"}]
  /\ used \subseteq Key /\ EnvKey \in used
  /\ DOMAIN core = Key /\ DOMAIN rec = Task /\ DOMAIN op = Task
  /\ Whole(held) /\ Whole(file.rec)
  /\ \A t \in Task :
       /\ Whole(rec[t]) /\ HasRequest(op[t])
       /\ (pc[t] = "idle") <=> (op[t] = None)
       /\ (pc[t] \in {"idle", "load"}) <=> (rec[t] = None)
  /\ stale \subseteq {t \in Task : rec[t] # None}
-----------------------------------------------------------------------------
(* Optional values.                                                         *)

LEMMA OnlyOne == \A v : Only(Some(v)) = v /\ Some(v) # None
BY DEF Only, Some, None

LEMMA ElseFacts ==
  /\ \A y : Else(None, y) = y
  /\ \A v, y : Else(Some(v), y) = v
  /\ \A x, y : x # None => Else(x, y) \in x
<1>1. \A y : Else(None, y) = y
  BY DEF Else
<1>2. \A v, y : Else(Some(v), y) = v
  BY DEF Else, Some, None
<1>3. ASSUME NEW x, NEW y, x # None PROVE Else(x, y) \in x
  <2>1. \E v : v \in x
    BY <1>3 DEF None
  <2> QED
    BY <1>3, <2>1 DEF Else
<1> QED
  BY <1>1, <1>2, <1>3

\* Given drops an empty list.
LEMMA GivenFacts ==
  /\ \A x : Given(x) \subseteq x
  /\ \A x : {} \notin Given(x)
  /\ \A v : v # {} => Given(Some(v)) = Some(v)
BY DEF Given, Some

(* Documents.                                                               *)

LEMMA PatchIsGood ==
  ASSUME NEW route, route.caps \subseteq Capability
  PROVE  GoodDoc(PatchService(route))
<1> DEFINE s == [caps |-> Some(route.caps), protocols |-> Some(route.protocols),
        payment |-> Some([price |-> Some(route.price)]), alg |-> Some(route.alg),
        limits |-> Some([kb |-> Some(route.kb), ttl |-> Some(route.ttl)])]
<1>1. PatchService(route) = Some(s)
  BY DEF PatchService
<1>2. DOMAIN s = ServiceFields
  BY DEF ServiceFields
<1>3. s.caps = Some(route.caps)
  OBVIOUS
<1> HIDE DEF s
<1>4. s.caps # None /\ \A c \in s.caps : c \subseteq Capability
  BY <1>3 DEF Some, None
<1>5. s \in PatchService(route)
  BY <1>1 DEF Some
<1> QED
  BY <1>1, <1>2, <1>4, <1>5 DEF GoodDoc

\* The capabilities of a document, and their default.
LEMMA CapsOfDocument ==
  ASSUME NEW d, GoodDoc(d) \/ d = None
  PROVE  RouteFromDocument(d).caps \subseteq Capability
<1>1. Defaults.caps \subseteq Capability
  BY RouteAssumption DEF Defaults
<1>2. ASSUME NEW s, s.caps # None, \A c \in s.caps : c \subseteq Capability
      PROVE  NormalizeRoute(s).caps \subseteq Capability
  <2>1. NormalizeRoute(s).caps = Else(s.caps, Defaults.caps)
    BY DEF NormalizeRoute
  <2> QED
    BY <1>2, <2>1, ElseFacts
<1>3. CASE d = None
  BY <1>1, <1>3 DEF RouteFromDocument
<1>4. CASE GoodDoc(d)
  <2>1. PICK s \in d : d = Some(s) /\ s.caps # None /\ \A c \in s.caps : c \subseteq Capability
    BY <1>4 DEF GoodDoc
  <2>2. RouteFromDocument(d) = NormalizeRoute(s)
    BY <2>1, OnlyOne DEF RouteFromDocument, Only
  <2> QED
    BY <1>2, <2>1, <2>2
<1> QED
  BY <1>3, <1>4

LEMMA MergedCaps ==
  ASSUME NEW d, GoodDoc(d), NEW args, args.caps \subseteq SUBSET Capability, NEW replace
  PROVE  MergedRoute(d, args, replace).caps \subseteq Capability
<1> DEFINE existing == IF replace THEN Defaults ELSE RouteFromDocument(d)
<1>1. existing.caps \subseteq Capability
  BY CapsOfDocument, RouteAssumption DEF Defaults
<1>2. MergedRoute(d, args, replace).caps = Else(Given(args.caps), existing.caps)
  BY ElseFacts DEF MergedRoute, NormalizeRoute
<1> HIDE DEF existing
<1> QED
  BY <1>1, <1>2, ElseFacts, GivenFacts

LEMMA DeclareCapabilitiesIsGood ==
  ASSUME NEW d, GoodDoc(d), NEW caps, caps \subseteq Capability, NEW replace
  PROVE  GoodDoc(DeclareCapabilities(d, caps, replace))
<1>1. PICK s \in d : /\ d = Some(s) /\ DOMAIN s = ServiceFields /\ s.caps # None
                     /\ \A c \in s.caps : c \subseteq Capability
  BY DEF GoodDoc
<1> DEFINE all == IF replace THEN caps ELSE caps \cup Else(s.caps, {})
           new == [s EXCEPT !.caps = Some(all)]
<1>2. all \subseteq Capability
  BY <1>1, ElseFacts
<1>3. DeclareCapabilities(d, caps, replace) = Some(new)
  BY <1>1, ElseFacts DEF DeclareCapabilities
<1>4. new.caps = Some(all) /\ DOMAIN new = ServiceFields
  BY <1>1 DEF ServiceFields
<1> HIDE DEF all, new
<1>5. new.caps # None /\ \A c \in new.caps : c \subseteq Capability
  BY <1>2, <1>4 DEF Some, None
<1> QED
  BY <1>3, <1>4, <1>5 DEF GoodDoc, Some

\* What a declaration saves.
LEMMA DocumentsAreGood ==
  ASSUME NEW i, GoodDoc(i.doc), NEW o, IsRequest(o), NEW d \in Documents(i, o)
  PROVE  GoodDoc(d)
<1>1. CASE o.kind = "caps"
  <2>1. d = DeclareCapabilities(i.doc, Only(o.args.caps), o.replace)
    BY <1>1 DEF Documents
  <2>2. Only(o.args.caps) \in o.args.caps
    <3>1. \E c : c \in o.args.caps
      BY <1>1 DEF IsRequest, None
    <3> QED
      BY <3>1 DEF Only
  <2> QED
    BY <2>1, <2>2, DeclareCapabilitiesIsGood DEF IsRequest
<1>2. CASE o.kind # "caps"
  <2>1. d = PatchService(MergedRoute(i.doc, o.args, o.replace))
    BY <1>2 DEF Documents, DeclareRoute
  <2> QED
    BY <2>1, MergedCaps, PatchIsGood DEF IsRequest
<1> QED
  BY <1>1, <1>2

(* Identities.                                                              *)

LEMMA CreatedIsGood ==
  ASSUME NEW k \in Key, k # EnvKey
  PROVE  GoodIdentity(CreatedIdentity(k)) /\ ~CreatedIdentity(k).registered
<1>1. GoodDoc(CreatedDocument)
  BY PatchIsGood, RouteAssumption DEF CreatedDocument, Defaults
<1> QED
  BY <1>1 DEF CreatedIdentity, GoodIdentity

LEMMA EnvIsGood == GoodIdentity(EnvIdentity) /\ EnvIdentity.ext
<1> DEFINE s == [EmptyService EXCEPT !.caps = Some(EnvCaps)]
<1>1. EnvDocument = Some(s)
  BY DEF EnvDocument
<1>2. s.caps = Some(EnvCaps) /\ DOMAIN s = ServiceFields
  BY DEF EmptyService, ServiceFields
<1> HIDE DEF s
<1>3. GoodDoc(EnvDocument)
  BY <1>1, <1>2, IdentityAssumption DEF GoodDoc, Some, None
<1> QED
  BY <1>3, IdentityAssumption DEF EnvIdentity, GoodIdentity

\* The answer of Core changes the two flags only.
LEMMA SyncedIsGood ==
  ASSUME NEW i, GoodIdentity(i), NEW ok \in BOOLEAN
  PROVE  /\ GoodIdentity(Synced(i, ok))
         /\ Synced(i, ok).key = i.key /\ Synced(i, ok).doc = i.doc /\ Synced(i, ok).ext = i.ext
         /\ Synced(i, ok).registered = ok
BY DEF Synced, GoodIdentity

LEMMA DeclaredIsGood ==
  ASSUME NEW i, GoodIdentity(i), NEW d, GoodDoc(d)
  PROVE  LET j == [i EXCEPT !.doc = d, !.pending = TRUE]
         IN  /\ GoodIdentity(j)
             /\ j.key = i.key /\ j.doc = d /\ j.ext = i.ext /\ j.pending
BY DEF GoodIdentity

LEMMA GoodIsIdentity ==
  ASSUME NEW i, GoodIdentity(i)
  PROVE  IsIdentity(i)
<1>1. PICK s \in i.doc : i.doc = Some(s) /\ \A c \in s.caps : c \subseteq Capability
  BY DEF GoodIdentity, GoodDoc
<1>2. \A r \in i.doc : r = s
  BY <1>1 DEF Some
<1> QED
  BY <1>1, <1>2 DEF IsIdentity, GoodIdentity

LEMMA WholeFacts ==
  ASSUME NEW x, Whole(x), NEW i \in x
  PROVE  x = Some(i) /\ GoodIdentity(i) /\ Only(x) = i /\ \A j \in x : j = i
BY OnlyOne DEF Whole, Some, None

LEMMA OnlyIsGood ==
  ASSUME NEW x, Whole(x), x # None
  PROVE  Only(x) \in x /\ x = Some(Only(x)) /\ GoodIdentity(Only(x))
BY OnlyOne DEF Whole, Some, None

LEMMA SomeIsWhole ==
  ASSUME NEW i, GoodIdentity(i)
  PROVE  Whole(Some(i)) /\ Some(i) # None
BY OnlyOne DEF Whole, Some

LEMMA NoneIsWhole == Whole(None) /\ HasRequest(None)
BY DEF Whole, HasRequest

LEMMA OnlyIsRequest ==
  ASSUME NEW x, HasRequest(x), x # None
  PROVE  Only(x) \in x /\ x = Some(Only(x)) /\ IsRequest(Only(x))
BY OnlyOne DEF HasRequest, Some, None

LEMMA RequestsAreRequests ==
  /\ \A o \in Request : HasRequest(Some(o))
  /\ HasRequest(Some(DefaultRoute))
<1>1. \A o \in Request : IsRequest(o)
  BY IdentityAssumption DEF IsRequest
<1>2. IsRequest(DefaultRoute)
  BY RouteAssumption DEF DefaultRoute, IsRequest, Some
<1> QED
  BY <1>1, <1>2 DEF HasRequest, Some
-----------------------------------------------------------------------------
(* What a save does to the route.                                           *)

LEMMA RouteOfService == \A v : RouteFromDocument(Some(v)) = NormalizeRoute(v)
<1> TAKE v
<1>1. RouteFromDocument(Some(v)) = NormalizeRoute(Only(Some(v)))
  BY OnlyOne DEF RouteFromDocument, Only
<1> QED
  BY <1>1, OnlyOne

LEMMA PatchedRoute ==
  ASSUME NEW route, route.protocols # {}
  PROVE  LET r == RouteFromDocument(PatchService(route)) IN
         /\ r.caps = route.caps /\ r.protocols = route.protocols /\ r.price = route.price
         /\ r.kb = route.kb /\ r.ttl = route.ttl /\ r.alg = route.alg
<1> DEFINE s == [caps |-> Some(route.caps), protocols |-> Some(route.protocols),
        payment |-> Some([price |-> Some(route.price)]), alg |-> Some(route.alg),
        limits |-> Some([kb |-> Some(route.kb), ttl |-> Some(route.ttl)])]
<1>1. PatchService(route) = Some(s)
  BY DEF PatchService
<1>2. RouteFromDocument(PatchService(route)) = NormalizeRoute(s)
  BY <1>1, RouteOfService
<1>3. /\ Else(s.payment, NoPrice) = [price |-> Some(route.price)]
      /\ Else(s.limits, NoLimits) = [kb |-> Some(route.kb), ttl |-> Some(route.ttl)]
  BY ElseFacts
<1>4. Given(s.protocols) = Some(route.protocols)
  BY GivenFacts
<1> QED
  BY <1>2, <1>3, <1>4, ElseFacts DEF NormalizeRoute

LEMMA RouteHasProtocols ==
  \A raw : NormalizeRoute(raw).protocols # {}
<1> TAKE raw
<1>1. NormalizeRoute(raw).protocols = Else(Given(raw.protocols), Defaults.protocols)
  BY DEF NormalizeRoute
<1>2. Defaults.protocols # {}
  BY DEF Defaults, SupportedProtocols
<1> QED
  BY <1>1, <1>2, ElseFacts, GivenFacts

LEMMA DocumentHasProtocols == \A d : RouteFromDocument(d).protocols # {}
<1> TAKE d
<1>1. CASE d = None
  BY <1>1 DEF RouteFromDocument, Defaults, SupportedProtocols
<1>2. CASE d # None
  <2>1. RouteFromDocument(d) = NormalizeRoute(CHOOSE s \in d : TRUE)
    BY <1>2 DEF RouteFromDocument
  <2> QED
    BY <2>1, RouteHasProtocols
<1> QED
  BY <1>1, <1>2

\* A route declaration keeps what it does not name.
LEMMA RouteIsKept ==
  ASSUME NEW d, NEW o, o.kind = "route", NEW f \in RouteFields \ Named(o)
  PROVE  RouteFromDocument(DeclareRoute(d, o.args, o.replace))[f] = RouteFromDocument(d)[f]
<1> DEFINE e == RouteFromDocument(d)
           m == MergedRoute(d, o.args, o.replace)
           r == RouteFromDocument(DeclareRoute(d, o.args, o.replace))
<1>1. ~o.replace
  BY DEF Named, RouteFields
<1>2. /\ m.caps = Else(Given(o.args.caps), e.caps)
      /\ m.protocols = Else(Given(Some(Else(Given(o.args.protocols), e.protocols))), Defaults.protocols)
      /\ m.price = Else(Else(o.args.payment, [price |-> Some(e.price)]).price, Defaults.price)
      /\ m.alg = e.alg
  BY <1>1, ElseFacts DEF MergedRoute, NormalizeRoute
<1>3. LET l == Else(o.args.limits, [kb |-> Some(e.kb), ttl |-> Some(e.ttl)])
      IN  m.kb = Else(l.kb, Defaults.kb) /\ m.ttl = Else(l.ttl, Defaults.ttl)
  BY <1>1, ElseFacts DEF MergedRoute, NormalizeRoute
<1>4. m.protocols # {}
  BY RouteHasProtocols DEF MergedRoute
<1>5. /\ r.caps = m.caps /\ r.protocols = m.protocols /\ r.price = m.price
      /\ r.kb = m.kb /\ r.ttl = m.ttl /\ r.alg = m.alg
  BY <1>4, PatchedRoute DEF DeclareRoute
<1>6. e.protocols # {}
  BY DocumentHasProtocols
<1> HIDE DEF e, m, r
<1>7. CASE f = "caps"
  <2>1. Given(o.args.caps) = None
    BY <1>7 DEF Named
  <2> QED
    BY <1>2, <1>5, <1>7, <2>1, ElseFacts DEF e, r
<1>8. CASE f = "protocols"
  <2>1. Given(o.args.protocols) = None
    BY <1>8 DEF Named
  <2>2. m.protocols = e.protocols
    BY <1>2, <1>6, <2>1, ElseFacts, GivenFacts
  <2> QED
    BY <1>5, <1>8, <2>2 DEF e, r
<1>9. CASE f = "price"
  <2>1. o.args.payment = None
    BY <1>9 DEF Named
  <2>2. m.price = e.price
    BY <1>2, <2>1, ElseFacts
  <2> QED
    BY <1>5, <1>9, <2>2 DEF e, r
<1>10. CASE f \in {"kb", "ttl"}
  <2>1. o.args.limits = None
    BY <1>10 DEF Named
  <2>2. m.kb = e.kb /\ m.ttl = e.ttl
    BY <1>3, <2>1, ElseFacts
  <2> QED
    BY <1>5, <1>10, <2>2 DEF e, r
<1>11. CASE f = "alg"
  BY <1>2, <1>5, <1>11 DEF e, r
<1> QED
  BY <1>7, <1>8, <1>9, <1>10, <1>11 DEF RouteFields

\* So does a declaration of capabilities.
LEMMA CapsAreKept ==
  ASSUME NEW d, GoodDoc(d), NEW o, o.kind = "caps", IsRequest(o), NEW f \in RouteFields \ Named(o)
  PROVE  RouteFromDocument(DeclareCapabilities(d, Only(o.args.caps), o.replace))[f]
           = RouteFromDocument(d)[f]
<1>1. PICK s \in d : d = Some(s) /\ DOMAIN s = ServiceFields /\ s.caps # None
  BY DEF GoodDoc
<1> DEFINE caps == Only(o.args.caps)
           all == IF o.replace THEN caps ELSE caps \cup Else(s.caps, {})
           new == [s EXCEPT !.caps = Some(all)]
<1>2. RouteFromDocument(d) = NormalizeRoute(s)
  BY <1>1, RouteOfService
<1>3. DeclareCapabilities(d, caps, o.replace) = Some(new)
  BY <1>1, ElseFacts DEF DeclareCapabilities
<1>4. RouteFromDocument(Some(new)) = NormalizeRoute(new)
  BY RouteOfService
<1>5. /\ new.caps = Some(all) /\ new.protocols = s.protocols /\ new.payment = s.payment
      /\ new.limits = s.limits /\ new.alg = s.alg
  BY <1>1 DEF ServiceFields
<1>6. CASE f = "caps"
  <2>1. ~o.replace /\ Given(o.args.caps) = None
    BY <1>6 DEF Named
  <2>2. caps \in o.args.caps
    <3>1. \E c : c \in o.args.caps
      BY DEF IsRequest, None
    <3> QED
      BY <3>1 DEF Only
  <2>3. caps = {}
    BY <2>1, <2>2 DEF Given, None
  <2>4. all = Else(s.caps, {})
    BY <2>1, <2>3
  <2>5. Else(s.caps, {}) = Else(s.caps, Defaults.caps)
    BY <1>1 DEF Else
  <2>6. NormalizeRoute(new).caps = Else(Some(all), Defaults.caps)
    BY <1>5 DEF NormalizeRoute
  <2>7. NormalizeRoute(s).caps = Else(s.caps, Defaults.caps)
    BY DEF NormalizeRoute
  <2> HIDE DEF caps, all, new
  <2>8. NormalizeRoute(new).caps = NormalizeRoute(s).caps
    BY <2>4, <2>5, <2>6, <2>7, ElseFacts
  <2> QED
    BY <1>2, <1>3, <1>4, <1>6, <2>8 DEF caps
<1>7. CASE f # "caps"
  <2> HIDE DEF new
  <2>1. NormalizeRoute(new)[f] = NormalizeRoute(s)[f]
    BY <1>5, <1>7 DEF NormalizeRoute, RouteFields
  <2> QED
    BY <1>2, <1>3, <1>4, <2>1
<1> QED
  BY <1>6, <1>7

LEMMA DocumentsKeep ==
  ASSUME NEW i, GoodDoc(i.doc), NEW o, IsRequest(o), Declares(o), NEW d \in Documents(i, o),
         NEW f \in RouteFields \ Named(o)
  PROVE  RouteFromDocument(d)[f] = RouteFromDocument(i.doc)[f]
<1>1. CASE o.kind = "caps"
  BY <1>1, CapsAreKept DEF Documents
<1>2. CASE o.kind = "route"
  <2>1. d = DeclareRoute(i.doc, o.args, o.replace)
    BY <1>2 DEF Documents
  <2> QED
    BY <1>2, <2>1, RouteIsKept
<1> QED
  BY <1>1, <1>2 DEF Declares
-----------------------------------------------------------------------------
(* Types.                                                                   *)

\* A call that ends holds nothing.
LEMMA EndTyped ==
  ASSUME TypeInv, NEW t \in Task, End(t),
         UNCHANGED <<after, used>>, DOMAIN core' = Key,
         file'.state \in FileState, (file'.state = "whole") <=> (file'.rec # None),
         Whole(file'.rec), Whole(held')
  PROVE  TypeInv'
BY NoneIsWhole DEF TypeInv, End, Goto, TaskState

LEMMA Typed == TypeInv /\ [Next]_vars => TypeInv'
<1> USE NoneIsWhole
<1> SUFFICES ASSUME TypeInv, [Next]_vars PROVE TypeInv'
  OBVIOUS
<1>1. ASSUME NEW t \in Task, NEW o \in Request, Start(t, o) PROVE TypeInv'
  <2>1. HasRequest(Some(o)) /\ Some(o) # None
    BY RequestsAreRequests, OnlyOne
  <2> QED
    BY <1>1, <2>1 DEF TypeInv, Start, Goto, historyVars, TaskState
<1>2. ASSUME NEW t \in Task, LoadEnv(t) PROVE TypeInv'
  <2>1. Whole(Some(EnvIdentity)) /\ Some(EnvIdentity) # None
    BY EnvIsGood, SomeIsWhole
  <2> QED
    BY <1>2, <2>1 DEF TypeInv, LoadEnv, Goto, historyVars, TaskState
<1>3. ASSUME NEW t \in Task, LoadFile(t) PROVE TypeInv'
  <2>1. Whole(file.rec) /\ file.rec # None
    BY <1>3 DEF TypeInv, LoadFile
  <2> QED
    BY <1>3, <2>1 DEF TypeInv, LoadFile, Goto, historyVars, TaskState
<1>4. ASSUME NEW t \in Task, LoadUnreadable(t) PROVE TypeInv'
  BY <1>4, EndTyped DEF LoadUnreadable, TypeInv
<1>5. ASSUME NEW t \in Task, NEW k \in Key, LoadNothing(t, k) PROVE TypeInv'
  <2>1. k # EnvKey
    BY <1>5 DEF LoadNothing, TypeInv
  <2>2. Whole(Some(CreatedIdentity(k))) /\ Some(CreatedIdentity(k)) # None
    BY <2>1, CreatedIsGood, SomeIsWhole
  <2> QED
    BY <1>5, <2>2 DEF TypeInv, LoadNothing, Save, Goto, TaskState
<1>6. ASSUME NEW t \in Task, Truncate(t) PROVE TypeInv'
  BY <1>6 DEF TypeInv, Truncate, Goto, TaskState, FileState, None
<1>7. ASSUME NEW t \in Task, Fill(t) PROVE TypeInv'
  <2>1. rec[t] # None /\ op[t] # None /\ pc[t] = "fill"
    BY <1>7 DEF TypeInv, Fill
  <2>2. Whole(Some(Only(rec[t]))) /\ Some(Only(rec[t])) # None
    BY <2>1, OnlyIsGood DEF TypeInv
  <2>3. /\ file'.state \in FileState
        /\ (file'.state = "whole") <=> (file'.rec # None)
        /\ Whole(file'.rec)
    <3>1. \/ file' = [state |-> "whole", rec |-> Some(Only(rec[t]))]
          \/ file' = [state |-> "mangled", rec |-> None]
      BY <1>7 DEF Fill, Written
    <3> QED
      BY <2>2, <3>1 DEF FileState
  <2>4. Whole(held')
    BY <1>7, <2>3 DEF Fill, TypeInv
  <2>5. UNCHANGED <<core, used>> /\ after' = [after EXCEPT ![t] = "done"]
    BY <1>7 DEF Fill
  <2>6. CASE after[t] # "done"
    <3>1. pc' = [pc EXCEPT ![t] = after[t]] /\ UNCHANGED <<op, rec, phase, stale>> /\ after[t] \in {"post", "main"}
      BY <1>7, <2>6 DEF Fill, Goto, TypeInv
    <3> QED
      BY <2>1, <2>3, <2>4, <2>5, <3>1 DEF TypeInv, TaskState
  <2>7. CASE Finish(t)
    <3>1. HasRequest(Some(DefaultRoute)) /\ Some(DefaultRoute) # None
      BY RequestsAreRequests, OnlyOne
    <3>2. /\ rec' = [rec EXCEPT ![t] = None] /\ phase' = [phase EXCEPT ![t] = "ensure"]
          /\ stale' = stale \ {t}
          /\ \/ pc' = [pc EXCEPT ![t] = "load"] /\ op' = [op EXCEPT ![t] = Some(DefaultRoute)]
             \/ pc' = [pc EXCEPT ![t] = "idle"] /\ op' = [op EXCEPT ![t] = None]
      BY <2>7 DEF Finish, End, Goto
    <3>3. \A u \in Task : u # t => UNCHANGED <<rec[u], pc[u], op[u]>>
      BY <3>2 DEF TypeInv
    <3>4. CASE pc' = [pc EXCEPT ![t] = "load"] /\ op' = [op EXCEPT ![t] = Some(DefaultRoute)]
      BY <2>3, <2>4, <2>5, <3>1, <3>2, <3>3, <3>4 DEF TypeInv, TaskState
    <3>5. CASE pc' = [pc EXCEPT ![t] = "idle"] /\ op' = [op EXCEPT ![t] = None]
      BY <2>3, <2>4, <2>5, <3>2, <3>3, <3>5 DEF TypeInv, TaskState
    <3> QED
      BY <3>2, <3>4, <3>5
  <2> QED
    BY <1>7, <2>6, <2>7 DEF Fill
<1>8. ASSUME NEW t \in Task, NEW ok \in BOOLEAN, pc[t] = "post", Posted(t, ok),
             core' = core \/ Reach(t)
      PROVE  TypeInv'
  <2>1. rec[t] # None
    BY <1>8 DEF TypeInv
  <2>2. Whole(Some(Synced(Only(rec[t]), ok))) /\ Some(Synced(Only(rec[t]), ok)) # None
    BY <2>1, OnlyIsGood, SyncedIsGood, SomeIsWhole DEF TypeInv
  <2>3. DOMAIN core' = Key
    BY <1>8 DEF TypeInv, Reach
  <2>4. AfterSync(t) \in {"main", "done"}
    BY DEF AfterSync
  <2> QED
    BY <1>8, <2>2, <2>3, <2>4 DEF TypeInv, Posted, Save, Goto, TaskState
<1>9. ASSUME NEW t \in Task, MainReturns(t) PROVE TypeInv'
  BY <1>9, EndTyped DEF MainReturns, TypeInv
<1>10. ASSUME NEW t \in Task, MainSyncs(t) PROVE TypeInv'
  BY <1>10 DEF TypeInv, MainSyncs, Goto, historyVars, TaskState
<1>11. ASSUME NEW t \in Task, MainDeclares(t) PROVE TypeInv'
  <2>1. rec[t] # None /\ op[t] # None
    BY <1>11 DEF MainDeclares, TypeInv
  <2>2. PICK d \in Documents(Only(rec[t]), Only(op[t])) :
          Save(t, [Only(rec[t]) EXCEPT !.doc = d, !.pending = TRUE], "post")
    BY <1>11 DEF MainDeclares
  <2> DEFINE j == [Only(rec[t]) EXCEPT !.doc = d, !.pending = TRUE]
  <2>3. GoodIdentity(Only(rec[t])) /\ IsRequest(Only(op[t]))
    BY <2>1, OnlyIsGood, OnlyIsRequest DEF TypeInv
  <2>4. GoodIdentity(j)
    BY <2>3, DocumentsAreGood, DeclaredIsGood DEF GoodIdentity
  <2>5. Whole(Some(j)) /\ Some(j) # None
    BY <2>4, SomeIsWhole
  <2>6. rec' = [rec EXCEPT ![t] = Some(j)] /\ pc' = [pc EXCEPT ![t] = "truncate"]
        /\ after' = [after EXCEPT ![t] = "post"]
    BY <2>2 DEF Save, Goto
  <2> HIDE DEF j
  <2> QED
    BY <1>11, <2>5, <2>6 DEF TypeInv, MainDeclares, historyVars, TaskState
<1>12. ASSUME NEW t \in Task, Crash(t) PROVE TypeInv'
  BY <1>12 DEF TypeInv, Crash, End, Goto, TaskState
<1>13. CASE UNCHANGED vars
  BY <1>13 DEF TypeInv, vars, taskVars, historyVars
<1>14. ASSUME NEW t \in Task, PostAccepted(t) \/ PostAnswerLost(t) \/ PostFailed(t) PROVE TypeInv'
  BY <1>8, <1>14 DEF PostAccepted, PostAnswerLost, PostFailed
<1> QED
  BY <1>1, <1>2, <1>3, <1>4, <1>5, <1>6, <1>7, <1>9, <1>10, <1>11, <1>12, <1>13, <1>14 DEF Next

\* Every variable stays in its type, and what a task or the file holds is a whole
\* identity, over interleaved saves and crashes.
THEOREM IdentityTypeCorrect == Spec => []TypeInv
<1>1. Init => TypeInv
  <2>1. UNION {} = {} /\ stale = {} => stale \subseteq {t \in Task : rec[t] # None}
    OBVIOUS
  <2> QED
    BY NoneIsWhole, IdentityAssumption DEF Init, TypeInv, FileState, TaskState
<1> QED
  BY <1>1, Typed, PTL DEF Spec

\* What a process has in its environment does not change.
LEMMA EnvIsKept == [Next]_vars => UNCHANGED env
<1> SUFFICES ASSUME [Next]_vars PROVE UNCHANGED env
  OBVIOUS
<1>1. ASSUME NEW t \in Task, NEW o \in Request, Start(t, o) PROVE UNCHANGED env
  BY <1>1 DEF Start
<1>2. ASSUME NEW t \in Task, NEW k \in Key, LoadNothing(t, k) PROVE UNCHANGED env
  BY <1>2 DEF LoadNothing
<1>3. ASSUME NEW t \in Task, LoadEnv(t) \/ LoadFile(t) \/ LoadUnreadable(t) PROVE UNCHANGED env
  BY <1>3 DEF LoadEnv, LoadFile, LoadUnreadable
<1>4. ASSUME NEW t \in Task, Truncate(t) \/ Fill(t) PROVE UNCHANGED env
  BY <1>4 DEF Truncate, Fill
<1>5. ASSUME NEW t \in Task, PostAccepted(t) \/ PostAnswerLost(t) \/ PostFailed(t) PROVE UNCHANGED env
  BY <1>5 DEF PostAccepted, PostAnswerLost, PostFailed, Posted
<1>6. ASSUME NEW t \in Task, MainReturns(t) \/ MainSyncs(t) \/ MainDeclares(t) PROVE UNCHANGED env
  BY <1>6 DEF MainReturns, MainSyncs, MainDeclares
<1>7. ASSUME NEW t \in Task, Crash(t) PROVE UNCHANGED env
  BY <1>7 DEF Crash
<1>8. CASE UNCHANGED vars
  BY <1>8 DEF vars
<1> QED
  BY <1>1, <1>2, <1>3, <1>4, <1>5, <1>6, <1>7, <1>8 DEF Next

\* The type invariant the run checks.
THEOREM IdentityTypes == Spec => []IdTypeOK
<1>1. TypeInv /\ env \subseteq Task => IdTypeOK
  <2> SUFFICES ASSUME TypeInv, env \subseteq Task PROVE IdTypeOK
    OBVIOUS
  <2>1. ASSUME NEW x, Whole(x), NEW i \in x PROVE IsIdentity(i)
    BY <2>1, WholeFacts, GoodIsIdentity
  <2>2. \A i \in file.rec \cup held \cup UNION {rec[t] : t \in Task} : IsIdentity(i)
    BY <2>1 DEF TypeInv
  <2> QED
    BY <2>2 DEF TypeInv, IdTypeOK
<1>2. Init => env \subseteq Task
  BY DEF Init
<1>3. env \subseteq Task /\ [Next]_vars => (env \subseteq Task)'
  BY EnvIsKept
<1> QED
  BY <1>1, <1>2, <1>3, IdentityTypeCorrect, PTL DEF Spec
-----------------------------------------------------------------------------
(* The steps, by what they do to the identities.                            *)

Others(t) == \A u \in Task \ {t} : rec'[u] = rec[u] /\ pc'[u] = pc[u] /\ op'[u] = op[u]

\* The task holds nothing afterwards.
Leaves(t) ==
  /\ Others(t)
  /\ rec'[t] = None /\ pc'[t] \in {"idle", "load"} /\ stale' = stale \ {t}
  /\ UNCHANGED <<file, core, held, lost, raced>>

Loads(t) ==
  /\ Others(t)
  /\ pc'[t] \in {"post", "main"} /\ t \notin stale
  /\ rec'[t] = Some(EnvIdentity) \/ (file.rec # None /\ rec'[t] = file.rec)
  /\ UNCHANGED <<file, core, held, lost, raced, stale>>

Creates(t) ==
  /\ Others(t)
  /\ pc'[t] = "truncate" /\ file.state = "absent"
  /\ \E k \in Key \ {EnvKey} : rec'[t] = Some(CreatedIdentity(k))
  /\ raced' = (raced \/ \E u \in Task \ {t} : pc[u] = "truncate")
  /\ UNCHANGED <<file, core, held, lost, stale>>

Truncates(t) ==
  /\ Others(t)
  /\ pc[t] = "truncate" /\ pc'[t] = "fill" /\ rec'[t] = rec[t] /\ op'[t] = op[t]
  /\ file'.state = "empty" /\ file'.rec = None
  /\ stale' = stale \cup {u \in Task \ {t} : rec[u] # None}
  /\ lost' = (lost \/ t \in stale)
  /\ UNCHANGED <<core, held, raced>>

Fills(t) ==
  /\ Others(t)
  /\ pc[t] = "fill"
  /\ \/ file'.state = "whole" /\ file'.rec = rec[t] /\ held' = rec[t]
     \/ file'.state = "mangled" /\ file'.rec = None /\ held' = held /\ file.state # "empty"
  /\ \/ rec'[t] = None /\ pc'[t] \in {"idle", "load"} /\ stale' = stale \ {t}
     \/ rec'[t] = rec[t] /\ op'[t] = op[t] /\ pc'[t] \in {"post", "main"} /\ stale' = stale
  /\ UNCHANGED <<core, lost, raced>>

Posts(t) ==
  /\ Others(t)
  /\ pc[t] = "post" /\ pc'[t] = "truncate" /\ op'[t] = op[t] /\ rec[t] # None
  /\ \E ok \in BOOLEAN :
       /\ rec'[t] = Some(Synced(Only(rec[t]), ok))
       /\ Reach(t) \/ (UNCHANGED core /\ ok = FALSE)
  /\ lost' = (lost \/ t \in stale)
  /\ UNCHANGED <<file, held, stale, raced>>

Declaring(t) ==
  /\ Others(t)
  /\ pc[t] = "main" /\ pc'[t] = "truncate" /\ op'[t] = op[t] /\ rec[t] # None /\ op[t] # None
  /\ Declares(Only(op[t]))
  /\ \E d \in Documents(Only(rec[t]), Only(op[t])) :
       rec'[t] = Some([Only(rec[t]) EXCEPT !.doc = d, !.pending = TRUE])
  /\ UNCHANGED <<file, core, held, lost, raced, stale>>

Syncs(t) ==
  /\ Others(t)
  /\ pc[t] = "main" /\ pc'[t] = "post" /\ rec'[t] = rec[t] /\ op'[t] = op[t]
  /\ UNCHANGED <<file, core, held, lost, raced, stale>>

Same == UNCHANGED <<file, core, held, lost, raced, stale, rec, pc, op>>

AnyStep(t) ==
  \/ Leaves(t) \/ Loads(t) \/ Creates(t) \/ Truncates(t) \/ Fills(t) \/ Posts(t)
  \/ Declaring(t) \/ Syncs(t)

LEMMA EndLeaves ==
  ASSUME TypeInv, NEW t \in Task, End(t), UNCHANGED <<file, core, held, lost, raced>>
  PROVE  Leaves(t)
BY DEF End, Goto, TypeInv, Leaves, Others

LEMMA Kinds == TypeInv /\ [Next]_vars => Same \/ \E t \in Task : AnyStep(t)
<1> SUFFICES ASSUME TypeInv, [Next]_vars PROVE Same \/ \E t \in Task : AnyStep(t)
  OBVIOUS
<1>1. ASSUME NEW t \in Task, NEW o \in Request, Start(t, o) PROVE Leaves(t)
  BY <1>1 DEF TypeInv, Start, Goto, historyVars, Leaves, Others
<1>2. ASSUME NEW t \in Task, LoadEnv(t) PROVE Loads(t)
  BY <1>2 DEF TypeInv, LoadEnv, Goto, historyVars, Loads, Others
<1>3. ASSUME NEW t \in Task, LoadFile(t) PROVE Loads(t)
  BY <1>3 DEF TypeInv, LoadFile, Goto, historyVars, Loads, Others
<1>4. ASSUME NEW t \in Task, LoadUnreadable(t) PROVE Leaves(t)
  BY <1>4, EndLeaves DEF LoadUnreadable
<1>5. ASSUME NEW t \in Task, NEW k \in Key, LoadNothing(t, k) PROVE Creates(t)
  <2>1. k \in Key \ {EnvKey} /\ rec'[t] = Some(CreatedIdentity(k)) /\ pc'[t] = "truncate" /\ Others(t)
    BY <1>5 DEF LoadNothing, Save, Goto, TypeInv, Others
  <2> QED
    BY <1>5, <2>1 DEF LoadNothing, NoIdentity, Creates
<1>6. ASSUME NEW t \in Task, Truncate(t) PROVE Truncates(t)
  BY <1>6 DEF TypeInv, Truncate, Goto, Truncates, Others
<1>7. ASSUME NEW t \in Task, Fill(t) PROVE Fills(t)
  <2>1. pc[t] = "fill" /\ rec[t] # None /\ UNCHANGED <<core, lost, raced>>
    BY <1>7 DEF Fill, TypeInv
  <2>2. rec[t] = Some(Only(rec[t]))
    BY <2>1, OnlyIsGood DEF TypeInv
  <2>3. \/ file'.state = "whole" /\ file'.rec = rec[t] /\ held' = rec[t]
        \/ file'.state = "mangled" /\ file'.rec = None /\ held' = held /\ file.state # "empty"
    <3>1. \/ file' = [state |-> "whole", rec |-> rec[t]]
          \/ file' = [state |-> "mangled", rec |-> None] /\ file.state # "empty"
      BY <1>7, <2>2 DEF Fill, Written
    <3>2. held' = IF file'.rec = None THEN held ELSE file'.rec
      BY <1>7 DEF Fill
    <3> QED
      BY <2>1, <3>1, <3>2
  <2>4. CASE after[t] # "done"
    <3>1. pc' = [pc EXCEPT ![t] = after[t]] /\ UNCHANGED <<op, rec, stale>> /\ after[t] \in {"post", "main"}
      BY <1>7, <2>4 DEF Fill, Goto, TypeInv
    <3>2. Others(t) /\ pc'[t] \in {"post", "main"}
      BY <3>1 DEF Others, TypeInv
    <3> QED
      BY <2>1, <2>3, <3>1, <3>2 DEF Fills
  <2>5. CASE Finish(t)
    <3>1. /\ rec' = [rec EXCEPT ![t] = None] /\ stale' = stale \ {t}
          /\ \/ pc' = [pc EXCEPT ![t] = "load"] /\ op' = [op EXCEPT ![t] = Some(DefaultRoute)]
             \/ pc' = [pc EXCEPT ![t] = "idle"] /\ op' = [op EXCEPT ![t] = None]
      BY <2>5 DEF Finish, End, Goto
    <3>2. Others(t) /\ rec'[t] = None /\ pc'[t] \in {"idle", "load"}
      BY <3>1 DEF Others, TypeInv
    <3> QED
      BY <2>1, <2>3, <3>1, <3>2 DEF Fills
  <2> QED
    BY <1>7, <2>4, <2>5 DEF Fill
<1>8. ASSUME NEW t \in Task, NEW ok \in BOOLEAN, pc[t] = "post", Posted(t, ok),
             Reach(t) \/ (UNCHANGED core /\ ok = FALSE)
      PROVE  Posts(t)
  <2>1. Others(t) /\ rec'[t] = Some(Synced(Only(rec[t]), ok)) /\ pc'[t] = "truncate" /\ rec[t] # None
    BY <1>8 DEF Posted, Save, Goto, TypeInv, Others
  <2> QED
    BY <1>8, <2>1 DEF Posted, Posts
<1>9. ASSUME NEW t \in Task, PostAccepted(t) \/ PostAnswerLost(t) \/ PostFailed(t) PROVE Posts(t)
  BY <1>8, <1>9 DEF PostAccepted, PostAnswerLost, PostFailed
<1>10. ASSUME NEW t \in Task, MainReturns(t) PROVE Leaves(t)
  BY <1>10, EndLeaves DEF MainReturns
<1>11. ASSUME NEW t \in Task, MainSyncs(t) PROVE Syncs(t)
  BY <1>11 DEF MainSyncs, Goto, historyVars, TypeInv, Syncs, Others
<1>12. ASSUME NEW t \in Task, MainDeclares(t) PROVE Declaring(t)
  <2>1. PICK d \in Documents(Only(rec[t]), Only(op[t])) :
          Save(t, [Only(rec[t]) EXCEPT !.doc = d, !.pending = TRUE], "post")
    BY <1>12 DEF MainDeclares
  <2> DEFINE j == [Only(rec[t]) EXCEPT !.doc = d, !.pending = TRUE]
  <2>2. rec' = [rec EXCEPT ![t] = Some(j)] /\ pc' = [pc EXCEPT ![t] = "truncate"]
    BY <2>1 DEF Save, Goto
  <2> HIDE DEF j
  <2>3. rec'[t] = Some(j) /\ pc'[t] = "truncate" /\ rec[t] # None /\ op[t] # None /\ Others(t)
    BY <1>12, <2>2 DEF TypeInv, MainDeclares, Others
  <2> QED
    BY <1>12, <2>3 DEF MainDeclares, historyVars, Declaring, j
<1>13. ASSUME NEW t \in Task, Crash(t) PROVE Leaves(t)
  BY <1>13, EndLeaves DEF Crash
<1>14. CASE UNCHANGED vars
  BY <1>14 DEF Same, vars, taskVars, historyVars
<1> QED
  BY <1>1, <1>2, <1>3, <1>4, <1>5, <1>6, <1>7, <1>9, <1>10, <1>11, <1>12, <1>13, <1>14 DEF Next, AnyStep
-----------------------------------------------------------------------------
(* One key.                                                                 *)

\* The identities that were created here, not the environment's.
Own(x) == {i \in x : ~i.ext}

\* A whole file is the last whole record; before there was a file, only tasks
\* that are about to write it hold an identity of their own.
FileInv ==
  /\ file.rec # None => file.rec = held
  /\ file.state = "absent" =>
       /\ held = None
       /\ \A t \in Task : pc[t] # "fill" /\ (Own(rec[t]) # None => pc[t] = "truncate")

Owned == Own(held) \cup UNION {Own(rec[t]) : t \in Task}

KeyInv == ~raced => \A i, j \in Owned : i.key = j.key

LEMMA OwnFacts ==
  /\ Own(None) = None
  /\ Own(Some(EnvIdentity)) = None
  /\ \A x : Own(x) \subseteq x
BY EnvIsGood DEF Own, None, Some

\* What a task that posts or declares holds afterwards is its identity, changed.
LEMMA PostedIs ==
  ASSUME TypeInv, NEW t \in Task, Posts(t)
  PROVE  \E i \in rec[t], ok \in BOOLEAN :
           /\ rec[t] = Some(i) /\ GoodIdentity(i)
           /\ \A j \in rec'[t] : /\ j.key = i.key /\ j.doc = i.doc /\ j.ext = i.ext
                                 /\ j.registered = ok
           /\ core' = [core EXCEPT ![i.key] = Some(i.doc)] \/ (core' = core /\ ok = FALSE)
<1> DEFINE i == Only(rec[t])
<1>1. i \in rec[t] /\ rec[t] = Some(i) /\ GoodIdentity(i)
  BY OnlyIsGood DEF Posts, TypeInv
<1>2. PICK ok \in BOOLEAN : /\ rec'[t] = Some(Synced(i, ok))
                            /\ Reach(t) \/ (UNCHANGED core /\ ok = FALSE)
  BY DEF Posts
<1>3. \A j \in rec'[t] : j = Synced(i, ok)
  BY <1>2 DEF Some
<1>4. core' = [core EXCEPT ![i.key] = Some(i.doc)] \/ (core' = core /\ ok = FALSE)
  BY <1>2 DEF Reach
<1> HIDE DEF i
<1>5. \A j \in rec'[t] : j.key = i.key /\ j.doc = i.doc /\ j.ext = i.ext /\ j.registered = ok
  BY <1>1, <1>3, SyncedIsGood
<1> QED
  BY <1>1, <1>4, <1>5

LEMMA DeclaredIs ==
  ASSUME TypeInv, NEW t \in Task, Declaring(t)
  PROVE  \E i \in rec[t] : \E d \in Documents(i, Only(op[t])) :
           /\ rec[t] = Some(i) /\ GoodIdentity(i) /\ IsRequest(Only(op[t]))
           /\ \A j \in rec'[t] : j.key = i.key /\ j.doc = d /\ j.ext = i.ext /\ j.pending
<1> DEFINE i == Only(rec[t])
           o == Only(op[t])
<1>1. i \in rec[t] /\ rec[t] = Some(i) /\ GoodIdentity(i)
  BY OnlyIsGood DEF Declaring, TypeInv
<1>2. IsRequest(o)
  BY OnlyIsRequest DEF Declaring, TypeInv
<1>3. PICK d \in Documents(i, o) : rec'[t] = Some([i EXCEPT !.doc = d, !.pending = TRUE])
  BY DEF Declaring
<1>4. GoodDoc(d)
  BY <1>1, <1>2, DocumentsAreGood DEF GoodIdentity
<1> HIDE DEF i, o
<1>5. \A j \in rec'[t] : j.key = i.key /\ j.doc = d /\ j.ext = i.ext /\ j.pending
  <2> DEFINE k == [i EXCEPT !.doc = d, !.pending = TRUE]
  <2>1. k.key = i.key /\ k.doc = d /\ k.ext = i.ext /\ k.pending
    BY <1>1, <1>4, DeclaredIsGood
  <2>2. \A j \in rec'[t] : j = k
    BY <1>3 DEF Some
  <2> HIDE DEF k
  <2> QED
    BY <2>1, <2>2
<1> QED
  BY <1>1, <1>2, <1>3, <1>5 DEF o

LEMMA FileStep ==
  ASSUME TypeInv, FileInv, NEW t \in Task, AnyStep(t)
  PROVE  FileInv'
<1> USE OwnFacts
<1>1. \A u \in Task : u = t \/ (rec'[u] = rec[u] /\ pc'[u] = pc[u])
  BY DEF AnyStep, Leaves, Loads, Creates, Truncates, Fills, Posts, Declaring, Syncs, Others
<1>2. CASE Leaves(t)
  BY <1>1, <1>2 DEF Leaves, FileInv
<1>3. CASE Loads(t)
  <2>1. file.state = "absent" => rec'[t] = Some(EnvIdentity)
    BY <1>3 DEF Loads, TypeInv
  <2> QED
    BY <1>1, <1>3, <2>1 DEF Loads, FileInv
<1>4. CASE Creates(t)
  BY <1>1, <1>4 DEF Creates, FileInv
<1>5. CASE Truncates(t)
  BY <1>1, <1>5 DEF Truncates, FileInv
<1>6. CASE Fills(t)
  BY <1>6 DEF Fills, FileInv
<1>7. CASE Posts(t)
  BY <1>1, <1>7 DEF Posts, FileInv
<1>8. CASE Declaring(t)
  BY <1>1, <1>8 DEF Declaring, FileInv
<1>9. CASE Syncs(t)
  BY <1>1, <1>9 DEF Syncs, FileInv
<1> QED
  BY <1>2, <1>3, <1>4, <1>5, <1>6, <1>7, <1>8, <1>9 DEF AnyStep

\* Where no other key comes in, one key stays.
LEMMA KeysStay ==
  ASSUME KeyInv, raced' = raced,
         \A i \in Owned' : \E j \in Owned : i.key = j.key
  PROVE  KeyInv'
<1> SUFFICES ASSUME ~raced, NEW i \in Owned', NEW j \in Owned' PROVE i.key = j.key
  BY DEF KeyInv
<1>1. PICK k \in Owned : i.key = k.key
  OBVIOUS
<1>2. PICK l \in Owned : j.key = l.key
  OBVIOUS
<1> QED
  BY <1>1, <1>2 DEF KeyInv

LEMMA KeyStep ==
  ASSUME TypeInv, FileInv, KeyInv, NEW t \in Task, AnyStep(t)
  PROVE  KeyInv'
<1>1. \A u \in Task : u = t \/ (rec'[u] = rec[u] /\ pc'[u] = pc[u])
  BY DEF AnyStep, Leaves, Loads, Creates, Truncates, Fills, Posts, Declaring, Syncs, Others
<1>2. \A x : x \in Owned' <=> x \in Own(held') \/ \E u \in Task : x \in Own(rec'[u])
  BY DEF Owned, Own
<1>3. \A x : x \in Owned <=> x \in Own(held) \/ \E u \in Task : x \in Own(rec[u])
  BY DEF Owned
<1>4. ASSUME raced' = raced, held' = held \/ held' = rec[t],
             \A i \in Own(rec'[t]) : \E j \in Owned : i.key = j.key
      PROVE  KeyInv'
  <2>1. ASSUME NEW i \in Owned' PROVE \E j \in Owned : i.key = j.key
    BY <1>1, <1>2, <1>3, <1>4
  <2> QED
    BY <1>4, <2>1, KeysStay
<1>5. CASE Leaves(t) \/ Truncates(t) \/ Fills(t) \/ Syncs(t)
  <2>1. rec'[t] = None \/ rec'[t] = rec[t]
    BY <1>5 DEF Leaves, Truncates, Fills, Syncs
  <2>2. raced' = raced /\ (held' = held \/ held' = rec[t])
    BY <1>5 DEF Leaves, Truncates, Fills, Syncs
  <2> QED
    BY <1>3, <1>4, <2>1, <2>2, OwnFacts DEF None
<1>6. CASE Loads(t)
  <2>1. Own(rec'[t]) = None \/ rec'[t] = held
    BY <1>6, OwnFacts DEF Loads, FileInv
  <2>2. UNCHANGED <<raced, held>>
    BY <1>6 DEF Loads
  <2> QED
    BY <1>3, <1>4, <2>1, <2>2 DEF None
<1>7. CASE Posts(t)
  <2>1. PICK i \in rec[t] : \A j \in rec'[t] : j.key = i.key /\ j.ext = i.ext
    BY <1>7, PostedIs
  <2>2. UNCHANGED <<raced, held>>
    BY <1>7 DEF Posts
  <2>3. \A j \in Own(rec'[t]) : i \in Own(rec[t]) /\ j.key = i.key
    BY <2>1 DEF Own
  <2> QED
    BY <1>3, <1>4, <2>2, <2>3
<1>8. CASE Declaring(t)
  <2>1. PICK i \in rec[t] : \A j \in rec'[t] : j.key = i.key /\ j.ext = i.ext
    BY <1>8, DeclaredIs
  <2>2. UNCHANGED <<raced, held>>
    BY <1>8 DEF Declaring
  <2>3. \A j \in Own(rec'[t]) : i \in Own(rec[t]) /\ j.key = i.key
    BY <2>1 DEF Own
  <2> QED
    BY <1>3, <1>4, <2>2, <2>3
<1>9. CASE Creates(t)
  <2> SUFFICES ASSUME ~raced' PROVE KeyInv'
    BY DEF KeyInv
  <2>1. Own(held') = None
    BY <1>9, OwnFacts DEF Creates, FileInv
  <2>2. \A u \in Task \ {t} : Own(rec'[u]) = None
    BY <1>1, <1>9 DEF Creates, FileInv
  <2>3. \A i, j \in rec'[t] : i = j
    BY <1>9 DEF Creates, Some
  <2>4. \A i \in Owned' : i \in rec'[t]
    BY <1>2, <2>1, <2>2, OwnFacts DEF None
  <2> QED
    BY <2>3, <2>4 DEF KeyInv
<1> QED
  BY <1>5, <1>6, <1>7, <1>8, <1>9 DEF AnyStep

LEMMA SameIsSame ==
  ASSUME Same
  PROVE  (FileInv => FileInv') /\ (KeyInv => KeyInv')
BY DEF Same, FileInv, KeyInv, Owned

\* The key of the file, and with it the agent, changes only after two processes
\* have created an identity at the same time, or to that of an environment.
THEOREM OneKey == Spec => [](FileInv /\ KeyInv)
<1>1. Init => FileInv /\ KeyInv
  BY OwnFacts DEF Init, FileInv, KeyInv, Owned, None
<1>2. TypeInv /\ FileInv /\ KeyInv /\ [Next]_vars => (FileInv /\ KeyInv)'
  BY Kinds, FileStep, KeyStep, SameIsSame
<1> QED
  BY <1>1, <1>2, IdentityTypeCorrect, PTL DEF Spec

\* No interruption, unreadable file or refused registration makes the agent
\* someone else.
THEOREM TheKeyIsKept == Spec => KeyIsKept
<1>1. TypeInv /\ FileInv /\ KeyInv /\ [Next]_vars
        => [\A old \in held, new \in held' :
              old.key # new.key /\ ~old.ext => raced \/ new.ext]_vars
  <2> SUFFICES ASSUME TypeInv, FileInv, KeyInv, [Next]_vars, NEW old \in held, NEW new \in held',
                      ~old.ext, ~new.ext, ~raced
               PROVE  old.key = new.key
    OBVIOUS
  <2>1. old \in Owned
    BY DEF Owned, Own
  <2>2. new \in held \/ \E t \in Task : new \in rec[t]
    <3>1. held' = held \/ \E t \in Task : held' = rec[t]
      BY Kinds DEF Same, AnyStep, Leaves, Loads, Creates, Truncates, Fills, Posts, Declaring, Syncs
    <3> QED
      BY <3>1
  <2>3. new \in Owned
    BY <2>2 DEF Owned, Own
  <2> QED
    BY <2>1, <2>3 DEF KeyInv
<1> QED
  BY <1>1, IdentityTypeCorrect, OneKey, PTL DEF Spec, KeyIsKept
-----------------------------------------------------------------------------
(* Saves.                                                                   *)

Settled(i) == i.registered /\ ~i.pending

Agree(i, j) == i.key = j.key /\ i.doc = j.doc

\* What a task that nobody saved over goes on from, or has posted and will save.
Based(t) ==
  {i \in Own(rec[t]) :
     /\ t \notin stale
     /\ pc[t] \in {"main", "post"} \/ (pc[t] = "truncate" /\ Settled(i))}

\* What a task is about to save.
Saving(t) == IF pc[t] = "fill" \/ (pc[t] = "truncate" /\ t \notin stale) THEN Own(rec[t]) ELSE None

\* Between the two steps of a save every other task with an identity of its own
\* knows too little, and what is in the file by then is the environment's.
FillInv ==
  \A t \in Task : pc[t] = "fill" /\ Own(rec[t]) # None =>
    /\ \A u \in Task \ {t} : Own(rec[u]) # None => u \in stale /\ pc[u] # "fill"
    /\ file.state # "empty" => Own(held) = None

\* Tasks that nobody saved over have the document of the file, and so each other's.
BaseInv ==
  \A t \in Task : \A i \in Based(t) :
    /\ \A h \in Own(held) : Agree(i, h)
    /\ \A u \in Task : \A j \in Based(u) : Agree(i, j)

\* What is settled, in the file or on its way there, is what Core hosts.
CoreInv ==
  /\ \A i \in Own(file.rec) : Settled(i) => core[i.key] = Some(i.doc)
  /\ \A t \in Task : \A i \in Saving(t) : Settled(i) => core[i.key] = Some(i.doc)

\* A save that comes keeps the fields its request does not name.
KeepInv ==
  \A t \in Task : \A i \in Saving(t), h \in Own(held) : \A f \in Unnamed(t) :
    RouteFromDocument(i.doc)[f] = RouteFromDocument(h.doc)[f]

SaveInv == ~lost => FillInv /\ BaseInv /\ CoreInv /\ KeepInv

StateInv == TypeInv /\ FileInv

LEMMA OwnMember ==
  ASSUME NEW x, Whole(x), NEW i \in Own(x)
  PROVE  i \in x /\ x = Some(i) /\ GoodIdentity(i) /\ i.key # EnvKey /\ \A j \in x : j = i
<1>1. i \in x /\ ~i.ext
  BY DEF Own
<1>2. x = Some(i) /\ GoodIdentity(i) /\ \A j \in x : j = i
  BY <1>1, WholeFacts
<1> QED
  BY <1>1, <1>2 DEF GoodIdentity

\* A task posts or declares an identity of its own only when it had one.
LEMMA OwnStays ==
  ASSUME TypeInv, NEW t \in Task, Posts(t) \/ Declaring(t)
  PROVE  Own(rec'[t]) # None => Own(rec[t]) # None
<1>1. PICK i \in rec[t] : \A j \in rec'[t] : j.ext = i.ext
  BY PostedIs, DeclaredIs
<1> QED
  BY <1>1 DEF Own, None

LEMMA FillStep ==
  ASSUME StateInv, FillInv, NEW t \in Task, AnyStep(t), ~lost'
  PROVE  FillInv'
<1> SUFFICES ASSUME NEW v \in Task, pc'[v] = "fill", Own(rec'[v]) # None
             PROVE  /\ \A u \in Task \ {v} : Own(rec'[u]) # None => u \in stale' /\ pc'[u] # "fill"
                    /\ file'.state # "empty" => Own(held') = None
  BY DEF FillInv, Own
<1>1. \A u \in Task : u = t \/ (rec'[u] = rec[u] /\ pc'[u] = pc[u])
  BY DEF AnyStep, Leaves, Loads, Creates, Truncates, Fills, Posts, Declaring, Syncs, Others
<1>2. ASSUME v # t
      PROVE  /\ \A u \in Task \ {v} : Own(rec[u]) # None => u \in stale /\ pc[u] # "fill"
             /\ file.state # "empty" => Own(held) = None
             /\ pc[v] = "fill"
  BY <1>1, <1>2 DEF FillInv
<1>3. CASE Leaves(t)
  <2>1. v # t /\ rec'[t] = None /\ stale' = stale \ {t} /\ UNCHANGED <<file, held>>
    BY <1>3 DEF Leaves
  <2> QED
    BY <1>1, <1>2, <2>1, OwnFacts
<1>4. CASE Loads(t)
  <2>1. v # t /\ UNCHANGED <<file, held, stale>>
    BY <1>4 DEF Loads
  <2>2. Own(rec'[t]) = None
    <3>1. CASE rec'[t] = Some(EnvIdentity)
      BY <3>1, OwnFacts
    <3>2. CASE file.rec # None /\ rec'[t] = file.rec
      <4>1. file.state = "whole" /\ rec'[t] = held
        BY <3>2 DEF StateInv, TypeInv, FileInv
      <4> QED
        BY <1>2, <2>1, <4>1
    <3> QED
      BY <1>4, <3>1, <3>2 DEF Loads
  <2> QED
    BY <1>1, <1>2, <2>1, <2>2
<1>5. CASE Creates(t)
  BY <1>1, <1>5 DEF Creates, StateInv, FileInv
<1>6. CASE Truncates(t)
  <2>1. /\ t \notin stale /\ file'.state = "empty" /\ rec'[t] = rec[t]
        /\ stale' = stale \cup {u \in Task \ {t} : rec[u] # None}
    BY <1>6 DEF Truncates
  <2>2. CASE v = t
    <3>1. ASSUME NEW u \in Task \ {t}, Own(rec[u]) # None PROVE u \in stale' /\ pc[u] # "fill"
      BY <2>1, <2>2, <3>1, OwnFacts DEF FillInv
    <3> QED
      BY <1>1, <2>1, <2>2, <3>1
  <2>3. CASE v # t
    BY <1>1, <1>2, <2>1, <2>3
  <2> QED
    BY <2>2, <2>3
<1>7. CASE Fills(t)
  <2>1. /\ v # t /\ pc[t] = "fill"
        /\ \/ held' = rec[t]
           \/ held' = held /\ file.state # "empty"
        /\ rec'[t] = None \/ rec'[t] = rec[t]
        /\ \A u \in Task \ {t} : u \in stale' <=> u \in stale
    BY <1>7 DEF Fills
  <2>2. Own(rec[t]) = None
    BY <1>2, <2>1
  <2> QED
    BY <1>1, <1>2, <2>1, <2>2, OwnFacts
<1>8. CASE Posts(t)
  <2>1. v # t /\ t \notin stale /\ UNCHANGED <<file, held, stale>>
    BY <1>8 DEF Posts
  <2> QED
    BY <1>1, <1>2, <1>8, <2>1, OwnStays DEF StateInv
<1>9. CASE Declaring(t)
  <2>1. v # t /\ pc'[t] = "truncate" /\ UNCHANGED <<file, held, stale>>
    BY <1>9 DEF Declaring
  <2> QED
    BY <1>1, <1>2, <1>9, <2>1, OwnStays DEF StateInv
<1>10. CASE Syncs(t)
  <2>1. v # t /\ pc'[t] = "post" /\ rec'[t] = rec[t] /\ UNCHANGED <<file, held, stale>>
    BY <1>10 DEF Syncs
  <2> QED
    BY <1>1, <1>2, <2>1
<1> QED
  BY <1>3, <1>4, <1>5, <1>6, <1>7, <1>8, <1>9, <1>10 DEF AnyStep

\* What a step leaves of the bases and the saves of the others.
LEMMA OthersStay ==
  ASSUME NEW t \in Task, AnyStep(t), ~Truncates(t), NEW u \in Task \ {t}
  PROVE  /\ \A x : x \in Based(u)' => x \in Based(u)
         /\ \A x : x \in Saving(u)' => x \in Saving(u)
         /\ Unnamed(u)' = Unnamed(u)
<1>1. rec'[u] = rec[u] /\ pc'[u] = pc[u] /\ op'[u] = op[u]
  BY DEF AnyStep, Leaves, Loads, Creates, Truncates, Fills, Posts, Declaring, Syncs, Others
<1>2. u \in stale' <=> u \in stale
  BY DEF AnyStep, Leaves, Loads, Creates, Fills, Posts, Declaring, Syncs
<1> QED
  BY <1>1, <1>2 DEF Based, Saving, Unnamed, Own

LEMMA TruncateLeaves ==
  ASSUME TypeInv, NEW t \in Task, Truncates(t), ~lost', NEW u \in Task
  PROVE  /\ \A x : x \notin Based(u)'
         /\ \A x : x \in Saving(u)' => x \in Saving(u)
         /\ Unnamed(u)' = Unnamed(u)
<1>1. /\ t \notin stale /\ pc[t] = "truncate" /\ pc'[t] = "fill" /\ rec'[t] = rec[t] /\ op'[t] = op[t]
      /\ stale' = stale \cup {v \in Task \ {t} : rec[v] # None}
  BY DEF Truncates
<1>2. u # t => rec'[u] = rec[u] /\ pc'[u] = pc[u] /\ op'[u] = op[u]
  BY DEF Truncates, Others
<1>3. u # t => \A x : x \in Own(rec[u]) => u \in stale'
  BY <1>1, OwnFacts DEF None
<1> QED
  BY <1>1, <1>2, <1>3 DEF Based, Saving, Unnamed, Own, None

LEMMA BaseStep ==
  ASSUME StateInv, FillInv, BaseInv, NEW t \in Task, AnyStep(t), ~lost'
  PROVE  BaseInv'
<1> SUFFICES ASSUME NEW u \in Task, NEW i \in Based(u)'
             PROVE  /\ \A h \in Own(held') : Agree(i, h)
                    /\ \A v \in Task : \A j \in Based(v)' : Agree(i, j)
  BY DEF BaseInv, Own, Agree
<1>0. ASSUME Own(held') = None \/ held' = held,
             \A v \in Task : \A x \in Based(v)' : \E y \in Based(v) : Agree(x, y)
      PROVE  /\ \A h \in Own(held') : Agree(i, h)
             /\ \A v \in Task : \A j \in Based(v)' : Agree(i, j)
  <2>1. PICK y \in Based(u) : Agree(i, y)
    BY <1>0
  <2>2. ASSUME NEW h \in Own(held') PROVE Agree(i, h)
    <3>1. h \in Own(held)
      BY <1>0, <2>2 DEF None
    <3> QED
      BY <2>1, <3>1 DEF BaseInv, Agree
  <2>3. ASSUME NEW v \in Task, NEW j \in Based(v)' PROVE Agree(i, j)
    <3>1. PICK z \in Based(v) : Agree(j, z)
      BY <1>0, <2>3
    <3> QED
      BY <2>1, <3>1 DEF BaseInv, Agree
  <2> QED
    BY <2>2, <2>3
<1>1. CASE Truncates(t)
  BY <1>1, TruncateLeaves DEF StateInv
<1>2. ASSUME ~Truncates(t), Own(held') = None \/ held' = held,
             \A x \in Based(t)' : \E y \in Based(t) : Agree(x, y)
      PROVE  /\ \A h \in Own(held') : Agree(i, h)
             /\ \A v \in Task : \A j \in Based(v)' : Agree(i, j)
  <2>1. ASSUME NEW v \in Task, NEW x \in Based(v)' PROVE \E y \in Based(v) : Agree(x, y)
    BY <1>2, <2>1, OthersStay DEF Agree
  <2> QED
    BY <1>0, <1>2, <2>1
<1>3. ASSUME ~Truncates(t), Own(held') = None \/ held' = held, \A x : x \notin Based(t)'
      PROVE  /\ \A h \in Own(held') : Agree(i, h)
             /\ \A v \in Task : \A j \in Based(v)' : Agree(i, j)
  BY <1>2, <1>3
<1>4. CASE Leaves(t)
  <2>1. rec'[t] = None /\ held' = held /\ ~Truncates(t)
    BY <1>4 DEF Leaves, Truncates
  <2> QED
    BY <1>3, <2>1 DEF Based, Own, None
<1>5. CASE Loads(t)
  <2>1. held' = held /\ ~Truncates(t) /\ (rec'[t] = Some(EnvIdentity) \/ (file.rec # None /\ rec'[t] = file.rec))
    BY <1>5 DEF Loads, Truncates
  <2>2. CASE rec'[t] = Some(EnvIdentity)
    BY <1>3, <2>1, <2>2, OwnFacts DEF Based, Own, None
  <2>3. CASE file.rec # None /\ rec'[t] = file.rec
    <3>1. rec'[t] = held
      BY <2>3 DEF StateInv, FileInv
    <3>2. \A x \in Based(t)' : x \in Own(held)
      BY <3>1 DEF Based, Own
    <3>3. \A x, y \in Own(held) : Agree(x, y)
      BY OwnMember DEF StateInv, TypeInv, Agree
    <3>4. \A v \in Task \ {t} : \A x \in Based(v)' : x \in Based(v)
      BY <2>1, OthersStay
    <3>5. \A v \in Task : \A x \in Based(v), h \in Own(held) : Agree(x, h) /\ Agree(h, x)
      BY DEF BaseInv, Agree
    <3>6. \A v \in Task : \A x \in Based(v)' : x \in Own(held) \/ x \in Based(v)
      BY <3>2, <3>4
    <3> QED
      BY <2>1, <3>3, <3>5, <3>6 DEF BaseInv
  <2> QED
    BY <2>1, <2>2, <2>3
<1>6. CASE Creates(t)
  <2>1. PICK k \in Key \ {EnvKey} : rec'[t] = Some(CreatedIdentity(k))
    BY <1>6 DEF Creates
  <2>2. \A x \in rec'[t] : ~Settled(x)
    BY <2>1, CreatedIsGood DEF Some, Settled
  <2>3. \A x : x \notin Based(t)'
    BY <1>6, <2>2 DEF Creates, Based, Own, Settled
  <2> QED
    BY <1>3, <1>6, <2>3 DEF Creates, Truncates
<1>7. CASE Fills(t)
  <2>1. /\ ~Truncates(t) /\ pc[t] = "fill"
        /\ \/ held' = rec[t]
           \/ held' = held /\ file.state # "empty"
        /\ \/ rec'[t] = None
           \/ rec'[t] = rec[t]
    BY <1>7 DEF Fills, Truncates
  <2>2. CASE Own(rec[t]) = None
    <3>1. \A x : x \notin Based(t)'
      BY <2>1, <2>2, OwnFacts DEF Based, Own, None
    <3> QED
      BY <1>3, <2>1, <2>2, <3>1
  <2>3. CASE Own(rec[t]) # None
    <3>1. ASSUME NEW v \in Task \ {t}, NEW x \in Based(v)' PROVE FALSE
      <4>1. x \in Based(v)
        BY <2>1, <3>1, OthersStay
      <4>2. x \in Own(rec[v]) /\ v \notin stale
        BY <4>1 DEF Based
      <4> QED
        BY <2>1, <2>3, <4>2 DEF FillInv, None
    <3>2. \A x \in Based(t)' : x \in Own(rec[t])
      BY <2>1, OwnFacts DEF Based, Own, None
    <3>3. \A x \in Own(held') : x \in Own(rec[t])
      BY <2>1, <2>3 DEF FillInv, None
    <3>4. \A x, y \in Own(rec[t]) : Agree(x, y)
      BY OwnMember DEF StateInv, TypeInv, Agree
    <3> QED
      BY <3>1, <3>2, <3>3, <3>4
  <2> QED
    BY <2>2, <2>3
<1>8. CASE Posts(t)
  <2>1. ~Truncates(t) /\ held' = held /\ t \notin stale /\ pc[t] = "post"
    BY <1>8 DEF Posts, Truncates
  <2>2. PICK k \in rec[t] : \A j \in rec'[t] : j.key = k.key /\ j.doc = k.doc /\ j.ext = k.ext
    BY <1>8, PostedIs DEF StateInv
  <2>3. \A x \in Based(t)' : k \in Based(t) /\ Agree(x, k)
    BY <2>1, <2>2 DEF Based, Own, Agree
  <2> QED
    BY <1>2, <2>1, <2>3
<1>9. CASE Declaring(t)
  <2>1. ~Truncates(t) /\ held' = held /\ pc'[t] = "truncate"
    BY <1>9 DEF Declaring, Truncates
  <2>2. \A j \in rec'[t] : j.pending
    BY <1>9, DeclaredIs DEF StateInv
  <2>3. \A x : x \notin Based(t)'
    BY <2>1, <2>2 DEF Based, Own, Settled
  <2> QED
    BY <1>3, <2>1, <2>3
<1>10. CASE Syncs(t)
  <2>1. ~Truncates(t) /\ held' = held /\ pc'[t] = "post" /\ pc[t] = "main" /\ rec'[t] = rec[t] /\ stale' = stale
    BY <1>10 DEF Syncs, Truncates
  <2>2. \A x \in Based(t)' : x \in Based(t)
    BY <2>1 DEF Based, Own
  <2> QED
    BY <1>2, <2>1, <2>2 DEF Agree
<1> QED
  BY <1>1, <1>4, <1>5, <1>6, <1>7, <1>8, <1>9, <1>10 DEF AnyStep

LEMMA CoreStep ==
  ASSUME StateInv, FillInv, BaseInv, CoreInv, NEW t \in Task, AnyStep(t), ~lost'
  PROVE  CoreInv'
<1> SUFFICES /\ \A i \in Own(file'.rec) : Settled(i) => core'[i.key] = Some(i.doc)
             /\ \A u \in Task : \A i \in Saving(u)' : Settled(i) => core'[i.key] = Some(i.doc)
  BY DEF CoreInv, Own, Settled
<1>1. CASE Posts(t)
  <2>1. /\ ~Truncates(t) /\ UNCHANGED <<file, held, stale>> /\ t \notin stale /\ pc[t] = "post"
        /\ pc'[t] = "truncate"
    BY <1>1 DEF Posts, Truncates
  <2>2. PICK k \in rec[t], ok \in BOOLEAN :
          /\ GoodIdentity(k)
          /\ \A j \in rec'[t] : /\ j.key = k.key /\ j.doc = k.doc /\ j.ext = k.ext
                                /\ j.registered = ok
          /\ core' = [core EXCEPT ![k.key] = Some(k.doc)] \/ (core' = core /\ ok = FALSE)
    BY <1>1, PostedIs DEF StateInv
  <2>3. \A x : x \in Saving(t)' => x \in Own(rec'[t])
    BY <2>1 DEF Saving, Own, None
  <2>4. \A u \in Task \ {t} : \A x \in Saving(u)' : x \in Saving(u)
    BY <2>1, OthersStay
  <2>5. ASSUME NEW u \in Task \ {t}, NEW x \in Saving(u), Settled(x), ~k.ext PROVE Agree(x, k)
    <3>1. k \in Based(t) /\ Own(rec[t]) # None
      BY <2>1, <2>5 DEF Based, Own, None
    <3>2. x \in Own(rec[u]) /\ (pc[u] = "fill" \/ (pc[u] = "truncate" /\ u \notin stale))
      BY <2>5 DEF Saving, None
    <3>3. pc[u] # "fill"
      BY <2>1, <3>1, <3>2 DEF FillInv, None
    <3>4. x \in Based(u)
      BY <2>5, <3>2, <3>3 DEF Based
    <3> QED
      BY <3>1, <3>4 DEF BaseInv
  <2>6. ASSUME NEW x \in Own(file.rec), ~k.ext PROVE Agree(x, k)
    <3>1. k \in Based(t) /\ x \in Own(held)
      BY <2>1, <2>6, OwnFacts DEF Based, Own, None, StateInv, FileInv
    <3> QED
      BY <3>1 DEF BaseInv, Agree
  <2>7. \A x \in Own(file.rec) : x.key # EnvKey
    BY OwnMember DEF StateInv, TypeInv
  <2>8. \A u \in Task : \A x \in Saving(u) : x.key # EnvKey
    BY OwnMember DEF StateInv, TypeInv, Saving, None
  <2>9. k.ext => k.key = EnvKey
    BY <2>2 DEF GoodIdentity
  <2>10. DOMAIN core = Key /\ k.key \in Key
    BY <2>2 DEF StateInv, TypeInv, GoodIdentity
  <2>11. CASE core' = core /\ ok = FALSE
    BY <2>1, <2>2, <2>3, <2>4, <2>11 DEF CoreInv, Own, Settled
  <2>12. CASE core' = [core EXCEPT ![k.key] = Some(k.doc)]
    <3>1. core'[k.key] = Some(k.doc) /\ \A c : c # k.key => core'[c] = core[c]
      BY <2>10, <2>12
    <3>2. ASSUME NEW i \in Own(file'.rec), Settled(i) PROVE core'[i.key] = Some(i.doc)
      <4>1. CASE k.ext
        BY <2>1, <2>7, <2>9, <3>1, <3>2, <4>1 DEF CoreInv
      <4>2. CASE ~k.ext
        BY <2>1, <2>6, <3>1, <3>2, <4>2 DEF Agree
      <4> QED
        BY <2>2, <4>1, <4>2
    <3>3. ASSUME NEW u \in Task, NEW i \in Saving(u)', Settled(i) PROVE core'[i.key] = Some(i.doc)
      <4>1. CASE u = t
        BY <2>2, <2>3, <3>1, <3>3, <4>1 DEF Own
      <4>2. CASE u # t /\ k.ext
        BY <2>4, <2>8, <2>9, <3>1, <3>3, <4>2 DEF CoreInv
      <4>3. CASE u # t /\ ~k.ext
        BY <2>4, <2>5, <3>1, <3>3, <4>3 DEF Agree
      <4> QED
        BY <2>2, <4>1, <4>2, <4>3
    <3> QED
      BY <3>2, <3>3
  <2> QED
    BY <2>2, <2>11, <2>12
<1>2. ASSUME core' = core,
             \A x \in Own(file'.rec) : x \in Own(file.rec) \/ x \in Saving(t),
             \A x \in Saving(t)' : x \in Saving(t) \/ ~Settled(x)
      PROVE  /\ \A i \in Own(file'.rec) : Settled(i) => core'[i.key] = Some(i.doc)
             /\ \A u \in Task : \A i \in Saving(u)' : Settled(i) => core'[i.key] = Some(i.doc)
  <2>1. \A u \in Task \ {t} : \A x \in Saving(u)' : x \in Saving(u)
    BY OthersStay, TruncateLeaves DEF StateInv
  <2> QED
    BY <1>2, <2>1 DEF CoreInv
<1>3. CASE Leaves(t) \/ Loads(t) \/ Syncs(t)
  <2>1. UNCHANGED <<core, file>> /\ pc'[t] \notin {"truncate", "fill"}
    BY <1>3 DEF Leaves, Loads, Syncs
  <2> QED
    BY <1>2, <2>1 DEF Saving, None
<1>4. CASE Creates(t)
  <2>1. PICK k \in Key \ {EnvKey} : rec'[t] = Some(CreatedIdentity(k))
    BY <1>4 DEF Creates
  <2>2. \A x \in rec'[t] : ~Settled(x)
    BY <2>1, CreatedIsGood DEF Some, Settled
  <2>3. \A x \in Saving(t)' : ~Settled(x)
    BY <2>2 DEF Saving, Own, None, Settled
  <2> QED
    BY <1>2, <1>4, <2>3 DEF Creates
<1>5. CASE Truncates(t)
  <2>1. core' = core /\ Own(file'.rec) = None
    BY <1>5, OwnFacts DEF Truncates
  <2>2. \A x \in Saving(t)' : x \in Saving(t)
    BY <1>5, TruncateLeaves DEF StateInv
  <2> QED
    BY <1>2, <2>1, <2>2 DEF None
<1>6. CASE Fills(t)
  <2>1. core' = core /\ pc'[t] \notin {"truncate", "fill"} /\ pc[t] = "fill"
        /\ (file'.rec = rec[t] \/ file'.rec = None)
    BY <1>6 DEF Fills
  <2> QED
    BY <1>2, <2>1, OwnFacts DEF Saving, None
<1>7. CASE Declaring(t)
  <2>1. \A j \in rec'[t] : j.pending
    BY <1>7, DeclaredIs DEF StateInv
  <2>2. \A x \in Saving(t)' : ~Settled(x)
    BY <2>1 DEF Saving, Own, None, Settled
  <2> QED
    BY <1>2, <1>7, <2>2 DEF Declaring
<1> QED
  BY <1>1, <1>3, <1>4, <1>5, <1>6, <1>7 DEF AnyStep

LEMMA KeepStep ==
  ASSUME StateInv, FillInv, BaseInv, KeepInv, NEW t \in Task, AnyStep(t), ~lost'
  PROVE  KeepInv'
<1> SUFFICES ASSUME NEW u \in Task, NEW i \in Saving(u)', NEW h \in Own(held'),
                    NEW f \in Unnamed(u)'
             PROVE  RouteFromDocument(i.doc)[f] = RouteFromDocument(h.doc)[f]
  BY DEF KeepInv, Own
<1>1. u # t => i \in Saving(u) /\ f \in Unnamed(u)
  BY OthersStay, TruncateLeaves DEF StateInv
<1>2. ASSUME held' = held, i \in Saving(u), f \in Unnamed(u)
      PROVE  RouteFromDocument(i.doc)[f] = RouteFromDocument(h.doc)[f]
  BY <1>2 DEF KeepInv
<1>3. CASE Leaves(t) \/ Loads(t) \/ Syncs(t)
  <2>1. held' = held /\ pc'[t] \notin {"truncate", "fill"}
    BY <1>3 DEF Leaves, Loads, Syncs
  <2>2. u # t
    BY <2>1 DEF Saving, None
  <2> QED
    BY <1>1, <1>2, <2>1, <2>2
<1>4. CASE Creates(t)
  <2>1. held' = held /\ Own(held) = None
    BY <1>4, OwnFacts DEF Creates, StateInv, FileInv
  <2> QED
    BY <2>1 DEF None
<1>5. CASE Truncates(t)
  <2>1. i \in Saving(u) /\ f \in Unnamed(u) /\ held' = held
    BY <1>5, TruncateLeaves DEF StateInv, Truncates
  <2> QED
    BY <1>2, <2>1
<1>6. CASE Fills(t)
  <2>1. /\ pc'[t] \notin {"truncate", "fill"} /\ pc[t] = "fill" /\ ~Truncates(t)
        /\ held' = rec[t] \/ held' = held
    BY <1>6 DEF Fills, Truncates
  <2>2. u # t /\ i \in Saving(u)
    BY <1>1, <2>1 DEF Saving, None
  <2>3. i \in Own(rec[u]) /\ (pc[u] = "fill" \/ u \notin stale)
    BY <2>2 DEF Saving, None
  <2>4. Own(rec[t]) = None
    BY <2>1, <2>2, <2>3 DEF FillInv, None
  <2>5. held' = held
    BY <2>1, <2>4 DEF None
  <2> QED
    BY <1>1, <1>2, <2>2, <2>5
<1>7. CASE Posts(t)
  <2>1. held' = held /\ t \notin stale /\ pc[t] = "post"
    BY <1>7 DEF Posts
  <2>2. PICK k \in rec[t] : \A j \in rec'[t] : j.key = k.key /\ j.doc = k.doc /\ j.ext = k.ext
    BY <1>7, PostedIs DEF StateInv
  <2>3. CASE u = t
    <3>1. i \in rec'[t] /\ ~i.ext
      BY <2>3 DEF Saving, Own, None
    <3>2. k \in Based(t)
      BY <2>1, <2>2, <3>1 DEF Based, Own
    <3>3. k.doc = h.doc
      BY <2>1, <3>2 DEF BaseInv, Agree
    <3> QED
      BY <2>2, <3>1, <3>3
  <2> QED
    BY <1>1, <1>2, <2>1, <2>3
<1>8. CASE Declaring(t)
  <2>1. held' = held /\ pc[t] = "main" /\ stale' = stale /\ pc'[t] = "truncate" /\ op'[t] = op[t]
        /\ Declares(Only(op[t]))
    BY <1>8 DEF Declaring
  <2>2. PICK k \in rec[t] : \E d \in Documents(k, Only(op[t])) :
           /\ GoodIdentity(k) /\ IsRequest(Only(op[t]))
           /\ \A j \in rec'[t] : j.key = k.key /\ j.doc = d /\ j.ext = k.ext
    BY <1>8, DeclaredIs DEF StateInv
  <2>3. CASE u = t
    <3>1. i \in rec'[t] /\ ~i.ext /\ t \notin stale
      BY <2>1, <2>3 DEF Saving, Own, None
    <3>2. k \in Based(t)
      BY <2>1, <2>2, <3>1 DEF Based, Own
    <3>3. k.doc = h.doc
      BY <2>1, <3>2 DEF BaseInv, Agree
    <3>4. i.doc \in Documents(k, Only(op[t])) /\ GoodDoc(k.doc) /\ IsRequest(Only(op[t]))
      BY <2>2, <3>1 DEF GoodIdentity
    <3>5. f \in RouteFields \ Named(Only(op[t]))
      BY <2>1, <2>3 DEF Unnamed
    <3> QED
      BY <2>1, <3>3, <3>4, <3>5, DocumentsKeep
  <2> QED
    BY <1>1, <1>2, <2>1, <2>3
<1> QED
  BY <1>3, <1>4, <1>5, <1>6, <1>7, <1>8 DEF AnyStep

LEMMA SaveStep ==
  ASSUME StateInv, SaveInv, NEW t \in Task, AnyStep(t)
  PROVE  SaveInv'
<1>1. lost => lost'
  BY DEF AnyStep, Leaves, Loads, Creates, Truncates, Fills, Posts, Declaring, Syncs
<1> SUFFICES ASSUME ~lost' PROVE (FillInv /\ BaseInv /\ CoreInv /\ KeepInv)'
  BY DEF SaveInv
<1>2. FillInv /\ BaseInv /\ CoreInv /\ KeepInv
  BY <1>1 DEF SaveInv
<1> QED
  BY <1>2, FillStep, BaseStep, CoreStep, KeepStep

LEMMA SaveStays ==
  ASSUME SaveInv, Same
  PROVE  SaveInv'
<1>1. /\ \A u \in Task : Based(u)' = Based(u) /\ Saving(u)' = Saving(u) /\ Unnamed(u)' = Unnamed(u)
      /\ UNCHANGED <<lost, file, core, held>>
  BY DEF Same, Based, Saving, Unnamed, Own
<1>2. FillInv => FillInv'
  BY DEF Same, FillInv
<1>3. BaseInv => BaseInv'
  BY <1>1 DEF BaseInv, Own
<1>4. CoreInv => CoreInv'
  BY <1>1 DEF CoreInv, Own
<1>5. KeepInv => KeepInv'
  BY <1>1 DEF KeepInv, Own
<1> QED
  BY <1>1, <1>2, <1>3, <1>4, <1>5 DEF SaveInv

\* While no task goes on with an identity that another saved over, what tasks
\* and the file hold agrees with what they hold and with Core.
THEOREM SavesAgree == Spec => []SaveInv
<1>1. Init => SaveInv
  <2> SUFFICES ASSUME Init PROVE FillInv /\ BaseInv /\ CoreInv /\ KeepInv
    BY DEF SaveInv
  <2>1. /\ \A t \in Task : pc[t] = "idle" /\ rec[t] = None
        /\ file.rec = None /\ held = None
    BY DEF Init
  <2>2. \A t \in Task : \A x : x \notin Based(t) /\ x \notin Saving(t)
    BY <2>1 DEF Based, Saving, None
  <2> QED
    BY <2>1, <2>2, OwnFacts DEF FillInv, BaseInv, CoreInv, KeepInv, None
<1>2. TypeInv /\ FileInv /\ SaveInv /\ [Next]_vars => SaveInv'
  BY Kinds, SaveStep, SaveStays DEF StateInv
<1> QED
  BY <1>1, <1>2, IdentityTypeCorrect, OneKey, PTL DEF Spec

\* An identity the file calls registered and not pending is one Core hosts with
\* that very document, whatever call, answer or process was lost on the way.
THEOREM SettledIsHosted == Spec => []SettledMatchesCore
<1>1. SaveInv => SettledMatchesCore
  BY DEF SaveInv, CoreInv, SettledMatchesCore, Own, Settled
<1> QED
  BY <1>1, SavesAgree, PTL

\* A save changes no field of the route that its request does not name.
THEOREM DeclaredStays == Spec => DeclaredIsKept
<1>1. TypeInv /\ SaveInv /\ [Next]_vars
        => [\A t \in Task : \A old \in held, new \in held' :
              pc[t] = "fill" /\ pc'[t] # "fill" /\ ~lost /\ ~old.ext /\ ~new.ext =>
                \A f \in Unnamed(t) :
                  RouteFromDocument(new.doc)[f] = RouteFromDocument(old.doc)[f]]_vars
  <2> SUFFICES ASSUME TypeInv, SaveInv, [Next]_vars, NEW t \in Task, NEW old \in held, NEW new \in held',
                      pc[t] = "fill", pc'[t] # "fill", ~lost, ~old.ext, ~new.ext, NEW f \in Unnamed(t)
               PROVE  RouteFromDocument(new.doc)[f] = RouteFromDocument(old.doc)[f]
    OBVIOUS
  <2>1. held' = held \/ held' = rec[t]
    <3>1. PICK u \in Task : AnyStep(u)
      BY Kinds DEF Same
    <3>2. u = t
      BY <3>1 DEF AnyStep, Leaves, Loads, Creates, Truncates, Fills, Posts, Declaring, Syncs, Others
    <3> QED
      BY <3>1, <3>2 DEF AnyStep, Leaves, Loads, Creates, Truncates, Fills, Posts, Declaring, Syncs
  <2>2. CASE held' = held
    <3>1. new = old
      BY <2>2, WholeFacts DEF TypeInv
    <3> QED
      BY <3>1
  <2>3. CASE held' = rec[t]
    <3>1. new \in Saving(t) /\ old \in Own(held)
      BY <2>3 DEF Saving, Own
    <3> QED
      BY <3>1 DEF SaveInv, KeepInv
  <2> QED
    BY <2>1, <2>2, <2>3
<1> QED
  BY <1>1, IdentityTypeCorrect, SavesAgree, PTL DEF Spec, DeclaredIsKept
=============================================================================
