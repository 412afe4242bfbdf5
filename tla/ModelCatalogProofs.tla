------------------------- MODULE ModelCatalogProofs -------------------------
(***************************************************************************)
(* The configuration a request is served was current, and the catalog it   *)
(* is shown is right under it, for any number of requests, documents and   *)
(* entries and any lifetimes of the two caches.  What a catalog shows is   *)
(* what a request may ask for, for every configuration, client and answer  *)
(* of the services: exposedClientModels of src/models.ts and               *)
(* resolveModelRoute of src/routing.ts, written apart from each other, are *)
(* inverse to each other.                                                  *)
(***************************************************************************)
EXTENDS ModelCatalog, ArraysProofs, FiniteSetTheorems

-----------------------------------------------------------------------------
(* The routes. *)

\* Services are a sequence and have numbers for priorities.
Prioritized(config) ==
  /\ \E n \in Nat : DOMAIN config.services = 1 .. n
  /\ \A i \in DOMAIN config.services : config.services[i].priority \in Int

\* A service is shown under a name exactly when a request for that name may go
\* to it, and then the request asks it for the model that was shown.
LEMMA ExposedIsRouted ==
  ASSUME NEW config, NEW client, NEW i \in Open(config, client), NEW m, NEW u
  PROVE  m \in exposedClientModels(config.services[i], u,
                 modelRoutesForService(config, client, config.services[i]))
         <=> /\ i \in resolveModelRoute(config, client, m)
             /\ UpstreamModel(config, client, i, m) = u
<1> DEFINE s == config.services[i]
           routes == modelRoutesForService(config, client, s)
<1>1. i \in resolveModelRoute(config, client, m)
      <=> /\ m \in DOMAIN routes => routeAllowsService(routes[m], s.id)
          /\ UpstreamModel(config, client, i, m) \in s.models
  BY DEF resolveModelRoute
<1>2. UpstreamModel(config, client, i, m) = IF m \in DOMAIN routes THEN routes[m].model ELSE m
  BY DEF UpstreamModel
<1>3. m \in exposedClientModels(s, u, routes)
      <=> /\ u \in s.models
          /\ \/ m = u /\ u \notin DOMAIN routes
             \/ /\ m \in DOMAIN routes
                /\ routes[m].model = u
                /\ routeAllowsService(routes[m], s.id)
  BY DEF exposedClientModels
<1>4. CASE m \in DOMAIN routes
  BY <1>1, <1>2, <1>3, <1>4
<1>5. CASE m \notin DOMAIN routes
  BY <1>1, <1>2, <1>3, <1>5
<1> QED
  BY <1>4, <1>5

\* What an open service contributes: its routed models under their names.
LEMMA Contributed ==
  ASSUME NEW config, NEW client, NEW i \in Open(config, client), NEW lists, NEW x
  PROVE  x \in Contribution(config, client, i, lists)
         <=> /\ x = [id |-> x.id, service |-> i, model |-> x.model]
             /\ x.model \in lists
             /\ i \in resolveModelRoute(config, client, x.id)
             /\ UpstreamModel(config, client, i, x.id) = x.model
<1> DEFINE s == config.services[i]
           routes == modelRoutesForService(config, client, s)
           Listing(u) == exposedClientModels(s, u, routes)
<1>1. x \in Contribution(config, client, i, lists)
      <=> \E u \in lists \cap s.models : \E m \in Listing(u) :
            x = [id |-> m, service |-> i, model |-> u]
  BY DEF Contribution
<1>2. \A m, u : m \in Listing(u) => u \in s.models
  BY DEF exposedClientModels
<1>3. \A m, u : m \in Listing(u) <=> /\ i \in resolveModelRoute(config, client, m)
                                   /\ UpstreamModel(config, client, i, m) = u
  BY ExposedIsRouted
<1> HIDE DEF Listing, s
<1> QED
  BY <1>1, <1>2, <1>3
-----------------------------------------------------------------------------
\* Two services are always in one order or the other.
LEMMA Sorted ==
  ASSUME NEW config, Prioritized(config),
         NEW i \in DOMAIN config.services, NEW j \in DOMAIN config.services, i # j
  PROVE  SortedBefore(config, i, j) \/ SortedBefore(config, j, i)
<1>1. i \in Int /\ j \in Int
  BY DEF Prioritized
<1>2. config.services[i].priority \in Int /\ config.services[j].priority \in Int
  BY DEF Prioritized
<1> QED
  BY <1>1, <1>2 DEF SortedBefore

\* Among some services there is one that none of them is sorted before.
LEMMA Foremost ==
  ASSUME NEW config, Prioritized(config), NEW S \in SUBSET DOMAIN config.services, S # {}
  PROVE  \E i \in S : \A j \in S : ~ SortedBefore(config, j, i)
<1>1. PICK n \in Nat : DOMAIN config.services = 1 .. n
  BY DEF Prioritized
<1> DEFINE p == [i \in 1 .. n |-> config.services[i].priority]
<1>2. p \in [1 .. n -> Int]
  BY <1>1 DEF Prioritized
<1>3. \A i \in S : p[i] = config.services[i].priority /\ p[i] \in Int /\ i \in Nat
  BY <1>1, <1>2
<1>4. PICK g \in S : \A j \in S : p[j] <= p[g]
  <2> HIDE DEF p
  <2> QED
    BY <1>1, <1>2, Greatest
<1> HIDE DEF p
<1> DEFINE tied == {i \in S : p[i] = p[g]}
<1>5. tied \in SUBSET Nat /\ tied # {}
  BY <1>3, <1>4
<1>6. PICK i \in tied : \A j \in tied : i <= j
  BY <1>5, Least
<1>7. ASSUME NEW j \in S, SortedBefore(config, j, i) PROVE FALSE
  <2>1. p[j] > p[i] \/ (p[j] = p[i] /\ j < i)
    BY <1>3, <1>7, i \in S DEF SortedBefore
  <2>2. p[j] <= p[i] /\ p[j] \in Int /\ p[i] \in Int /\ i \in Nat /\ j \in Nat
    BY <1>3, <1>4
  <2>3. p[j] = p[i] /\ j < i
    BY <2>1, <2>2
  <2>4. j \in tied
    BY <2>3
  <2> QED
    BY <1>6, <2>2, <2>3, <2>4
<1> QED
  BY <1>7

\* Whatever the services answer, and whichever of them do, the catalog shows
\* models that may be asked for, each once (modelsPayload, resolveModelRoute).
THEOREM PayloadIsRoutable ==
  ASSUME NEW config, Prioritized(config), NEW client, NEW format,
         NEW lists, DOMAIN lists \subseteq Open(config, client)
  PROVE  Routable(format, config, client, modelsPayload(format, lists, config, client))
<1> DEFINE payload == modelsPayload(format, lists, config, client)
           Listing(i) == Contribution(config, client, i, lists[i])
<1>1. \A i \in DOMAIN lists : \A x \in Listing(i) :
        /\ x = [id |-> x.id, service |-> i, model |-> x.model]
        /\ i \in resolveModelRoute(config, client, x.id)
        /\ UpstreamModel(config, client, i, x.id) = x.model
  BY Contributed
<1> HIDE DEF Listing
<1>2. CASE format = "codex"
  <2>1. payload = {[id |-> m, service |-> 0, model |-> m] :
                     m \in codexModelIds(lists, config, client) \cap Bundled}
    BY <1>2 DEF modelsPayload
  <2>2. \A m \in codexModelIds(lists, config, client) : resolveModelRoute(config, client, m) # {}
    BY <1>1 DEF codexModelIds, Listing
  <2> QED
    BY <1>2, <2>1, <2>2 DEF Routable
<1>3. CASE format # "codex"
  <2>1. payload = aggregateStandardModels(lists, config, client)
    BY <1>3 DEF modelsPayload
  <2>2. ASSUME NEW x \in payload
        PROVE  \E i \in DOMAIN lists :
                 /\ x \in Listing(i)
                 /\ x.id # AutoReview
                 /\ \A j \in DOMAIN lists : SortedBefore(config, j, i) =>
                      \A y \in Listing(j) : y.id # x.id
    BY <2>1 DEF aggregateStandardModels, Listing
  <2> HIDE DEF payload
  <2>3. ASSUME NEW x \in payload
        PROVE  /\ x.service \in resolveModelRoute(config, client, x.id)
               /\ UpstreamModel(config, client, x.service, x.id) = x.model
               /\ x.id # AutoReview
    <3>1. PICK i \in DOMAIN lists : x \in Listing(i) /\ x.id # AutoReview
      BY <2>2
    <3>2. x.service = i
      BY <1>1, <3>1
    <3> QED
      BY <1>1, <3>1, <3>2
  <2>4. ASSUME NEW x \in payload, NEW y \in payload, x.id = y.id PROVE x = y
    <3>1. PICK i \in DOMAIN lists :
            /\ x \in Listing(i)
            /\ \A j \in DOMAIN lists : SortedBefore(config, j, i) =>
                 \A z \in Listing(j) : z.id # x.id
      BY <2>2
    <3>2. PICK k \in DOMAIN lists :
            /\ y \in Listing(k)
            /\ \A j \in DOMAIN lists : SortedBefore(config, j, k) =>
                 \A z \in Listing(j) : z.id # y.id
      BY <2>2
    <3>3. ~ SortedBefore(config, i, k) /\ ~ SortedBefore(config, k, i)
      BY <2>4, <3>1, <3>2
    <3>4. i \in DOMAIN config.services /\ k \in DOMAIN config.services
      BY DEF Open
    <3>5. i = k
      BY <3>3, <3>4, Sorted
    <3>6. x.model = y.model
      BY <1>1, <2>4, <3>1, <3>2, <3>5
    <3> QED
      BY <1>1, <2>4, <3>1, <3>2, <3>5, <3>6
  <2> QED
    BY <1>3, <2>3, <2>4 DEF Routable, payload
<1> QED
  BY <1>2, <1>3

\* Nothing is missing either: a model that a service listed, under a name that
\* requests for it may use, is in the catalog, described by a service that none
\* of those that also listed it is sorted before (aggregateStandardModels).
THEOREM NothingIsMissing ==
  ASSUME NEW config, Prioritized(config), NEW client,
         NEW lists, DOMAIN lists \subseteq Open(config, client),
         NEW m, NEW i \in DOMAIN lists,
         i \in resolveModelRoute(config, client, m),
         UpstreamModel(config, client, i, m) \in lists[i]
  PROVE  /\ m \in codexModelIds(lists, config, client)
         /\ m # AutoReview => \E x \in aggregateStandardModels(lists, config, client) :
              x.id = m /\ ~ SortedBefore(config, i, x.service)
<1> DEFINE Listing(j) == Contribution(config, client, j, lists[j])
           S == {j \in DOMAIN lists : \E y \in Listing(j) : y.id = m}
           entry == [id |-> m, service |-> i, model |-> UpstreamModel(config, client, i, m)]
<1>1. entry \in Listing(i)
  <2>1. /\ entry.id = m /\ entry.model = UpstreamModel(config, client, i, m)
        /\ entry = [id |-> entry.id, service |-> i, model |-> entry.model]
    OBVIOUS
  <2> HIDE DEF entry
  <2> QED
    BY <2>1, Contributed
<1>2. m \in codexModelIds(lists, config, client)
  BY <1>1 DEF codexModelIds
<1>3. ASSUME m # AutoReview
      PROVE  \E x \in aggregateStandardModels(lists, config, client) :
               x.id = m /\ ~ SortedBefore(config, i, x.service)
  <2>1. i \in S
    BY <1>1
  <2>2. S \in SUBSET DOMAIN config.services /\ S # {}
    BY <2>1 DEF Open
  <2>3. PICK f \in S : \A j \in S : ~ SortedBefore(config, j, f)
    <3> HIDE DEF S
    <3> QED
      BY <2>2, Foremost
  <2>4. PICK x \in Listing(f) : x.id = m
    OBVIOUS
  <2>5. x.service = f
    <3>1. f \in Open(config, client)
      OBVIOUS
    <3>2. x = [id |-> x.id, service |-> f, model |-> x.model]
      BY <3>1, Contributed
    <3> QED
      BY <3>2
  <2>6. \A j \in DOMAIN lists : SortedBefore(config, j, f) => \A y \in Listing(j) : y.id # x.id
    BY <2>3, <2>4
  <2>7. x \in aggregateStandardModels(lists, config, client)
    BY <1>3, <2>4, <2>6 DEF aggregateStandardModels
  <2> QED
    BY <2>1, <2>3, <2>4, <2>5, <2>7
<1> QED
  BY <1>2, <1>3
-----------------------------------------------------------------------------
(* The configuration cache. *)

LoadStates ==
  {Idle, Thrown}
  \cup [state : {"reading"}, since : Nat]
  \cup [state : {"answered"}, since : Nat, raw : Documents \cup {Missing}]
  \cup [state : {"done"}, since : Nat, doc : Valid]

\* What the state of a load says of the documents.
StateKnows(s) ==
  /\ s.state \in {"reading", "answered"} => s.since <= now
  /\ s.state = "answered" /\ s.raw \in Documents => current[s.raw] >= s.since
  /\ s.state = "done" => Justified(s.since, s.doc)

\* A cached document is used until it has been out of the store for a time to
\* live, or a load that failed is five seconds old.
CacheKnows ==
  cached # Empty =>
    /\ current[cached.doc] # Never
    /\ \/ cached.expiresAt <= current[cached.doc] + Ttl
       \/ cached.expiresAt <= failed + StaleTtl

LoadInv ==
  /\ LoadTypeOK
  /\ current[kv] = now
  /\ failed <= now
  /\ \A d \in Documents : current[d] <= now
  /\ CacheKnows
  /\ \A l \in Loads : StateKnows(loads[l])

LEMMA Times ==
  /\ Ttl \in Nat /\ StaleTtl \in Nat /\ StaleTtl > 0
  /\ Never \in Int /\ Never < 0
  /\ Valid \subseteq Documents /\ Missing \notin Documents
BY ConfigCacheAssumption DEF Never

LEMMA LoadInitially == LoadInit => LoadInv
<1> SUFFICES ASSUME LoadInit PROVE LoadInv
  OBVIOUS
<1> USE DEF LoadInit
<1>1. LoadTypeOK
  <2>1. current \in [Documents -> Nat \cup {Never}]
    OBVIOUS
  <2>2. loads \in [Loads -> LoadStates]
    BY DEF LoadStates
  <2> QED
    BY <2>1, <2>2 DEF LoadTypeOK, LoadStates
<1>2. failed <= now /\ current[kv] = now /\ \A d \in Documents : current[d] <= now
  BY Times
<1>3. \A l \in Loads : loads[l].state = "idle"
  BY DEF Idle
<1>4. CacheKnows /\ \A l \in Loads : StateKnows(loads[l])
  BY <1>3 DEF CacheKnows, StateKnows
<1> QED
  BY <1>1, <1>2, <1>3, <1>4 DEF LoadInv

LEMMA LoadForms ==
  ASSUME NEW s \in LoadStates
  PROVE  /\ s.state = "reading" => s.since \in Nat
         /\ s.state = "answered" => s.since \in Nat /\ s.raw \in Documents \cup {Missing}
         /\ s.state = "done" => s.since \in Nat /\ s.doc \in Valid
BY DEF LoadStates, Idle, Thrown

LEMMA LoadMakes ==
  ASSUME NEW since \in Nat
  PROVE  /\ Idle \in LoadStates /\ Thrown \in LoadStates /\ Reading(since) \in LoadStates
         /\ \A raw \in Documents \cup {Missing} : Answered(since, raw) \in LoadStates
         /\ \A doc \in Valid : Done(since, doc) \in LoadStates
BY DEF LoadStates, Reading, Answered, Done

\* Documents are seen in the store, and loads fail, later and later.
LEMMA Later ==
  ASSUME LoadInv, LoadNext
  PROVE  /\ now' \in Nat /\ now <= now' /\ kv' \in Documents
         /\ current' \in [Documents -> Nat \cup {Never}]
         /\ failed' \in Nat \cup {Never} /\ failed <= failed' /\ failed' <= now'
         /\ current'[kv'] = now'
         /\ \A d \in Documents : current[d] <= current'[d] /\ current'[d] <= now'
<1> USE Times
<1>0. /\ now \in Nat /\ kv \in Documents /\ failed \in Nat \cup {Never} /\ failed <= now
      /\ current \in [Documents -> Nat \cup {Never}] /\ current[kv] = now
      /\ \A d \in Documents : current[d] <= now
  BY DEF LoadInv, LoadTypeOK
<1>1. ASSUME NEW l \in Loads, Fail(l)
      PROVE  /\ UNCHANGED <<now, kv, current>>
             /\ failed' \in Nat \cup {Never} /\ failed <= failed' /\ failed' <= now'
  <2>1. loads[l] \in LoadStates /\ loads[l].state = "answered"
    BY <1>1 DEF Fail, LoadInv, LoadTypeOK, LoadStates
  <2>2. loads[l].since \in Nat /\ loads[l].since <= now
    BY <2>1, LoadForms DEF LoadInv, StateKnows
  <2> QED
    BY <1>0, <1>1, <2>2 DEF Fail
<1>2. ASSUME NEW l \in Loads, Hit(l) \/ Miss(l) \/ Get(l) \/ Store(l) \/ Return(l)
      PROVE  UNCHANGED <<now, kv, current, failed>>
  BY <1>2 DEF Hit, Miss, Get, Store, Return
<1>3. ASSUME NEW d \in Documents, Publish(d)
      PROVE  /\ UNCHANGED <<now, failed>> /\ kv' = d
             /\ current' = [current EXCEPT ![d] = now]
  BY <1>3 DEF Publish
<1>4. ASSUME Tick
      PROVE  /\ now' = now + 1 /\ UNCHANGED <<kv, failed>>
             /\ current' = [current EXCEPT ![kv] = now + 1]
  BY <1>4 DEF Tick
<1>5. CASE \E l \in Loads : Fail(l)
  BY <1>0, <1>1, <1>5
<1>6. CASE \E l \in Loads : Hit(l) \/ Miss(l) \/ Get(l) \/ Store(l) \/ Return(l)
  BY <1>0, <1>2, <1>6
<1>7. CASE \E d \in Documents : Publish(d)
  <2>1. PICK d \in Documents : Publish(d)
    BY <1>7
  <2> QED
    BY <1>0, <1>3, <2>1
<1>8. CASE Tick
  BY <1>0, <1>4, <1>8
<1> QED
  BY <1>5, <1>6, <1>7, <1>8 DEF LoadNext, Load

\* What holds of a served document goes on to hold.
LEMMA JustifiedStays ==
  ASSUME LoadInv, LoadNext, NEW b \in Nat, NEW d \in Documents, Justified(b, d)
  PROVE  Justified(b, d)'
<1>1. /\ current[d] \in Nat \cup {Never} /\ current'[d] \in Nat \cup {Never}
      /\ current[d] <= current'[d]
      /\ failed \in Nat \cup {Never} /\ failed' \in Nat \cup {Never} /\ failed <= failed'
  BY Later DEF LoadInv, LoadTypeOK
<1>2. Ttl \in Nat /\ StaleTtl \in Nat /\ Never \in Int /\ Never < 0
  BY Times
<1> QED
  BY <1>1, <1>2 DEF Justified

LEMMA KnowsStays ==
  ASSUME LoadInv, LoadNext, NEW s \in LoadStates, StateKnows(s)
  PROVE  StateKnows(s)'
<1>1. s.state \in {"reading", "answered"} => s.since <= now'
  <2>1. now \in Nat /\ now' \in Nat /\ now <= now'
    BY Later DEF LoadInv, LoadTypeOK
  <2> QED
    BY <2>1, LoadForms DEF StateKnows
<1>2. s.state = "answered" /\ s.raw \in Documents => current'[s.raw] >= s.since
  <2> SUFFICES ASSUME s.state = "answered", s.raw \in Documents
               PROVE  current'[s.raw] >= s.since
    OBVIOUS
  <2>1. current[s.raw] >= s.since /\ s.since \in Nat
    BY LoadForms DEF StateKnows
  <2>2. /\ current[s.raw] \in Nat \cup {Never} /\ current'[s.raw] \in Nat \cup {Never}
        /\ current[s.raw] <= current'[s.raw]
    BY Later DEF LoadInv, LoadTypeOK
  <2> QED
    BY <2>1, <2>2, Times
<1>3. s.state = "done" => Justified(s.since, s.doc)'
  <2> SUFFICES ASSUME s.state = "done" PROVE Justified(s.since, s.doc)'
    OBVIOUS
  <2>1. PICK b \in Nat, d \in Documents : b = s.since /\ d = s.doc
    BY LoadForms, Times
  <2>2. Justified(b, d)
    BY <2>1 DEF StateKnows
  <2>3. Justified(b, d)'
    BY <2>2, JustifiedStays
  <2> QED
    BY <2>1, <2>3
<1> QED
  BY <1>1, <1>2, <1>3 DEF StateKnows

\* The state a load moves to knows what it says.
LEMMA LoadMoves ==
  ASSUME LoadInv, NEW l \in Loads, Load(l) \/ Return(l)
  PROVE  \E s \in LoadStates : loads' = [loads EXCEPT ![l] = s] /\ StateKnows(s)'
<1>0. /\ now \in Nat /\ kv \in Documents
      /\ cached \in [doc : Valid, expiresAt : Nat] \cup {Empty}
      /\ current \in [Documents -> Nat \cup {Never}] /\ current[kv] = now
      /\ failed \in Nat \cup {Never}
      /\ loads[l] \in LoadStates /\ StateKnows(loads[l])
  BY DEF LoadInv, LoadTypeOK, LoadStates
<1>1. CASE Hit(l)
  <2>1. PICK b \in Nat, d \in Valid, e \in Nat : b = now /\ cached = [doc |-> d, expiresAt |-> e] /\ e > b
    BY <1>0, <1>1 DEF Hit, Fresh
  <2>2. loads' = [loads EXCEPT ![l] = Done(b, d)] /\ UNCHANGED <<now, current, failed>>
    BY <1>1, <2>1 DEF Hit
  <2>3. d \in Documents /\ current[d] \in Nat \cup {Never} /\ cached # Empty
    BY <1>0, <1>1, Times DEF Hit, Fresh
  <2>4. current[d] # Never /\ (e <= current[d] + Ttl \/ e <= failed + StaleTtl)
    BY <2>1, <2>3 DEF LoadInv, CacheKnows
  <2>5. current[d] > b - Ttl \/ failed > b - StaleTtl
    BY <1>0, <2>1, <2>3, <2>4, Times
  <2>6. Justified(b, d)'
    BY <2>2, <2>4, <2>5 DEF Justified
  <2>7. StateKnows(Done(b, d))'
    BY <2>6 DEF StateKnows, Done
  <2> QED
    BY <2>2, <2>7, LoadMakes
<1>2. CASE Miss(l)
  <2>1. PICK b \in Nat : b = now
    BY <1>0
  <2>2. loads' = [loads EXCEPT ![l] = Reading(b)] /\ now' = b
    BY <1>2, <2>1 DEF Miss
  <2>3. StateKnows(Reading(b))'
    BY <2>2 DEF StateKnows, Reading
  <2> QED
    BY <2>2, <2>3, LoadMakes
<1>3. CASE Get(l)
  <2>1. PICK b \in Nat, raw \in Documents \cup {Missing} :
          /\ b = loads[l].since /\ b <= now
          /\ raw \in {kv, Missing}
          /\ loads' = [loads EXCEPT ![l] = Answered(b, raw)]
    BY <1>0, <1>3, LoadForms DEF Get, StateKnows
  <2>2. UNCHANGED <<now, kv, current>>
    BY <1>3 DEF Get
  <2>3. raw \in Documents => current'[raw] >= b
    BY <1>0, <2>1, <2>2, Times
  <2>4. StateKnows(Answered(b, raw))'
    BY <2>1, <2>2, <2>3 DEF StateKnows, Answered
  <2> QED
    BY <2>1, <2>4, LoadMakes
<1>4. CASE Store(l)
  <2>1. PICK b \in Nat, d \in Valid : b = loads[l].since /\ d = loads[l].raw
    BY <1>0, <1>4, LoadForms DEF Store
  <2>2. loads' = [loads EXCEPT ![l] = Done(b, d)] /\ UNCHANGED <<now, current, failed>>
    BY <1>4, <2>1 DEF Store
  <2>3. current[d] >= b
    BY <1>0, <1>4, <2>1, Times DEF Store, StateKnows
  <2>4. StateKnows(Done(b, d))'
    BY <2>2, <2>3 DEF StateKnows, Done, Justified
  <2> QED
    BY <2>2, <2>4, LoadMakes
<1>5. CASE Fail(l)
  <2>1. CASE cached = Empty
    <3>1. loads' = [loads EXCEPT ![l] = Thrown]
      BY <1>5, <2>1 DEF Fail
    <3>2. StateKnows(Thrown)'
      BY DEF StateKnows, Thrown
    <3> QED
      BY <3>1, <3>2, LoadMakes
  <2>2. CASE cached # Empty
    <3>1. PICK b \in Nat, d \in Valid : b = loads[l].since /\ d = cached.doc
      BY <1>0, <1>5, <2>2, LoadForms DEF Fail
    <3>2. loads' = [loads EXCEPT ![l] = Done(b, d)] /\ current' = current
      BY <1>5, <2>2, <3>1 DEF Fail
    <3>3. failed' = IF b > failed THEN b ELSE failed
      BY <1>5, <3>1 DEF Fail
    <3>4. current[d] # Never
      BY <2>2, <3>1 DEF LoadInv, CacheKnows
    <3>5. failed' > b - StaleTtl
      BY <1>0, <3>3, Times
    <3>6. StateKnows(Done(b, d))'
      BY <3>2, <3>4, <3>5 DEF StateKnows, Done, Justified
    <3> QED
      BY <3>2, <3>6, LoadMakes
  <2> QED
    BY <2>1, <2>2
<1>6. CASE Return(l)
  <2>1. loads' = [loads EXCEPT ![l] = Idle]
    BY <1>6 DEF Return
  <2>2. StateKnows(Idle)'
    BY DEF StateKnows, Idle
  <2> QED
    BY <2>1, <2>2, LoadMakes, 0 \in Nat
<1> QED
  BY <1>1, <1>2, <1>3, <1>4, <1>5, <1>6 DEF Load

\* The cache knows what it holds, after whatever load has written it.
LEMMA CacheMoves ==
  ASSUME LoadInv, LoadNext
  PROVE  cached' \in [doc : Valid, expiresAt : Nat] \cup {Empty} /\ CacheKnows'
<1>0. /\ cached \in [doc : Valid, expiresAt : Nat] \cup {Empty} /\ CacheKnows
      /\ current \in [Documents -> Nat \cup {Never}] /\ failed \in Nat \cup {Never}
  BY DEF LoadInv, LoadTypeOK
<1>1. CASE cached' = cached
  <2>1. CASE cached = Empty
    BY <1>1, <2>1 DEF CacheKnows
  <2>2. CASE cached # Empty
    <3>1. PICK d \in Documents, e \in Nat : cached.doc = d /\ cached.expiresAt = e
      BY <1>0, <2>2, Times
    <3>2. current[d] # Never /\ (e <= current[d] + Ttl \/ e <= failed + StaleTtl)
      BY <1>0, <2>2, <3>1 DEF CacheKnows
    <3>3. /\ current[d] \in Nat \cup {Never} /\ current'[d] \in Nat \cup {Never}
          /\ current[d] <= current'[d]
          /\ failed' \in Nat \cup {Never} /\ failed <= failed'
      BY <1>0, Later
    <3>4. current'[d] \in Nat
      BY <3>2, <3>3, Times
    <3>5. current'[d] # Never
      BY <3>4, Times
    <3>6. PICK p \in Int, q \in Int, f \in Int, g \in Int :
            /\ p = current[d] /\ q = current'[d] /\ f = failed /\ g = failed'
            /\ p <= q /\ f <= g
      <4>1. current[d] \in Int /\ current'[d] \in Int
        BY <3>3, Times
      <4>2. failed \in Int
        BY <1>0, Times
      <4>3. failed' \in Int
        BY <3>3, Times
      <4> QED
        BY <3>3, <4>1, <4>2, <4>3
    <3>7. e <= p + Ttl \/ e <= f + StaleTtl
      BY <3>2, <3>6
    <3>8. e <= q + Ttl \/ e <= g + StaleTtl
      <4>1. PICK t \in Nat, u \in Nat : t = Ttl /\ u = StaleTtl
        BY Times
      <4>2. e \in Nat /\ p <= q /\ f <= g
        BY <3>1, <3>6
      <4>3. e <= p + t \/ e <= f + u
        BY <3>7, <4>1
      <4>4. e <= q + t \/ e <= g + u
        <5>1. CASE e <= p + t
          BY <4>2, <5>1
        <5>2. CASE e <= f + u
          BY <4>2, <5>2
        <5> QED
          BY <4>3, <5>1, <5>2
      <4> QED
        BY <4>1, <4>4
    <3>9. e <= current'[d] + Ttl \/ e <= failed' + StaleTtl
      BY <3>6, <3>8
    <3> QED
      BY <1>0, <1>1, <3>1, <3>5, <3>9 DEF CacheKnows
  <2> QED
    BY <2>1, <2>2
<1>2. ASSUME NEW l \in Loads, Store(l)
      PROVE  cached' \in [doc : Valid, expiresAt : Nat] \cup {Empty} /\ CacheKnows'
  <2>1. loads[l] \in LoadStates /\ StateKnows(loads[l]) /\ loads[l].state = "answered"
    BY <1>2 DEF LoadInv, LoadTypeOK, LoadStates, Store
  <2>2. PICK b \in Nat, d \in Valid : b = loads[l].since /\ d = loads[l].raw
    BY <1>2, <2>1, LoadForms DEF Store
  <2>3. cached' = [doc |-> d, expiresAt |-> b + Ttl] /\ current' = current
    BY <1>2, <2>2 DEF Store
  <2>4. current[d] >= b /\ current[d] \in Nat \cup {Never}
    BY <1>0, <2>1, <2>2, Times DEF StateKnows
  <2>5. current[d] # Never /\ b + Ttl <= current[d] + Ttl /\ b + Ttl \in Nat
    BY <2>4, Times
  <2> QED
    BY <2>3, <2>5 DEF CacheKnows
<1>3. ASSUME NEW l \in Loads, Fail(l), cached' # cached
      PROVE  cached' \in [doc : Valid, expiresAt : Nat] \cup {Empty} /\ CacheKnows'
  <2>1. loads[l] \in LoadStates /\ loads[l].state = "answered" /\ cached # Empty
    BY <1>3 DEF LoadInv, LoadTypeOK, LoadStates, Fail
  <2>2. PICK b \in Nat, d \in Valid : b = loads[l].since /\ d = cached.doc
    BY <1>0, <2>1, LoadForms
  <2>3. /\ cached' = [doc |-> d, expiresAt |-> b + StaleTtl] /\ current' = current
        /\ failed' = IF b > failed THEN b ELSE failed
    BY <1>0, <1>3, <2>1, <2>2 DEF Fail
  <2>4. current[d] # Never
    BY <1>0, <2>1, <2>2 DEF CacheKnows
  <2>5. b + StaleTtl <= failed' + StaleTtl /\ b + StaleTtl \in Nat
    BY <1>0, <2>3, Times
  <2> QED
    BY <2>3, <2>4, <2>5 DEF CacheKnows
<1>4. CASE cached' # cached
  <2>1. \E l \in Loads : Store(l) \/ Fail(l)
    BY <1>4 DEF LoadNext, Load, Hit, Miss, Get, Return, Publish, Tick
  <2> QED
    BY <1>2, <1>3, <1>4, <2>1
<1> QED
  BY <1>1, <1>4

LEMMA LoadStep ==
  ASSUME LoadInv, [LoadNext]_loadVars
  PROVE  LoadInv'
<1>1. CASE UNCHANGED loadVars
  BY <1>1 DEF LoadInv, loadVars, LoadTypeOK, CacheKnows, StateKnows, Justified
<1>2. CASE LoadNext
  <2>1. /\ now' \in Nat /\ kv' \in Documents
        /\ current' \in [Documents -> Nat \cup {Never}] /\ current'[kv'] = now'
        /\ failed' \in Nat \cup {Never} /\ failed' <= now'
        /\ \A d \in Documents : current'[d] <= now'
    BY <1>2, Later
  <2>2. cached' \in [doc : Valid, expiresAt : Nat] \cup {Empty} /\ CacheKnows'
    BY <1>2, CacheMoves
  <2>3. loads \in [Loads -> LoadStates] /\ \A l \in Loads : StateKnows(loads[l])
    BY DEF LoadInv, LoadTypeOK, LoadStates
  <2>4. loads' \in [Loads -> LoadStates] /\ \A l \in Loads : StateKnows(loads[l])'
    <3>1. CASE UNCHANGED loads
      <4>1. ASSUME NEW l \in Loads PROVE StateKnows(loads[l])'
        <5>1. PICK s \in LoadStates : s = loads[l] /\ s = loads'[l]
          BY <2>3, <3>1
        <5>2. StateKnows(s)
          BY <2>3, <5>1
        <5>3. StateKnows(s)'
          BY <1>2, <5>2, KnowsStays
        <5> QED
          BY <5>1, <5>3
      <4> QED
        BY <2>3, <3>1, <4>1
    <3>2. CASE \E l \in Loads : Load(l) \/ Return(l)
      <4>1. PICK l \in Loads : Load(l) \/ Return(l)
        BY <3>2
      <4>2. PICK s \in LoadStates : loads' = [loads EXCEPT ![l] = s] /\ StateKnows(s)'
        BY <4>1, LoadMoves
      <4>3. ASSUME NEW k \in Loads PROVE StateKnows(loads[k])'
        <5>1. CASE k = l
          <6>1. loads'[k] = s
            BY <2>3, <4>2, <5>1
          <6> QED
            BY <4>2, <6>1
        <5>2. CASE k # l
          <6>1. PICK u \in LoadStates : u = loads[k] /\ u = loads'[k]
            BY <2>3, <4>2, <5>2
          <6>2. StateKnows(u)
            BY <2>3, <6>1
          <6>3. StateKnows(u)'
            BY <1>2, <6>2, KnowsStays
          <6> QED
            BY <6>1, <6>3
        <5> QED
          BY <5>1, <5>2
      <4> QED
        BY <2>3, <4>2, <4>3
    <3> QED
      BY <1>2, <3>1, <3>2 DEF LoadNext, Publish, Tick
  <2> QED
    BY <2>1, <2>2, <2>4 DEF LoadInv, LoadTypeOK, LoadStates
<1> QED
  BY <1>1, <1>2

\* A request moves no load but its own, and the catalog none.
LEMMA NextLoads == Next => [LoadNext]_loadVars
<1> SUFFICES ASSUME Next PROVE [LoadNext]_loadVars
  OBVIOUS
<1>1. ASSUME NEW r \in Loads, Come(r) \/ Refuse(r) \/ Lookup(r)
      PROVE  Load(r) \/ Return(r)
  BY <1>1 DEF Come, Refuse, Lookup
<1>2. ASSUME NEW r \in Loads, Collect(r) PROVE UNCHANGED loadVars
  BY <1>2 DEF Collect
<1> QED
  BY <1>1, <1>2 DEF Next, LoadNext

\* What is cached is used until a time to live after it was last in the store,
\* or five seconds after the beginning of a load that failed, and what a load
\* has in hand was in the store after it began (loadConfig).
THEOREM LoadCorrect == Spec => []LoadInv
<1>1. Init => LoadInv
  BY LoadInitially DEF Init
<1>2. LoadInv /\ [Next]_vars => LoadInv'
  <2>1. ASSUME LoadInv, [Next]_vars PROVE LoadInv'
    <3>1. [LoadNext]_loadVars
      BY <2>1, NextLoads DEF vars
    <3> QED
      BY <2>1, <3>1, LoadStep
  <2> QED
    BY <2>1
<1> QED
  BY <1>1, <1>2, PTL DEF Spec

\* The configuration a request is served was in the store less than the time to
\* live before the request came, or after, unless a load has failed within the
\* five seconds before: whichever loads were slower (loadConfig).
THEOREM CurrentIsServed == Spec => []ServedWasCurrent
<1>1. LoadInv => ServedWasCurrent
  BY DEF LoadInv, StateKnows, ServedWasCurrent
<1> QED
  BY <1>1, LoadCorrect, PTL
-----------------------------------------------------------------------------
(* The catalogs. *)

Requested(request) ==
  \E doc \in Valid : \E client \in ToSet(Config[doc].api_keys) : \E format :
    request = Ask(doc, client, format)

\* What is kept under a key is a catalog of the client and document it names.
Good(key, payload) ==
  \E doc \in Valid : \E client \in ToSet(Config[doc].api_keys) : \E format :
    /\ key = modelsCacheKey(doc, client, format)
    /\ Routable(format, Config[doc], client, payload)

CatalogInv ==
  /\ LoadInv
  /\ asking = [r \in Loads |-> asking[r]]
  /\ \A r \in Loads : asking[r] # Nothing => Requested(asking[r])
  /\ \A k \in DOMAIN entries : Good(k, entries[k].payload)
  /\ CatalogIsRoutable

\* What parseConfig accepts has services in order, and clients told by their ids.
LEMMA Accepted ==
  ASSUME NEW doc \in Valid
  PROVE  /\ Prioritized(Config[doc])
         /\ \A a, b \in ToSet(Config[doc].api_keys) : a.id = b.id => a = b
<1> DEFINE config == Config[doc]
<1>1. /\ parseConfig(config)
      /\ config.services \in Seq(ToSet(config.services))
  BY ConfigCacheAssumption, ModelCatalogAssumption
<1>2. Prioritized(config)
  <2>1. DOMAIN config.services = 1 .. Len(config.services) /\ Len(config.services) \in Nat
    BY <1>1
  <2>2. \A i \in DOMAIN config.services : config.services[i].priority \in Int
    BY <1>1 DEF parseConfig, parseService, ToSet
  <2> QED
    BY <2>1, <2>2 DEF Prioritized
<1>3. ASSUME NEW a \in ToSet(config.api_keys), NEW b \in ToSet(config.api_keys), a.id = b.id
      PROVE  a = b
  <2>1. PICK i \in DOMAIN config.api_keys, j \in DOMAIN config.api_keys :
          a = config.api_keys[i] /\ b = config.api_keys[j]
    BY DEF ToSet
  <2>2. Unique(IdsOf(config.api_keys))
    BY <1>1 DEF parseConfig
  <2>3. i = j
    BY <1>3, <2>1, <2>2 DEF Unique, IdsOf
  <2> QED
    BY <2>1, <2>3
<1> QED
  BY <1>2, <1>3

LEMMA KeyTells ==
  ASSUME NEW doc \in Valid, NEW client \in ToSet(Config[doc].api_keys), NEW format,
         NEW payload, Good(modelsCacheKey(doc, client, format), payload)
  PROVE  Routable(format, Config[doc], client, payload)
<1>1. PICK d, c, f :
        /\ d \in Valid /\ c \in ToSet(Config[d].api_keys)
        /\ modelsCacheKey(doc, client, format) = modelsCacheKey(d, c, f)
        /\ Routable(f, Config[d], c, payload)
  BY DEF Good
<1>2. doc = d /\ client.id = c.id /\ format = f
  BY <1>1 DEF modelsCacheKey
<1>3. client = c
  BY <1>1, <1>2, Accepted
<1> QED
  BY <1>1, <1>2, <1>3

LEMMA CatalogInitially == Init => CatalogInv
<1> SUFFICES ASSUME Init PROVE CatalogInv
  OBVIOUS
<1>1. LoadInv
  BY LoadInitially DEF Init
<1> QED
  BY <1>1 DEF Init, CatalogInv, CatalogIsRoutable, Nothing

\* A request with a configuration was given one that is valid.
LEMMA Given ==
  ASSUME CatalogInv, NEW r \in Loads, loads[r].state = "done"
  PROVE  loads[r].doc \in Valid
<1>1. loads[r] \in LoadStates
  BY DEF CatalogInv, LoadInv, LoadTypeOK, LoadStates
<1> QED
  BY <1>1, LoadForms

LEMMA Authenticated ==
  ASSUME NEW credential, NEW config, findClientApiKey(credential, config) # Nobody
  PROVE  findClientApiKey(credential, config) \in ToSet(config.api_keys)
BY DEF findClientApiKey

LEMMA LookupKeeps ==
  ASSUME CatalogInv, NEW r \in Loads, Lookup(r)
  PROVE  /\ asking' = [s \in Loads |-> asking'[s]]
         /\ \A s \in Loads : asking'[s] # Nothing => Requested(asking'[s])
         /\ \A k \in DOMAIN entries' : Good(k, entries'[k].payload)
         /\ CatalogIsRoutable'
<1>1. PICK doc \in Valid : doc = loads[r].doc
  BY Given DEF Lookup
<1>2. PICK sender \in Senders, client \in ToSet(Config[doc].api_keys) :
        LET request == Ask(doc, client, sender.format)
            key == modelsCacheKey(doc, client, sender.format)
        IN IF CatalogTtl > 0 /\ key \in DOMAIN entries /\ Fits(key)
           THEN /\ answer' = Shown(request, entries[key].payload)
                /\ UNCHANGED <<entries, order, asking>>
           ELSE /\ asking' = [asking EXCEPT ![r] = request]
                /\ IF CatalogTtl > 0 THEN Delete(key) ELSE UNCHANGED <<entries, order>>
                /\ answer' = Nothing
  BY <1>1, Authenticated DEF Lookup
<1> DEFINE format == sender.format
           key == modelsCacheKey(doc, client, format)
<1>3. CASE CatalogTtl > 0 /\ key \in DOMAIN entries /\ Fits(key)
  <2>1. /\ answer' = Shown(Ask(doc, client, format), entries[key].payload)
        /\ UNCHANGED <<entries, asking>>
    BY <1>2, <1>3
  <2>2. Good(key, entries[key].payload)
    BY <1>3 DEF CatalogInv
  <2>3. Routable(format, Config[doc], client, entries[key].payload)
    BY <2>2, KeyTells
  <2>4. CatalogIsRoutable'
    BY <2>1, <2>3 DEF CatalogIsRoutable, Shown, Ask
  <2> QED
    BY <2>1, <2>4 DEF CatalogInv
<1>4. CASE ~ (CatalogTtl > 0 /\ key \in DOMAIN entries /\ Fits(key))
  <2>1. /\ asking' = [asking EXCEPT ![r] = Ask(doc, client, format)]
        /\ answer' = Nothing
        /\ Delete(key) \/ entries' = entries
    BY <1>2, <1>4
  <2>2. Requested(Ask(doc, client, format))
    BY DEF Requested
  <2>3. /\ asking' = [s \in Loads |-> asking'[s]]
        /\ \A s \in Loads : asking'[s] # Nothing => Requested(asking'[s])
    BY <2>1, <2>2 DEF CatalogInv
  <2>4. \A k \in DOMAIN entries' : k \in DOMAIN entries /\ entries'[k] = entries[k]
    BY <2>1 DEF Delete
  <2>5. CatalogIsRoutable'
    BY <2>1 DEF CatalogIsRoutable, Nothing
  <2> QED
    BY <2>3, <2>4, <2>5 DEF CatalogInv
<1> QED
  BY <1>3, <1>4

LEMMA CollectKeeps ==
  ASSUME CatalogInv, NEW r \in Loads, Collect(r)
  PROVE  /\ asking' = [s \in Loads |-> asking'[s]]
         /\ \A s \in Loads : asking'[s] # Nothing => Requested(asking'[s])
         /\ \A k \in DOMAIN entries' : Good(k, entries'[k].payload)
         /\ CatalogIsRoutable'
<1>1. PICK doc, client, format :
        /\ doc \in Valid /\ client \in ToSet(Config[doc].api_keys)
        /\ asking[r] = Ask(doc, client, format)
  BY DEF CatalogInv, Requested, Collect
<1>2. /\ asking' = [s \in Loads |-> asking'[s]]
      /\ \A s \in Loads : asking'[s] # Nothing => Requested(asking'[s])
  BY DEF Collect, CatalogInv
<1>3. PICK in, lists :
        /\ in \in SUBSET Open(Config[doc], client) /\ lists \in Answers(in)
        /\ IF DOMAIN lists = {}
           THEN /\ answer' = Refused(IF in = {} THEN 503 ELSE 502)
                /\ UNCHANGED <<entries, order>>
           ELSE LET payload == modelsPayload(format, lists, Config[doc], client)
                IN /\ answer' = Shown(asking[r], payload)
                   /\ Write(modelsCacheKey(doc, client, format), payload)
  BY <1>1 DEF Collect, Ask
<1>4. CASE DOMAIN lists = {}
  <2>1. CatalogIsRoutable' /\ entries' = entries
    BY <1>3, <1>4 DEF CatalogIsRoutable, Refused
  <2> QED
    BY <1>2, <2>1 DEF CatalogInv
<1>5. CASE DOMAIN lists # {}
  <2>1. PICK payload : /\ payload = modelsPayload(format, lists, Config[doc], client)
                       /\ answer' = Shown(asking[r], payload)
                       /\ Write(modelsCacheKey(doc, client, format), payload)
    BY <1>3, <1>5
  <2>2. DOMAIN lists \subseteq Open(Config[doc], client)
    BY <1>3 DEF Answers
  <2>3. Routable(format, Config[doc], client, payload)
    BY <1>1, <2>1, <2>2, Accepted, PayloadIsRoutable
  <2>4. CatalogIsRoutable'
    BY <1>1, <2>1, <2>3 DEF CatalogIsRoutable, Shown, Ask
  <2>5. Good(modelsCacheKey(doc, client, format), payload)
    BY <1>1, <2>3 DEF Good
  <2>6. PICK key : key = modelsCacheKey(doc, client, format)
    OBVIOUS
  <2>7. \A k \in DOMAIN entries' :
          \/ k = key /\ entries'[k].payload = payload
          \/ k \in DOMAIN entries /\ entries'[k] = entries[k]
    <3>1. WithRoom(Live) \subseteq DOMAIN entries
      BY DEF WithRoom, Live
    <3>2. CASE CatalogTtl = 0
      BY <2>1, <3>2 DEF Write
    <3>3. CASE CatalogTtl # 0
      BY <2>1, <2>6, <3>1, <3>3 DEF Write
    <3> QED
      BY <3>2, <3>3
  <2> QED
    BY <1>2, <2>4, <2>5, <2>6, <2>7 DEF CatalogInv
<1> QED
  BY <1>4, <1>5

LEMMA CatalogStep == CatalogInv /\ [Next]_vars => CatalogInv'
<1> SUFFICES ASSUME CatalogInv, [Next]_vars PROVE CatalogInv'
  OBVIOUS
<1>0. LoadInv'
  BY NextLoads, LoadStep DEF CatalogInv, vars
<1>1. CASE UNCHANGED vars
  BY <1>0, <1>1 DEF CatalogInv, vars, catalogVars, CatalogIsRoutable
<1>2. ASSUME UNCHANGED <<entries, asking>>, answer'.status # 200 PROVE CatalogInv'
  BY <1>0, <1>2 DEF CatalogInv, CatalogIsRoutable
<1>3. ASSUME Quiet PROVE CatalogInv'
  BY <1>2, <1>3 DEF Quiet, Nothing
<1>4. ASSUME NEW r \in Loads, Refuse(r) PROVE CatalogInv'
  BY <1>2, <1>4 DEF Refuse, Refused
<1>5. ASSUME NEW r \in Loads, Lookup(r) PROVE CatalogInv'
  BY <1>0, <1>5, LookupKeeps DEF CatalogInv
<1>6. ASSUME NEW r \in Loads, Collect(r) PROVE CatalogInv'
  BY <1>0, <1>6, CollectKeeps DEF CatalogInv
<1> QED
  BY <1>1, <1>3, <1>4, <1>5, <1>6 DEF Next, Come

\* Whoever collected a catalog, under whichever of the published documents, and
\* whatever is cached: what a client is shown it may ask for under the document
\* its request was given (handleModels, modelsCacheKey).
THEOREM ShownIsRoutable == Spec => []CatalogIsRoutable
<1>1. CatalogInv => CatalogIsRoutable
  BY DEF CatalogInv
<1> QED
  BY <1>1, CatalogInitially, CatalogStep, PTL DEF Spec
-----------------------------------------------------------------------------
(* The order of the entries. *)

\* The keys are listed, each once, and there is room for them.
Listed ==
  /\ order \in Seq(DOMAIN entries)
  /\ Unique(order)
  /\ \A k \in DOMAIN entries : \E n \in DOMAIN order : order[n] = k
  /\ IsFiniteSet(DOMAIN entries)
  /\ Cardinality(DOMAIN entries) <= MaxEntries

\* The keys that are kept stay in their order.
LEMMA OnlyKeeps ==
  ASSUME Listed, NEW kept \in SUBSET DOMAIN entries
  PROVE  /\ Only(kept) \in Seq(kept)
         /\ Unique(Only(kept))
         /\ \A k \in kept : \E n \in DOMAIN Only(kept) : Only(kept)[n] = k
         /\ kept # {} => /\ Head(Only(kept)) \in kept
                         /\ \A m, n \in DOMAIN order :
                              order[n] = Head(Only(kept)) /\ m < n => order[m] \notin kept
<1> DEFINE positions == {n \in DOMAIN order : order[n] \in kept}
           r == Filter(order, positions)
<1>1. order \in Seq(DOMAIN entries)
  BY DEF Listed
<1>2. /\ r \in Seq(DOMAIN entries)
      /\ \E at \in [DOMAIN r -> positions \cap DOMAIN order] :
           /\ \A n \in DOMAIN r : r[n] = order[at[n]]
           /\ \A m, n \in DOMAIN r : m < n => at[m] < at[n]
           /\ \A i \in positions \cap DOMAIN order : \E n \in DOMAIN r : at[n] = i
  <2> DEFINE keys == DOMAIN entries
             all == order
  <2>1. all \in Seq(keys)
    BY <1>1
  <2> HIDE DEF positions, keys, all
  <2>2. Filter(all, positions) \in Seq(keys)
    BY <2>1, FilterKeeps
  <2>3. LET q == Filter(all, positions)
        IN \E at \in [DOMAIN q -> positions \cap DOMAIN all] :
             /\ \A n \in DOMAIN q : q[n] = all[at[n]]
             /\ \A m, n \in DOMAIN q : m < n => at[m] < at[n]
             /\ \A i \in positions \cap DOMAIN all : \E n \in DOMAIN q : at[n] = i
    BY <2>1, FilterKeeps
  <2> QED
    BY <2>2, <2>3 DEF keys, all
<1>3. Only(kept) = r
  BY DEF Only
<1> HIDE DEF r
<1>4. PICK at \in [DOMAIN r -> positions] :
        /\ \A n \in DOMAIN r : r[n] = order[at[n]]
        /\ \A m, n \in DOMAIN r : m < n => at[m] < at[n]
        /\ \A i \in positions : \E n \in DOMAIN r : at[n] = i
  <2>1. positions \cap DOMAIN order = positions
    OBVIOUS
  <2> QED
    BY <1>2, <2>1
<1>5. Len(r) \in Nat /\ DOMAIN r = 1 .. Len(r) /\ DOMAIN order = 1 .. Len(order)
      /\ Len(order) \in Nat
  BY <1>1, <1>2
<1>6. \A n \in DOMAIN r : r[n] \in kept /\ at[n] \in DOMAIN order
  BY <1>4
<1>7. r \in Seq(kept)
  <2>1. r \in [1 .. Len(r) -> kept]
    BY <1>2, <1>5, <1>6
  <2> QED
    BY <1>5, <2>1
<1>8. Unique(r)
  <2> SUFFICES ASSUME NEW m \in DOMAIN r, NEW n \in DOMAIN r, r[m] = r[n] PROVE m = n
    BY DEF Unique
  <2>1. at[m] = at[n]
    BY <1>4, <1>6 DEF Listed, Unique
  <2>2. at[m] \in Int /\ at[n] \in Int /\ m \in Int /\ n \in Int
    BY <1>5, <1>6
  <2> QED
    BY <1>4, <2>1, <2>2
<1>9. ASSUME NEW k \in kept PROVE \E n \in DOMAIN r : r[n] = k
  <2>1. PICK i \in DOMAIN order : order[i] = k
    BY DEF Listed
  <2>2. PICK n \in DOMAIN r : at[n] = i
    BY <1>4, <2>1
  <2> QED
    BY <1>4, <2>1, <2>2
<1>10. ASSUME kept # {}
       PROVE  /\ Head(r) \in kept
              /\ \A m, n \in DOMAIN order : order[n] = Head(r) /\ m < n => order[m] \notin kept
  <2>1. 1 \in DOMAIN r /\ Head(r) = r[1]
    <3>1. PICK n \in DOMAIN r : TRUE
      BY <1>9, <1>10
    <3> QED
      BY <1>2, <1>5, <3>1
  <2>2. ASSUME NEW m \in DOMAIN order, NEW n \in DOMAIN order, order[n] = Head(r), m < n,
               order[m] \in kept
        PROVE  FALSE
    <3>1. n = at[1]
      BY <1>4, <1>6, <2>1, <2>2 DEF Listed, Unique
    <3>2. PICK l \in DOMAIN r : at[l] = m
      BY <1>4, <2>2
    <3>3. at[l] \in Int /\ at[1] \in Int /\ l \in Int /\ l >= 1
      BY <1>5, <1>6, <2>1
    <3>4. l # 1
      BY <2>2, <3>1, <3>2, <3>3
    <3>5. at[1] < at[l]
      BY <1>4, <2>1, <3>3, <3>4
    <3> QED
      BY <2>2, <3>1, <3>2, <3>3, <3>5
  <2> QED
    BY <1>6, <2>1, <2>2
<1> QED
  BY <1>3, <1>7, <1>8, <1>9, <1>10
\* So the order has as many places as there are entries.
LEMMA PlacesAreEntries ==
  ASSUME Listed
  PROVE  order \in [1 .. Cardinality(DOMAIN entries) -> DOMAIN entries]
<1>1. order \in [1 .. Len(order) -> DOMAIN entries] /\ Len(order) \in Nat
  BY DEF Listed
<1> DEFINE n == Len(order)
           keys == DOMAIN entries
<1>2. order \in Bijection(1 .. n, keys)
  <2>1. order \in Injection(1 .. n, keys)
    BY <1>1 DEF Listed, Unique, Injection, IsInjective
  <2>2. order \in Surjection(1 .. n, keys)
    BY <1>1 DEF Listed, Surjection
  <2> QED
    BY <2>1, <2>2 DEF Bijection
<1>3. n \in Nat
  BY <1>1
<1> HIDE DEF n, keys
<1>4. ExistsBijection(1 .. n, keys)
  BY <1>2 DEF ExistsBijection
<1>5. Cardinality(keys) = n
  BY <1>3, <1>4, FS_CountingElements
<1> QED
  BY <1>1, <1>5 DEF n, keys

LEMMA DeleteLists ==
  ASSUME Listed, NEW key, Delete(key)
  PROVE  Listed'
<1> DEFINE kept == DOMAIN entries \ {key}
<1>1. DOMAIN entries' = kept /\ order' = Only(kept)
  BY DEF Delete
<1>2. IsFiniteSet(DOMAIN entries) /\ Cardinality(DOMAIN entries) <= MaxEntries
  BY DEF Listed
<1>3. IsFiniteSet(kept) /\ Cardinality(kept) <= MaxEntries
  <2>1. IsFiniteSet(kept) /\ Cardinality(kept) <= Cardinality(DOMAIN entries)
    BY <1>2, FS_Subset
  <2>2. Cardinality(kept) \in Nat /\ Cardinality(DOMAIN entries) \in Nat
    BY <1>2, <2>1, FS_CardinalityType
  <2> HIDE DEF kept
  <2> QED
    BY <1>2, <2>1, <2>2, ModelCatalogAssumption
<1>4. /\ Only(kept) \in Seq(kept) /\ Unique(Only(kept))
      /\ \A k \in kept : \E n \in DOMAIN Only(kept) : Only(kept)[n] = k
  BY OnlyKeeps
<1> HIDE DEF kept
<1> QED
  BY <1>1, <1>3, <1>4 DEF Listed, Unique

\* What making room leaves: fewer than the limit, and of what is still good all
\* but the first, and that only at the limit.
LEMMA RoomIsMade ==
  ASSUME Listed
  PROVE  /\ WithRoom(Live) \in SUBSET DOMAIN entries
         /\ IsFiniteSet(WithRoom(Live)) /\ Cardinality(WithRoom(Live)) < MaxEntries
         /\ \A k \in Live \ WithRoom(Live) :
              /\ Cardinality(Live) = MaxEntries
              /\ \A m, n \in DOMAIN order : order[n] = k /\ m < n => ~ Fits(order[m])
<1>1. Live \in SUBSET DOMAIN entries /\ IsFiniteSet(DOMAIN entries)
      /\ Cardinality(DOMAIN entries) <= MaxEntries /\ MaxEntries \in Nat /\ MaxEntries > 0
  BY ModelCatalogAssumption DEF Listed, Live
<1>2. /\ IsFiniteSet(Live) /\ Cardinality(Live) \in Nat
      /\ Cardinality(Live) <= MaxEntries
  <2>1. IsFiniteSet(Live) /\ Cardinality(Live) <= Cardinality(DOMAIN entries)
    BY <1>1, FS_Subset
  <2>2. Cardinality(Live) \in Nat /\ Cardinality(DOMAIN entries) \in Nat
    BY <1>1, <2>1, FS_CardinalityType
  <2> QED
    BY <1>1, <2>1, <2>2
<1>3. CASE Cardinality(Live) < MaxEntries
  <2>1. WithRoom(Live) = Live
    BY <1>1, <1>2, <1>3 DEF WithRoom
  <2> QED
    BY <1>1, <1>2, <1>3, <2>1
<1>4. CASE Cardinality(Live) = MaxEntries
  <2>1. PICK first : first = Head(Only(Live))
    OBVIOUS
  <2>2. WithRoom(Live) = Live \ {first}
    BY <1>1, <1>4, <2>1 DEF WithRoom
  <2>3. Live # {}
    BY <1>1, <1>4, FS_EmptySet
  <2>4. /\ first \in Live
        /\ \A m, n \in DOMAIN order : order[n] = first /\ m < n => order[m] \notin Live
    BY <1>1, <2>1, <2>3, OnlyKeeps
  <2>5. IsFiniteSet(Live \ {first}) /\ Cardinality(Live \ {first}) = Cardinality(Live) - 1
    BY <1>2, <2>4, FS_RemoveElement
  <2>6. \A m \in DOMAIN order : order[m] \notin Live => ~ Fits(order[m])
    BY DEF Listed, Live
  <2> QED
    BY <1>1, <1>2, <1>4, <2>2, <2>4, <2>5, <2>6
<1> QED
  BY <1>1, <1>2, <1>3, <1>4
LEMMA WriteLists ==
  ASSUME Listed, NEW key, NEW payload, Write(key, payload)
  PROVE  Listed'
<1> DEFINE kept == WithRoom(Live)
<1>1. CASE CatalogTtl = 0
  <2>1. UNCHANGED <<entries, order>>
    BY <1>1 DEF Write
  <2> QED
    BY <2>1 DEF Listed, Unique
<1>2. CASE CatalogTtl # 0
  <2>1. /\ DOMAIN entries' = kept \cup {key}
        /\ order' = IF key \in kept THEN Only(kept) ELSE Append(Only(kept), key)
    BY <1>2 DEF Write
  <2>2. /\ kept \in SUBSET DOMAIN entries
        /\ IsFiniteSet(kept) /\ Cardinality(kept) < MaxEntries
    BY RoomIsMade
  <2> HIDE DEF kept
  <2>3. /\ Only(kept) \in Seq(kept) /\ Unique(Only(kept))
        /\ \A k \in kept : \E n \in DOMAIN Only(kept) : Only(kept)[n] = k
    BY <2>2, OnlyKeeps
  <2>4. IsFiniteSet(DOMAIN entries') /\ Cardinality(DOMAIN entries') <= MaxEntries
    <3>1. /\ IsFiniteSet(kept \cup {key})
          /\ Cardinality(kept \cup {key}) =
               IF key \in kept THEN Cardinality(kept) ELSE Cardinality(kept) + 1
      BY <2>2, FS_AddElement
    <3>2. Cardinality(kept) \in Nat
      BY <2>2, FS_CardinalityType
    <3> QED
      BY <2>1, <2>2, <3>1, <3>2, ModelCatalogAssumption
  <2>5. CASE key \in kept
    <3>1. kept \cup {key} = kept
      BY <2>5
    <3> QED
      BY <2>1, <2>3, <2>4, <2>5, <3>1 DEF Listed, Unique
  <2>6. CASE key \notin kept
    <3> DEFINE old == Only(kept)
               new == Append(old, key)
    <3>1. /\ Len(old) \in Nat /\ DOMAIN old = 1 .. Len(old)
          /\ \A n \in DOMAIN old : old[n] \in kept
      BY <2>3
    <3>2. /\ new \in Seq(kept \cup {key}) /\ DOMAIN new = 1 .. Len(old) + 1
          /\ new[Len(old) + 1] = key
          /\ \A n \in DOMAIN old : new[n] = old[n]
      <4>1. old \in Seq(kept \cup {key})
        <5>1. old \in [1 .. Len(old) -> kept \cup {key}]
          BY <2>3, <3>1
        <5> QED
          BY <3>1, <5>1
      <4> QED
        BY <4>1
    <3>3. order' = new
      BY <2>1, <2>6
    <3> HIDE DEF new, old
    <3>4. Unique(new)
      <4> SUFFICES ASSUME NEW m \in DOMAIN new, NEW n \in DOMAIN new, new[m] = new[n]
                   PROVE  m = n
        BY DEF Unique
      <4>1. \A l \in DOMAIN new : l \in DOMAIN old \/ l = Len(old) + 1
        BY <3>1, <3>2
      <4>2. CASE m \in DOMAIN old /\ n \in DOMAIN old
        BY <2>3, <3>2, <4>2 DEF Unique, old
      <4>3. CASE m = Len(old) + 1 /\ n \in DOMAIN old
        BY <2>6, <3>1, <3>2, <4>3
      <4>4. CASE m \in DOMAIN old /\ n = Len(old) + 1
        BY <2>6, <3>1, <3>2, <4>4
      <4> QED
        BY <4>1, <4>2, <4>3, <4>4
    <3>5. \A k \in kept \cup {key} : \E n \in DOMAIN new : new[n] = k
      <4> SUFFICES ASSUME NEW k \in kept \cup {key} PROVE \E n \in DOMAIN new : new[n] = k
        OBVIOUS
      <4>1. CASE k = key
        BY <3>1, <3>2, <4>1
      <4>2. CASE k \in kept
        <5>1. PICK n \in DOMAIN old : old[n] = k
          BY <2>3, <4>2 DEF old
        <5> QED
          BY <3>1, <3>2, <5>1
      <4> QED
        BY <4>1, <4>2
    <3> QED
      BY <2>1, <2>4, <3>2, <3>3, <3>4, <3>5 DEF Listed, Unique
  <2> QED
    BY <2>5, <2>6
<1> QED
  BY <1>1, <1>2

\* Only a lookup and a collection touch the entries.
LEMMA Touched ==
  ASSUME [Next]_vars
  PROVE  \/ UNCHANGED <<entries, order>>
         \/ \E key : ~ (key \in DOMAIN entries /\ Fits(key)) /\ Delete(key)
         \/ \E key, payload : Write(key, payload) /\ answer'.status = 200
<1>1. ASSUME NEW r \in Loads, Come(r) \/ Refuse(r) PROVE UNCHANGED <<entries, order>>
  BY <1>1 DEF Come, Refuse, Quiet
<1>2. ASSUME NEW r \in Loads, Lookup(r)
      PROVE  \/ UNCHANGED <<entries, order>>
             \/ \E key : ~ (key \in DOMAIN entries /\ Fits(key)) /\ Delete(key)
  BY <1>2 DEF Lookup
<1>3. ASSUME NEW r \in Loads, Collect(r)
      PROVE  \/ UNCHANGED <<entries, order>>
             \/ \E key, payload : Write(key, payload) /\ answer'.status = 200
  BY <1>3 DEF Collect, Shown
<1>4. CASE UNCHANGED vars
  BY <1>4 DEF vars, catalogVars
<1>5. ASSUME Quiet PROVE UNCHANGED <<entries, order>>
  BY <1>5 DEF Quiet
<1> QED
  BY <1>1, <1>2, <1>3, <1>4, <1>5 DEF Next

LEMMA ListedStays == Listed /\ [Next]_vars => Listed'
<1> SUFFICES ASSUME Listed, [Next]_vars PROVE Listed'
  OBVIOUS
<1>1. CASE UNCHANGED <<entries, order>>
  BY <1>1 DEF Listed, Unique
<1> QED
  BY <1>1, Touched, DeleteLists, WriteLists

LEMMA ListedInitially == Init => Listed
<1> SUFFICES ASSUME Init PROVE Listed
  OBVIOUS
<1>1. DOMAIN entries = {} /\ order = <<>>
  BY DEF Init
<1>2. IsFiniteSet({}) /\ Cardinality({}) = 0 /\ 0 <= MaxEntries
  BY FS_EmptySet, ModelCatalogAssumption
<1> QED
  BY <1>1, <1>2 DEF Listed, Unique

\* A catalog that is still good leaves the cache only when the cache is full of
\* such, only the oldest one, and only for an answer just collected
\* (ModelsCache).
THEOREM GoodOnesStay == Spec => GoodStays
<1>1. ASSUME Listed, [Next]_vars
      PROVE  [\A k \in DOMAIN entries \ DOMAIN entries' : Fits(k) =>
                /\ Cardinality(Live) = MaxEntries
                /\ \A m, n \in DOMAIN order : order[n] = k /\ m < n => ~ Fits(order[m])
                /\ answer'.status = 200]_vars
  <2> SUFFICES ASSUME NEW k \in DOMAIN entries \ DOMAIN entries', Fits(k)
               PROVE  /\ Cardinality(Live) = MaxEntries
                      /\ \A m, n \in DOMAIN order : order[n] = k /\ m < n => ~ Fits(order[m])
                      /\ answer'.status = 200
    OBVIOUS
  <2>1. k \in Live
    BY DEF Live
  <2>2. ~ \E key : ~ (key \in DOMAIN entries /\ Fits(key)) /\ Delete(key)
    BY DEF Delete
  <2>3. PICK key, payload : Write(key, payload) /\ answer'.status = 200
    BY <1>1, <2>2, Touched
  <2>4. k \notin WithRoom(Live)
    BY <2>3 DEF Write
  <2> QED
    BY <1>1, <2>1, <2>3, <2>4, RoomIsMade
<1> QED
  BY <1>1, ListedInitially, ListedStays, PTL DEF Spec, GoodStays
-----------------------------------------------------------------------------
(* The types. *)

Typed ==
  /\ \A k \in DOMAIN entries : entries[k].expiresAt \in Nat /\ IsPayload(entries[k].payload)
  /\ \A r \in Loads : asking[r] # Nothing => IsRequest(asking[r])
  /\ IF answer.status = 200
     THEN IsRequest(answer) /\ IsPayload(answer.payload)
     ELSE answer.status \in {0, 401, 500, 502, 503}

LEMMA PayloadTyped ==
  ASSUME NEW config, Prioritized(config), NEW client, NEW format,
         NEW lists, DOMAIN lists \subseteq Open(config, client)
  PROVE  IsPayload(modelsPayload(format, lists, config, client))
<1>1. CASE format = "codex"
  BY <1>1 DEF modelsPayload, IsPayload
<1>2. CASE format # "codex"
  <2> SUFFICES ASSUME NEW x \in aggregateStandardModels(lists, config, client)
               PROVE  DOMAIN x = {"id", "service", "model"} /\ x.service \in Nat
    BY <1>2 DEF modelsPayload, IsPayload
  <2>1. PICK i \in DOMAIN lists : x \in Contribution(config, client, i, lists[i])
    BY DEF aggregateStandardModels
  <2>2. x = [id |-> x.id, service |-> i, model |-> x.model]
    BY <2>1, Contributed
  <2>3. i \in DOMAIN config.services
    BY DEF Open
  <2>4. i \in Nat
    BY <2>3 DEF Prioritized
  <2> QED
    BY <2>2, <2>4
<1> QED
  BY <1>1, <1>2

\* Who is let in is a client of the document, by its own key.
LEMMA LetIn ==
  ASSUME NEW doc \in Valid, NEW sender \in Senders, NEW client,
         client = findClientApiKey(sender.credential, Config[doc]), client # Nobody,
         sender = [credential |-> sender.credential, format |-> sender.format]
  PROVE  IsRequest(Ask(doc, client, sender.format))
<1>1. client \in ToSet(Config[doc].api_keys) /\ client.api_key = sender.credential
  BY DEF findClientApiKey
<1> QED
  BY <1>1 DEF IsRequest, Ask

LEMMA TypedInitially == Init => Typed
BY DEF Init, Typed, Nothing

\* What is written is a payload, with a time.
LEMMA WriteTyped ==
  ASSUME LoadInv, Typed, NEW key, NEW payload, IsPayload(payload), Write(key, payload)
  PROVE  \A k \in DOMAIN entries' : entries'[k].expiresAt \in Nat /\ IsPayload(entries'[k].payload)
<1>1. WithRoom(Live) \subseteq DOMAIN entries
  BY DEF WithRoom, Live
<1>2. now + CatalogTtl \in Nat
  BY ModelCatalogAssumption DEF LoadInv, LoadTypeOK
<1>3. CASE CatalogTtl = 0
  BY <1>3 DEF Write, Typed
<1>4. CASE CatalogTtl # 0
  <2>1. ASSUME NEW k \in DOMAIN entries'
        PROVE  \/ k \in DOMAIN entries /\ entries'[k] = entries[k]
               \/ entries'[k] = [expiresAt |-> now + CatalogTtl, payload |-> payload]
    BY <1>1, <1>4 DEF Write
  <2> QED
    BY <1>2, <2>1 DEF Typed
<1> QED
  BY <1>3, <1>4

LEMMA TypedStays == CatalogInv /\ Typed /\ [Next]_vars => Typed'
<1> SUFFICES ASSUME CatalogInv, Typed, [Next]_vars PROVE Typed'
  OBVIOUS
<1>1. CASE UNCHANGED vars
  BY <1>1 DEF Typed, vars, catalogVars, IsRequest
<1>2. ASSUME UNCHANGED <<entries, asking>>, answer'.status \in {0, 401, 500} PROVE Typed'
  BY <1>2 DEF Typed
<1>3. ASSUME Quiet PROVE Typed'
  BY <1>2, <1>3 DEF Quiet, Nothing
<1>4. ASSUME NEW r \in Loads, Refuse(r) PROVE Typed'
  BY <1>2, <1>4 DEF Refuse, Refused
<1>5. ASSUME NEW r \in Loads, Lookup(r) PROVE Typed'
  <2>1. PICK doc \in Valid : doc = loads[r].doc
    BY <1>5, Given DEF Lookup
  <2>2. PICK sender, client :
          /\ sender \in Senders
          /\ client = findClientApiKey(sender.credential, Config[doc]) /\ client # Nobody
          /\ LET request == Ask(doc, client, sender.format)
                 key == modelsCacheKey(doc, client, sender.format)
             IN IF CatalogTtl > 0 /\ key \in DOMAIN entries /\ Fits(key)
                THEN /\ answer' = Shown(request, entries[key].payload)
                     /\ UNCHANGED <<entries, order, asking>>
                ELSE /\ asking' = [asking EXCEPT ![r] = request]
                     /\ IF CatalogTtl > 0 THEN Delete(key) ELSE UNCHANGED <<entries, order>>
                     /\ answer' = Nothing
    BY <1>5, <2>1 DEF Lookup
  <2> DEFINE request == Ask(doc, client, sender.format)
             key == modelsCacheKey(doc, client, sender.format)
  <2>3. IsRequest(request)
    BY <2>2, LetIn, ModelCatalogAssumption
  <2>4. CASE CatalogTtl > 0 /\ key \in DOMAIN entries /\ Fits(key)
    <3>1. answer' = Shown(request, entries[key].payload) /\ UNCHANGED <<entries, asking>>
      BY <2>2, <2>4
    <3>2. IsPayload(entries[key].payload)
      BY <2>4 DEF Typed
    <3>3. IsRequest(answer') /\ answer'.status = 200 /\ IsPayload(answer'.payload)
      BY <2>3, <3>1, <3>2 DEF Shown, IsRequest, Ask
    <3> QED
      BY <3>1, <3>3 DEF Typed
  <2>5. CASE ~ (CatalogTtl > 0 /\ key \in DOMAIN entries /\ Fits(key))
    <3>1. /\ asking' = [asking EXCEPT ![r] = request] /\ answer' = Nothing
          /\ Delete(key) \/ entries' = entries
      BY <2>2, <2>5
    <3>2. \A k \in DOMAIN entries' : k \in DOMAIN entries /\ entries'[k] = entries[k]
      BY <3>1 DEF Delete
    <3>3. \A s \in Loads : asking'[s] # Nothing => IsRequest(asking'[s])
      BY <2>3, <3>1 DEF Typed, CatalogInv
    <3> QED
      BY <3>1, <3>2, <3>3 DEF Typed, Nothing
  <2> QED
    BY <2>4, <2>5
<1>6. ASSUME NEW r \in Loads, Collect(r) PROVE Typed'
  <2>1. IsRequest(asking[r]) /\ Requested(asking[r])
    BY <1>6 DEF Typed, CatalogInv, Collect
  <2>2. PICK doc, client, format :
          /\ doc \in Valid /\ client \in ToSet(Config[doc].api_keys)
          /\ asking[r] = Ask(doc, client, format)
    BY <2>1 DEF Requested
  <2>3. \A s \in Loads : asking'[s] # Nothing => IsRequest(asking'[s])
    BY <1>6 DEF Collect, Typed, CatalogInv
  <2>4. PICK in, lists :
          /\ in \in SUBSET Open(Config[doc], client) /\ lists \in Answers(in)
          /\ IF DOMAIN lists = {}
             THEN /\ answer' = Refused(IF in = {} THEN 503 ELSE 502)
                  /\ UNCHANGED <<entries, order>>
             ELSE LET payload == modelsPayload(format, lists, Config[doc], client)
                  IN /\ answer' = Shown(asking[r], payload)
                     /\ Write(modelsCacheKey(doc, client, format), payload)
    BY <1>6, <2>2 DEF Collect, Ask
  <2>5. CASE DOMAIN lists = {}
    <3>1. answer'.status \in {502, 503} /\ entries' = entries
      BY <2>4, <2>5 DEF Refused
    <3> QED
      BY <2>3, <3>1 DEF Typed
  <2>6. CASE DOMAIN lists # {}
    <3>1. PICK payload : /\ payload = modelsPayload(format, lists, Config[doc], client)
                         /\ answer' = Shown(asking[r], payload)
                         /\ Write(modelsCacheKey(doc, client, format), payload)
      BY <2>4, <2>6
    <3>2. DOMAIN lists \subseteq Open(Config[doc], client)
      BY <2>4 DEF Answers
    <3>3. IsPayload(payload)
      BY <2>2, <3>1, <3>2, Accepted, PayloadTyped
    <3>4. \A k \in DOMAIN entries' :
            entries'[k].expiresAt \in Nat /\ IsPayload(entries'[k].payload)
      BY <3>1, <3>3, WriteTyped DEF CatalogInv
    <3>5. IsRequest(answer') /\ answer'.status = 200 /\ IsPayload(answer'.payload)
      BY <2>1, <2>2, <3>1, <3>3 DEF Shown, IsRequest, Ask
    <3> QED
      BY <2>3, <3>4, <3>5 DEF Typed
  <2> QED
    BY <2>5, <2>6
<1> QED
  BY <1>1, <1>3, <1>4, <1>5, <1>6 DEF Next, Come

\* Every variable of the catalogs has its type, and the order in which keys go
\* lists those the cache has, each once.
THEOREM TypeCorrect == Spec => []TypeOK
<1>1. Init => CatalogInv /\ Listed /\ Typed
  BY CatalogInitially, ListedInitially, TypedInitially
<1>2. (CatalogInv /\ Listed /\ Typed) /\ [Next]_vars => (CatalogInv /\ Listed /\ Typed)'
  BY CatalogStep, ListedStays, TypedStays
<1>3. CatalogInv /\ Listed /\ Typed => TypeOK
  <2> SUFFICES ASSUME CatalogInv, Listed, Typed PROVE TypeOK
    OBVIOUS
  <2>1. order \in [1 .. Cardinality(DOMAIN entries) -> DOMAIN entries]
    BY PlacesAreEntries
  <2> QED
    BY <2>1 DEF CatalogInv, LoadInv, Listed, Typed, TypeOK
<1> QED
  BY <1>1, <1>2, <1>3, PTL DEF Spec
=============================================================================
