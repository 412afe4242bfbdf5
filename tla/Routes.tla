------------------------------- MODULE Routes -------------------------------
(***************************************************************************)
(* What a configuration means: the documents that parseConfig of           *)
(* src/config.ts accepts, the services src/routing.ts sends a model to,    *)
(* and the models src/models.ts shows to a client.  A configuration is     *)
(*   [services, api_keys : sequences, model_routes : a layer of routes],   *)
(* a layer of routes a function from client models to [model, services],   *)
(* where services = {} stands for a route that names none: an empty list   *)
(* is refused.  Services are meant by their position in config.services.   *)
(* Fields without part in routing (URLs, retries, search) are left out.    *)
(***************************************************************************)
EXTENDS Integers, Sequences, SequencesExt

CONSTANTS
  AutoReview,  \* "codex-auto-review"
  Bundled,     \* the slugs of models.json
  Nobody       \* undefined, where a client is looked up

-----------------------------------------------------------------------------
(* src/config.ts *)

Unique(ids) == \A i, j \in DOMAIN ids : ids[i] = ids[j] => i = j

IdsOf(entries) == [i \in DOMAIN entries |-> entries[i].id]

parseService(service) ==
  /\ service.keys # <<>>
  /\ Unique(IdsOf(service.keys))
  /\ service.priority \in Int
  /\ service.models # {}
  /\ \A m \in DOMAIN service.model_routes :
       /\ service.model_routes[m].services = {}
       /\ service.model_routes[m].model \in service.models

\* A route leads to a model that every service it names lists, and that some
\* service lists when it names none.
validateRoute(route, config) ==
  /\ \E s \in ToSet(config.services) : route.model \in s.models
  /\ \A id \in route.services :
       \E s \in ToSet(config.services) : s.id = id /\ route.model \in s.models

validateRoutes(routes, config) == \A m \in DOMAIN routes : validateRoute(routes[m], config)

parseApiKey(client, config) ==
  /\ client.services # {}
  /\ \A id \in client.services : \E s \in ToSet(config.services) : s.id = id
  /\ validateRoutes(client.model_routes, config)

parseConfig(config) ==
  /\ config.services # <<>>
  /\ config.api_keys # <<>>
  /\ \A s \in ToSet(config.services) : parseService(s)
  /\ Unique(IdsOf(config.services))
  /\ Unique(IdsOf(config.api_keys))
  /\ Unique([i \in DOMAIN config.api_keys |-> config.api_keys[i].api_key])
  /\ \A c \in ToSet(config.api_keys) : parseApiKey(c, config)
  /\ validateRoutes(config.model_routes, config)

findClientApiKey(credential, config) ==
  IF \E c \in ToSet(config.api_keys) : c.api_key = credential
  THEN CHOOSE c \in ToSet(config.api_keys) : c.api_key = credential
  ELSE Nobody
-----------------------------------------------------------------------------
(* src/routing.ts *)

modelRoutesForService(config, client, service) ==
  service.model_routes @@ client.model_routes @@ config.model_routes

routeAllowsService(route, id) == route.services = {} \/ id \in route.services

\* The services of a client that are not disabled and have a key that is not.
Open(config, client) ==
  {i \in DOMAIN config.services :
     LET s == config.services[i] IN
     /\ ~s.disabled
     /\ s.id \in client.services
     /\ \E k \in ToSet(s.keys) : ~k.disabled}

\* sortRoutedServices: by priority, the highest first, and then as configured.
SortedBefore(config, i, j) ==
  \/ config.services[i].priority > config.services[j].priority
  \/ config.services[i].priority = config.services[j].priority /\ i < j

\* What a request for model m asks service i for.
UpstreamModel(config, client, i, m) ==
  LET routes == modelRoutesForService(config, client, config.services[i])
  IN IF m \in DOMAIN routes THEN routes[m].model ELSE m

\* The services that a request for model m may go to.
resolveModelRoute(config, client, m) ==
  {i \in Open(config, client) :
     LET s == config.services[i]
         routes == modelRoutesForService(config, client, s)
     IN /\ m \in DOMAIN routes => routeAllowsService(routes[m], s.id)
        /\ UpstreamModel(config, client, i, m) \in s.models}
-----------------------------------------------------------------------------
(* src/models.ts *)

\* The names under which a client reaches an upstream model at a service.
exposedClientModels(service, upstream, routes) ==
  IF upstream \notin service.models THEN {}
  ELSE ({upstream} \ DOMAIN routes) \cup
       {m \in DOMAIN routes : /\ routes[m].model = upstream
                              /\ routeAllowsService(routes[m], service.id)}

\* What service i contributes when its catalog lists the models of lists.
Contribution(config, client, i, lists) ==
  LET s == config.services[i]
      routes == modelRoutesForService(config, client, s)
  IN UNION {{[id |-> m, service |-> i, model |-> u] : m \in exposedClientModels(s, u, routes)}
            : u \in lists \cap s.models}

\* lists[i] is what service i listed, one of those that answered.  The first in
\* order to list a model describes it.
aggregateStandardModels(lists, config, client) ==
  UNION {{x \in Contribution(config, client, i, lists[i]) :
            /\ x.id # AutoReview
            /\ \A j \in DOMAIN lists : SortedBefore(config, j, i) =>
                 \A y \in Contribution(config, client, j, lists[j]) : y.id # x.id}
         : i \in DOMAIN lists}

codexModelIds(lists, config, client) ==
  UNION {{x.id : x \in Contribution(config, client, i, lists[i])} : i \in DOMAIN lists}

\* The Codex catalog is the bundled one, cut down to what is reachable; the
\* other formats describe a model as the service does that is named with it.
modelsPayload(format, lists, config, client) ==
  IF format = "codex"
  THEN {[id |-> m, service |-> 0, model |-> m] :
          m \in codexModelIds(lists, config, client) \cap Bundled}
  ELSE aggregateStandardModels(lists, config, client)
-----------------------------------------------------------------------------
\* What a client may be shown: models it may ask for, each once, and described
\* by a service its requests may go to, under the name that service is asked for.
Routable(format, config, client, payload) ==
  /\ \A x, y \in payload : x.id = y.id => x = y
  /\ \A x \in payload :
       IF format = "codex"
       THEN x.id \in Bundled /\ resolveModelRoute(config, client, x.id) # {}
       ELSE /\ x.service \in resolveModelRoute(config, client, x.id)
            /\ UpstreamModel(config, client, x.service, x.id) = x.model
            /\ x.id # AutoReview
=============================================================================
