--------------------------- MODULE MCModelCatalog ---------------------------
(* Two services that share a model under two names, two clients with routes  *)
(* of their own, and a document that changes both.                           *)
EXTENDS ModelCatalog

CONSTANTS d1, d2, r1, r2, s1, s2, c1, c2, m1, m2, m3, review

NoRoutes == [m \in {} |-> m]
To(model, services) == [model |-> model, services |-> services]
Key(disabled) == [id |-> "k", disabled |-> disabled, priority |-> 0]
Service(id, priority, models, routes) ==
  [id |-> id, keys |-> <<Key(FALSE)>>, disabled |-> FALSE, priority |-> priority,
   models |-> models, model_routes |-> routes]
Client(id, services, routes) ==
  [id |-> id, api_key |-> id, services |-> services, model_routes |-> routes]

\* m1 is an alias of m2 at the second service, and of itself at the first.
MCConfig ==
  d1 :> [services |-> <<Service(s1, 0, {m1, m2}, NoRoutes),
                        Service(s2, 1, {m2, review}, m1 :> To(m2, {}))>>,
         api_keys |-> <<Client(c1, {s1, s2}, NoRoutes),
                        Client(c2, {s1, s2}, m2 :> To(m1, {s1}))>>,
         model_routes |-> m3 :> To(m2, {s2})]
  @@
  d2 :> [services |-> <<Service(s1, 0, {m1, m2}, NoRoutes),
                        Service(s2, 0, {m2, review}, NoRoutes)>>,
         api_keys |-> <<Client(c1, {s1}, NoRoutes)>>,
         model_routes |-> m2 :> To(m1, {})]

\* Documents that would lead a request astray, each by one change of the second.
Spoiled ==
  LET good == MCConfig[d2] IN
  {[good EXCEPT !.services = <<@[1], @[1]>>],
   [good EXCEPT !.services[1].models = {}],
   [good EXCEPT !.services[1].model_routes = m2 :> To(m3, {})],
   [good EXCEPT !.api_keys = <<@[1], @[1]>>],
   [good EXCEPT !.api_keys[1].services = {s1, c1}],
   [good EXCEPT !.api_keys[1].model_routes = m2 :> To(m1, {s2})],
   [good EXCEPT !.model_routes = m2 :> To(m3, {})]}

ASSUME SpoiledAssumption == \A config \in Spoiled : ~parseConfig(config)

Sender(credential, format) == [credential |-> credential, format |-> format]

MCSenders == {Sender(c1, "openai"), Sender(c2, "openai"), Sender(c2, "codex")}

MCUpstreams == {{m1, m2, m3, review}}

Symmetry == Permutations(Loads)
=============================================================================
