---------------------------- MODULE ModelCatalog ----------------------------
(***************************************************************************)
(* GET /v1/models: the requests of one isolate through fetch of            *)
(* src/index.ts and handleModels of src/models.ts, over the two caches     *)
(* they share.  A request loads the configuration (ConfigCache), is        *)
(* authenticated against what it was given, looks its key up in the cache  *)
(* of catalogs and, when it finds nothing, asks the services.  It goes on  *)
(* with the configuration it was given while others load a newer one.      *)
(* Which services are in, and what they answer, is left open: catalog      *)
(* health has objects of its own, which ServiceHealth models, and a        *)
(* catalog must be right whatever they say.                                *)
(***************************************************************************)
EXTENDS ConfigCache, Routes, Arrays

CONSTANTS
  Config,       \* Config[d]: what document d says; those that say the same are one
  Senders,      \* who asks: [credential, format], the API key and the ModelsFormat,
                \* which stands for all that requestHeaderVary tells apart
  Upstreams,    \* the model lists that services answer with
  CatalogTtl,   \* cacheTtlMs of src/models.ts
  MaxEntries    \* of ModelsCache

ASSUME ModelCatalogAssumption ==
  /\ Valid = {d \in Documents : parseConfig(Config[d])}
  /\ CatalogTtl \in Nat
  /\ MaxEntries \in Nat \ {0}
  /\ \A s \in Senders : s = [credential |-> s.credential, format |-> s.format]
  /\ \A d \in Documents : Config[d].services \in Seq(ToSet(Config[d].services))
  /\ Nobody \notin UNION {ToSet(Config[d].api_keys) : d \in Documents}

VARIABLES
  entries,   \* the Map of ModelsCache: entries[k], for the keys it has
  order,     \* its keys, in the order of their insertion
  asking,    \* asking[r]: what request r found no catalog for, or Nothing
  answer     \* what the last step answered to a request, or Nothing

catalogVars == <<entries, order, asking, answer>>
vars == <<loadVars, catalogVars>>
-----------------------------------------------------------------------------
Nothing == [status |-> 0]

Ask(doc, client, format) == [doc |-> doc, client |-> client, format |-> format]

Shown(request, payload) ==
  [status |-> 200, doc |-> request.doc, client |-> request.client,
   format |-> request.format, payload |-> payload]

Refused(status) == [status |-> status]

\* Wrong on purpose, as are all the definitions named Wrong...: the key names
\* the client and not the configuration.
WrongKey(doc, client, format) == <<client.id, format>>

\* The text of the configuration stands for it; the client is part of it.
modelsCacheKey(doc, client, format) == <<doc, client.id, format>>

Fits(key) == entries[key].expiresAt > now

\* The keys left when all but those of kept are deleted.
Only(kept) == Filter(order, {n \in DOMAIN order : order[n] \in kept})

Delete(key) ==
  /\ entries' = [k \in DOMAIN entries \ {key} |-> entries[k]]
  /\ order' = Only(DOMAIN entries \ {key})

Live == {k \in DOMAIN entries : Fits(k)}

\* Wrong: room is made once there are too many, and not before.
WrongFull(live) ==
  IF Cardinality(live) > MaxEntries THEN live \ {Head(Only(live))} ELSE live

\* Wrong: the oldest entry goes also where there is room.
WrongRoom(live) == IF live # {} THEN live \ {Head(Only(live))} ELSE live

\* At the limit the entry that was inserted first goes, also when the key to
\* write is there already.
WithRoom(live) ==
  IF Cardinality(live) >= MaxEntries THEN live \ {Head(Only(live))} ELSE live

\* Drops what is over, makes room, and sets the key, which stays where it is
\* when it is there.
Write(key, payload) ==
  LET kept == WithRoom(Live)
  IN IF CatalogTtl = 0 THEN UNCHANGED <<entries, order>>
     ELSE /\ entries' = [k \in kept \cup {key} |->
               IF k = key THEN [expiresAt |-> now + CatalogTtl, payload |-> payload]
               ELSE entries[k]]
          /\ order' = IF key \in kept THEN Only(kept) ELSE Append(Only(kept), key)

Init ==
  /\ LoadInit
  /\ entries = [k \in {} |-> Nothing]
  /\ order = <<>>
  /\ asking = [r \in Loads |-> Nothing]
  /\ answer = Nothing

Quiet == answer' = Nothing /\ UNCHANGED <<entries, order, asking>>

Come(r) ==
  /\ asking[r] = Nothing
  /\ Load(r)
  /\ Quiet

\* 500 without a configuration, 401 without a client in it.
Refuse(r) ==
  /\ \/ /\ loads[r] = Thrown
        /\ answer' = Refused(500)
     \/ /\ loads[r].state = "done"
        /\ \E sender \in Senders :
             findClientApiKey(sender.credential, Config[loads[r].doc]) = Nobody
        /\ answer' = Refused(401)
  /\ Return(r)
  /\ UNCHANGED <<entries, order, asking>>

\* The request is authenticated and its key digested; what they wait for is
\* its own.  Then the cache is read, which drops an entry that is over.
Lookup(r) ==
  /\ loads[r].state = "done"
  /\ \E sender \in Senders :
       LET doc == loads[r].doc
           client == findClientApiKey(sender.credential, Config[doc])
           request == Ask(doc, client, sender.format)
           key == modelsCacheKey(doc, client, sender.format)
       IN /\ client # Nobody
          /\ IF CatalogTtl > 0 /\ key \in DOMAIN entries /\ Fits(key)
             THEN /\ answer' = Shown(request, entries[key].payload)
                  /\ UNCHANGED <<entries, order, asking>>
             ELSE /\ asking' = [asking EXCEPT ![r] = request]
                  /\ IF CatalogTtl > 0 THEN Delete(key) ELSE UNCHANGED <<entries, order>>
                  /\ answer' = Nothing
  /\ Return(r)

\* fetchServiceModels: a service that is asked answers with the models it lists,
\* or with an error, with what is no list, or not in time.
Answers(in) == UNION {[up -> Upstreams] : up \in SUBSET in}

\* collectModels and the end of handleModels: reads health, asks the services that
\* are in, and writes what those said that answered.  A part is as good as all.
Collect(r) ==
  /\ asking[r] # Nothing
  /\ asking' = [asking EXCEPT ![r] = Nothing]
  /\ LET request == asking[r]
         config == Config[request.doc]
         open == Open(config, request.client)
     IN \E in \in SUBSET open : \E lists \in Answers(in) :
          IF DOMAIN lists = {}
          THEN /\ answer' = Refused(IF in = {} THEN 503 ELSE 502)
               /\ UNCHANGED <<entries, order>>
          ELSE LET payload == modelsPayload(request.format, lists, config, request.client)
               IN /\ answer' = Shown(request, payload)
                  /\ Write(modelsCacheKey(request.doc, request.client, request.format), payload)
  /\ UNCHANGED loadVars

Next ==
  \/ \E r \in Loads : Come(r) \/ Refuse(r) \/ Lookup(r) \/ Collect(r)
  \/ \E d \in Documents : Publish(d) /\ Quiet
  \/ Tick /\ Quiet

Spec == Init /\ [][Next]_vars
-----------------------------------------------------------------------------
IsPayload(payload) ==
  \A x \in payload : DOMAIN x = {"id", "service", "model"} /\ x.service \in Nat

IsRequest(request) ==
  /\ request.doc \in Valid
  /\ request.client \in ToSet(Config[request.doc].api_keys)
  /\ \E sender \in Senders :
       sender = [credential |-> request.client.api_key, format |-> request.format]

TypeOK ==
  /\ LoadTypeOK
  /\ \A k \in DOMAIN entries : entries[k].expiresAt \in Nat /\ IsPayload(entries[k].payload)
  /\ Cardinality(DOMAIN entries) <= MaxEntries
  /\ order \in [1 .. Cardinality(DOMAIN entries) -> DOMAIN entries] /\ Unique(order)
  /\ \A r \in Loads : asking[r] # Nothing => IsRequest(asking[r])
  /\ IF answer.status = 200
     THEN IsRequest(answer) /\ IsPayload(answer.payload)
     ELSE answer.status \in {0, 401, 500, 502, 503}

\* Every model a client is shown is one it may ask for, under the very
\* configuration its request was given, and it is described as by a service
\* its requests may go to, under the name that service is asked for, and once:
\* whoever wrote the entry, and whatever was published since.
CatalogIsRoutable ==
  answer.status = 200 =>
    Routable(answer.format, Config[answer.doc], answer.client, answer.payload)

\* A catalog that is still good leaves the cache only when the cache is full of
\* such, only the oldest one, and only for an answer just collected.
GoodStays ==
  [][\A k \in DOMAIN entries \ DOMAIN entries' : Fits(k) =>
       /\ Cardinality(Live) = MaxEntries
       /\ \A m, n \in DOMAIN order : order[n] = k /\ m < n => ~Fits(order[m])
       /\ answer'.status = 200]_vars
=============================================================================
