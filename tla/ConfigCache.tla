---------------------------- MODULE ConfigCache -----------------------------
(***************************************************************************)
(* loadConfig of src/config.ts: one document in a KV store, and one cache  *)
(* per isolate that every request of the isolate reads and writes.  A load *)
(* reads the clock once, when it begins; the answer of the store and the   *)
(* code after the await come later, with other loads between.  kv is the   *)
(* document as the store answers it here: how long the store itself takes  *)
(* to spread a new document is not the gateway's.                          *)
(***************************************************************************)
EXTENDS Integers

CONSTANTS
  Documents,   \* what may lie in the store under the configured key
  Valid,       \* those that parseConfig accepts
  Missing,     \* no answer, or none under that key
  Loads,       \* calls of loadConfig
  Empty,       \* nothing cached
  Ttl,         \* cacheTtlMs
  StaleTtl,    \* 5000
  MaxTime      \* bound of the clock

ASSUME ConfigCacheAssumption ==
  /\ Valid \subseteq Documents
  /\ Missing \notin Documents
  /\ Ttl \in Nat
  /\ StaleTtl \in Nat \ {0}
  /\ Empty \notin [doc : Valid, expiresAt : Nat]

VARIABLES
  now,       \* Date.now()
  kv,        \* the document in the store
  cached,    \* cached of src/config.ts
  loads,     \* loads[l]: the call l
  current,   \* history: current[d], when document d was last in the store
  failed     \* history: when the latest load began that failed

loadVars == <<now, kv, cached, loads, current, failed>>

Never == -1 - Ttl - StaleTtl

Idle == [state |-> "idle"]
Reading(since) == [state |-> "reading", since |-> since]
Answered(since, raw) == [state |-> "answered", since |-> since, raw |-> raw]
Done(since, doc) == [state |-> "done", since |-> since, doc |-> doc]
Thrown == [state |-> "thrown"]

LoadInit ==
  /\ now = 0
  /\ kv \in Documents
  /\ cached = Empty
  /\ loads = [l \in Loads |-> Idle]
  /\ current = [d \in Documents |-> IF d = kv THEN 0 ELSE Never]
  /\ failed = Never

Fresh == cached # Empty /\ cached.expiresAt > now

Hit(l) ==
  /\ loads[l] = Idle
  /\ Fresh
  /\ loads' = [loads EXCEPT ![l] = Done(now, cached.doc)]
  /\ UNCHANGED <<now, kv, cached, current, failed>>

Miss(l) ==
  /\ loads[l] = Idle
  /\ ~Fresh
  /\ loads' = [loads EXCEPT ![l] = Reading(now)]
  /\ UNCHANGED <<now, kv, cached, current, failed>>

\* The store answers; reading it may also fail.
Get(l) ==
  /\ loads[l].state = "reading"
  /\ \E raw \in {kv, Missing} :
       loads' = [loads EXCEPT ![l] = Answered(loads[l].since, raw)]
  /\ UNCHANGED <<now, kv, cached, current, failed>>

\* Wrong on purpose, as are all the definitions named Wrong...: the document is
\* kept from the end of the load on, not from its beginning.
WrongStore(l) ==
  /\ loads[l].state = "answered"
  /\ loads[l].raw \in Valid
  /\ cached' = [doc |-> loads[l].raw, expiresAt |-> now + Ttl]
  /\ loads' = [loads EXCEPT ![l] = Done(loads[l].since, loads[l].raw)]
  /\ UNCHANGED <<now, kv, current, failed>>

\* Whatever another load has stored meanwhile is replaced.
Store(l) ==
  /\ loads[l].state = "answered"
  /\ loads[l].raw \in Valid
  /\ cached' = [doc |-> loads[l].raw, expiresAt |-> loads[l].since + Ttl]
  /\ loads' = [loads EXCEPT ![l] = Done(loads[l].since, loads[l].raw)]
  /\ UNCHANGED <<now, kv, current, failed>>

\* What is cached by now is used for another five seconds from the beginning
\* of the load; without it the load throws.
Fail(l) ==
  /\ loads[l].state = "answered"
  /\ loads[l].raw \notin Valid
  /\ failed' = IF loads[l].since > failed THEN loads[l].since ELSE failed
  /\ IF cached = Empty
     THEN /\ loads' = [loads EXCEPT ![l] = Thrown]
          /\ cached' = cached
     ELSE /\ loads' = [loads EXCEPT ![l] = Done(loads[l].since, cached.doc)]
          /\ cached' = [cached EXCEPT !.expiresAt = loads[l].since + StaleTtl]
  /\ UNCHANGED <<now, kv, current>>

\* The request that called is over.
Return(l) ==
  /\ loads[l].state \in {"done", "thrown"}
  /\ loads' = [loads EXCEPT ![l] = Idle]
  /\ UNCHANGED <<now, kv, cached, current, failed>>

Publish(d) ==
  /\ d # kv
  /\ kv' = d
  /\ current' = [current EXCEPT ![d] = now]
  /\ UNCHANGED <<now, cached, loads, failed>>

Tick ==
  /\ now < MaxTime
  /\ now' = now + 1
  /\ current' = [current EXCEPT ![kv] = now']
  /\ UNCHANGED <<kv, cached, loads, failed>>

Load(l) == Hit(l) \/ Miss(l) \/ Get(l) \/ Store(l) \/ Fail(l)

LoadNext ==
  \/ \E l \in Loads : Load(l) \/ Return(l)
  \/ \E d \in Documents : Publish(d)
  \/ Tick

LoadSpec == LoadInit /\ [][LoadNext]_loadVars
-----------------------------------------------------------------------------
LoadTypeOK ==
  /\ now \in Nat
  /\ kv \in Documents
  /\ cached \in [doc : Valid, expiresAt : Nat] \cup {Empty}
  /\ loads \in [Loads ->
       {Idle, Thrown}
       \cup [state : {"reading"}, since : Nat]
       \cup [state : {"answered"}, since : Nat, raw : Documents \cup {Missing}]
       \cup [state : {"done"}, since : Nat, doc : Valid]]
  /\ current \in [Documents -> Nat \cup {Never}]
  /\ failed \in Nat \cup {Never}

\* A document that is taken out of the store is not used for long: the
\* configuration of a request was in the store after the request came or less
\* than the time to live before it, unless a load that began less than five
\* seconds before has failed.  Slow loads that store over faster ones, and
\* failures that prolong what another load stored, change nothing of that.
Justified(b, d) ==
  \/ current[d] >= b
  \/ current[d] > b - Ttl
  \/ current[d] # Never /\ failed > b - StaleTtl

ServedWasCurrent ==
  \A l \in Loads : loads[l].state = "done" => Justified(loads[l].since, loads[l].doc)
=============================================================================
