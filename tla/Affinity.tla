------------------------------ MODULE Affinity ------------------------------
(***************************************************************************)
(* The choices of src/affinity.ts.  A candidate list is the sequence of    *)
(* services that routing found usable for a request, in the order of       *)
(* sortRoutedServices, each with the keys that are not cooling:            *)
(*   [service_id, priority, keys], a key being [key_id, priority].         *)
(* The operators are the calls made without a random source, which take    *)
(* the first of equals; Choices is every answer of                         *)
(* chooseAffinityCandidate when it draws among them.                       *)
(***************************************************************************)
EXTENDS Integers, Sequences

CONSTANTS
  ServiceIds, KeyIds,  \* ids of the configured services and of their keys
  None                 \* undefined

AffinityKeyCandidate == [key_id : KeyIds, priority : Int]
AffinityServiceCandidate ==
  [service_id : ServiceIds, priority : Int, keys : Seq(AffinityKeyCandidate)]
AffinitySelection == [service_id : ServiceIds, key_id : KeyIds]

ASSUME AffinityAssumption ==
  None \notin AffinityKeyCandidate \cup AffinityServiceCandidate \cup AffinitySelection

\* The configuration names no service twice, and no key of a service twice.
IsCandidateList(cs) ==
  /\ cs \in Seq(AffinityServiceCandidate)
  /\ \A i, j \in DOMAIN cs : cs[i].service_id = cs[j].service_id => i = j
  /\ \A i \in DOMAIN cs : \A j, k \in DOMAIN cs[i].keys :
       cs[i].keys[j].key_id = cs[i].keys[k].key_id => j = k

Target(service, key) == [service_id |-> service.service_id, key_id |-> key.key_id]

\* Math.max over the priorities, and the entries that reach it: positions, in
\* the order of the list.  Services with no key left do not count.
IsTopService(s, candidates) ==
  \A i \in DOMAIN candidates : candidates[i].keys # <<>> => candidates[i].priority <= s.priority

IsTopKey(k, keys) == \A j \in DOMAIN keys : keys[j].priority <= k.priority

TiedServices(candidates) ==
  {i \in DOMAIN candidates : candidates[i].keys # <<>> /\ IsTopService(candidates[i], candidates)}

TiedKeys(keys) == {j \in DOMAIN keys : IsTopKey(keys[j], keys)}

First(positions) == CHOOSE i \in positions : \A j \in positions : i <= j

\* candidates.find and keys.find, None standing for undefined.
FindService(candidates, id) ==
  IF \E i \in DOMAIN candidates : candidates[i].service_id = id
  THEN candidates[CHOOSE i \in DOMAIN candidates : candidates[i].service_id = id]
  ELSE None

FindKey(service, id) ==
  IF service # None /\ \E j \in DOMAIN service.keys : service.keys[j].key_id = id
  THEN service.keys[CHOOSE j \in DOMAIN service.keys : service.keys[j].key_id = id]
  ELSE None

\* Wrong on purpose, as are all the definitions named Wrong...: the first key
\* of the service is taken whatever its priority.
WrongChoice(candidates) ==
  LET service == candidates[First(TiedServices(candidates))]
  IN IF TiedServices(candidates) = {} THEN None ELSE Target(service, service.keys[1])

chooseAffinityCandidate(candidates) ==
  LET service == candidates[First(TiedServices(candidates))]
  IN IF TiedServices(candidates) = {} THEN None
     ELSE Target(service, service.keys[First(TiedKeys(service.keys))])

Choices(candidates) ==
  UNION {{Target(candidates[i], candidates[i].keys[j]) : j \in TiedKeys(candidates[i].keys)} :
           i \in TiedServices(candidates)}

affinitySelectionIsHighestPriority(selection, candidates) ==
  /\ selection # None
  /\ LET service == FindService(candidates, selection.service_id)
         key == FindKey(service, selection.key_id)
     IN /\ key # None
        /\ IsTopService(service, candidates)
        /\ IsTopKey(key, service.keys)

choosePreferredOrRandom(candidates, preferred) ==
  IF affinitySelectionIsHighestPriority(preferred, candidates)
  THEN preferred
  ELSE chooseAffinityCandidate(candidates)

\* Wrong: the preference of another service is honoured.
WrongWithinService(service, preferred) ==
  IF preferred # None THEN preferred ELSE chooseAffinityCandidate(<<service>>)

choosePreferredOrRandomWithinService(service, preferred) ==
  IF /\ preferred # None
     /\ preferred.service_id = service.service_id
     /\ FindKey(service, preferred.key_id) # None
     /\ IsTopKey(FindKey(service, preferred.key_id), service.keys)
  THEN preferred
  ELSE chooseAffinityCandidate(<<service>>)

Decision(selection, status) == [selection |-> selection, status |-> status]

\* Wrong: a binding follows the preference of each request.
WrongStickiness(stored, candidates, preferred) ==
  LET next == choosePreferredOrRandom(candidates, preferred)
  IN Decision(next, IF next = stored THEN "hit" ELSE "rebound")

\* stored is the target of the session's record.
resolveStoredAffinity(stored, candidates, preferred) ==
  LET service == FindService(candidates, stored.service_id)
      key == FindKey(service, stored.key_id)
  IN IF key = None \/ ~IsTopService(service, candidates)
     THEN Decision(choosePreferredOrRandom(candidates, preferred), "rebound")
     ELSE IF ~IsTopKey(key, service.keys)
     THEN Decision(choosePreferredOrRandomWithinService(service, preferred), "rebound")
     ELSE Decision(stored, "hit")
-----------------------------------------------------------------------------
\* The pairs of a list, and where they lead.
Pairs(cs) ==
  UNION {{[service |-> cs[i], key |-> cs[i].keys[j]] : j \in DOMAIN cs[i].keys} :
           i \in DOMAIN cs}

\* The targets the README promises, written without the code's maxima: those
\* that no other pair of the list outranks.
Outranks(p, q) ==
  \/ p.service.priority > q.service.priority
  \/ p.service.service_id = q.service.service_id /\ p.key.priority > q.key.priority

Best(cs) ==
  {Target(p.service, p.key) : p \in {q \in Pairs(cs) : ~\E r \in Pairs(cs) : Outranks(r, q)}}
=============================================================================
