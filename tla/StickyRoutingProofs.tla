------------------------ MODULE StickyRoutingProofs -------------------------
(***************************************************************************)
(* What the choices of Affinity.tla return, for every candidate list: the  *)
(* best pairs of a nonempty list exist, a choice is one of them, and a     *)
(* stored target is kept exactly when it is one of them.  Then the         *)
(* properties of StickyRouting for every set of candidate lists.           *)
(***************************************************************************)
EXTENDS StickyRouting, ArraysProofs

\* First picks a member.
LEMMA FirstIsMember ==
  ASSUME NEW S \in SUBSET Nat, S # {}
  PROVE  First(S) \in S
BY Least DEF First

\* A nonempty list of keys has keys of the greatest priority.
LEMMA TopKeyExists ==
  ASSUME NEW keys \in Seq(AffinityKeyCandidate), keys # <<>>
  PROVE  /\ First(TiedKeys(keys)) \in DOMAIN keys
         /\ IsTopKey(keys[First(TiedKeys(keys))], keys)
<1> DEFINE p == [j \in 1 .. Len(keys) |-> keys[j].priority]
<1>1. /\ Len(keys) \in Nat
      /\ DOMAIN keys = 1 .. Len(keys)
      /\ DOMAIN keys # {}
      /\ \A j \in DOMAIN keys : keys[j].priority \in Int
  <2>1. \A j \in DOMAIN keys : keys[j] \in AffinityKeyCandidate
    OBVIOUS
  <2>2. \A j \in DOMAIN keys : keys[j].priority \in Int
    BY <2>1 DEF AffinityKeyCandidate
  <2>3. Len(keys) \in Nat /\ DOMAIN keys = 1 .. Len(keys) /\ DOMAIN keys # {}
    OBVIOUS
  <2> QED
    BY <2>2, <2>3
<1>2. p \in [1 .. Len(keys) -> Int]
  BY <1>1
<1>3. \E i \in DOMAIN keys : \A j \in DOMAIN keys : p[j] <= p[i]
  <2> HIDE DEF p
  <2> QED
    BY <1>1, <1>2, Greatest
<1>4. TiedKeys(keys) # {}
  BY <1>1, <1>3 DEF TiedKeys, IsTopKey
<1>5. TiedKeys(keys) \in SUBSET Nat
  BY <1>1 DEF TiedKeys
<1>6. First(TiedKeys(keys)) \in TiedKeys(keys)
  BY <1>4, <1>5, FirstIsMember
<1> QED
  BY <1>6 DEF TiedKeys

\* A list with a usable service has usable services of the greatest priority.
LEMMA TopServiceExists ==
  ASSUME NEW cs \in Seq(AffinityServiceCandidate), \E i \in DOMAIN cs : cs[i].keys # <<>>
  PROVE  /\ TiedServices(cs) # {}
         /\ First(TiedServices(cs)) \in DOMAIN cs
         /\ cs[First(TiedServices(cs))].keys # <<>>
         /\ IsTopService(cs[First(TiedServices(cs))], cs)
<1> DEFINE p == [i \in 1 .. Len(cs) |-> cs[i].priority]
           usable == {i \in DOMAIN cs : cs[i].keys # <<>>}
<1>1. /\ Len(cs) \in Nat
      /\ DOMAIN cs = 1 .. Len(cs)
      /\ \A i \in DOMAIN cs : cs[i].priority \in Int
  <2>1. \A i \in DOMAIN cs : cs[i] \in AffinityServiceCandidate
    OBVIOUS
  <2>2. \A i \in DOMAIN cs : cs[i].priority \in Int
    BY <2>1 DEF AffinityServiceCandidate
  <2> QED
    BY <2>2
<1>2. p \in [1 .. Len(cs) -> Int] /\ usable \in SUBSET (1 .. Len(cs)) /\ usable # {}
  BY <1>1
<1>3. \E i \in usable : \A j \in usable : p[j] <= p[i]
  <2> HIDE DEF p, usable
  <2> QED
    BY <1>1, <1>2, Greatest
<1>4. TiedServices(cs) # {}
  BY <1>1, <1>3 DEF TiedServices, IsTopService
<1>5. TiedServices(cs) \in SUBSET Nat
  BY <1>1 DEF TiedServices
<1>6. First(TiedServices(cs)) \in TiedServices(cs)
  BY <1>4, <1>5, FirstIsMember
<1> QED
  BY <1>4, <1>6 DEF TiedServices
-----------------------------------------------------------------------------
\* find returns the one entry of its id.
LEMMA FindServiceFinds ==
  ASSUME NEW cs, IsCandidateList(cs), NEW i \in DOMAIN cs
  PROVE  FindService(cs, cs[i].service_id) = cs[i]
BY DEF FindService, IsCandidateList

LEMMA FindKeyFinds ==
  ASSUME NEW cs, IsCandidateList(cs), NEW i \in DOMAIN cs, NEW j \in DOMAIN cs[i].keys
  PROVE  FindKey(cs[i], cs[i].keys[j].key_id) = cs[i].keys[j]
<1>1. cs[i] # None
  BY AffinityAssumption DEF IsCandidateList
<1> QED
  BY <1>1 DEF FindKey, IsCandidateList

\* A key that is found is at some position of some service.
LEMMA FoundKeyHasPlace ==
  ASSUME NEW cs, IsCandidateList(cs), NEW selection \in AffinitySelection,
         FindKey(FindService(cs, selection.service_id), selection.key_id) # None
  PROVE  \E i \in DOMAIN cs : \E j \in DOMAIN cs[i].keys :
           /\ selection = Target(cs[i], cs[i].keys[j])
           /\ FindService(cs, selection.service_id) = cs[i]
           /\ FindKey(cs[i], selection.key_id) = cs[i].keys[j]
<1>1. FindService(cs, selection.service_id) # None
  BY DEF FindKey
<1>2. PICK i \in DOMAIN cs : cs[i].service_id = selection.service_id
  BY <1>1 DEF FindService
<1>3. FindService(cs, selection.service_id) = cs[i]
  BY <1>2, FindServiceFinds
<1>4. PICK j \in DOMAIN cs[i].keys : cs[i].keys[j].key_id = selection.key_id
  BY <1>3 DEF FindKey
<1>5. FindKey(cs[i], selection.key_id) = cs[i].keys[j]
  BY <1>4, FindKeyFinds
<1>6. selection = Target(cs[i], cs[i].keys[j])
  BY <1>2, <1>4 DEF Target, AffinitySelection
<1> QED
  BY <1>3, <1>5, <1>6
-----------------------------------------------------------------------------
\* The types of the entries of a list.
LEMMA EntryTypes ==
  ASSUME NEW cs, IsCandidateList(cs), NEW i \in DOMAIN cs
  PROVE  /\ cs[i].service_id \in ServiceIds
         /\ cs[i].priority \in Int
         /\ cs[i].keys \in Seq(AffinityKeyCandidate)
         /\ \A j \in DOMAIN cs[i].keys : /\ cs[i].keys[j].key_id \in KeyIds
                                         /\ cs[i].keys[j].priority \in Int
         /\ \A j \in DOMAIN cs[i].keys : cs[i].keys # <<>>
<1>1. cs[i] \in AffinityServiceCandidate
  BY DEF IsCandidateList
<1>2. /\ cs[i].service_id \in ServiceIds
      /\ cs[i].priority \in Int
      /\ cs[i].keys \in Seq(AffinityKeyCandidate)
  BY <1>1 DEF AffinityServiceCandidate
<1>3. ASSUME NEW j \in DOMAIN cs[i].keys
      PROVE  cs[i].keys[j].key_id \in KeyIds /\ cs[i].keys[j].priority \in Int
  <2>1. cs[i].keys[j] \in AffinityKeyCandidate
    BY <1>2
  <2> QED
    BY <2>1 DEF AffinityKeyCandidate
<1>4. ASSUME NEW j \in DOMAIN cs[i].keys PROVE cs[i].keys # <<>>
  BY <1>2
<1> QED
  BY <1>2, <1>3, <1>4

\* No pair outranks a pair exactly when its service and its key are on top.
LEMMA TopIsNotOutranked ==
  ASSUME NEW cs, IsCandidateList(cs), NEW i \in DOMAIN cs, NEW j \in DOMAIN cs[i].keys
  PROVE  (~\E r \in Pairs(cs) : Outranks(r, [service |-> cs[i], key |-> cs[i].keys[j]]))
           <=> IsTopService(cs[i], cs) /\ IsTopKey(cs[i].keys[j], cs[i].keys)
<1> DEFINE q == [service |-> cs[i], key |-> cs[i].keys[j]]
<1>1. ASSUME ~\E r \in Pairs(cs) : Outranks(r, q)
      PROVE  IsTopService(cs[i], cs)
  <2> SUFFICES ASSUME NEW k \in DOMAIN cs, cs[k].keys # <<>>
               PROVE  cs[k].priority <= cs[i].priority
    BY DEF IsTopService
  <2>1. PICK l \in DOMAIN cs[k].keys : TRUE
    BY EntryTypes
  <2>2. [service |-> cs[k], key |-> cs[k].keys[l]] \in Pairs(cs)
    BY DEF Pairs
  <2>3. ~(cs[k].priority > cs[i].priority)
    BY <1>1, <2>2 DEF Outranks
  <2> QED
    BY <2>3, EntryTypes
<1>2. ASSUME ~\E r \in Pairs(cs) : Outranks(r, q)
      PROVE  IsTopKey(cs[i].keys[j], cs[i].keys)
  <2> SUFFICES ASSUME NEW l \in DOMAIN cs[i].keys
               PROVE  cs[i].keys[l].priority <= cs[i].keys[j].priority
    BY DEF IsTopKey
  <2>1. [service |-> cs[i], key |-> cs[i].keys[l]] \in Pairs(cs)
    BY DEF Pairs
  <2>2. ~(cs[i].keys[l].priority > cs[i].keys[j].priority)
    BY <1>2, <2>1 DEF Outranks
  <2> QED
    BY <2>2, EntryTypes
<1>3. ASSUME IsTopService(cs[i], cs), IsTopKey(cs[i].keys[j], cs[i].keys),
             NEW r \in Pairs(cs), Outranks(r, q)
      PROVE  FALSE
  <2>1. PICK k \in DOMAIN cs : \E l \in DOMAIN cs[k].keys :
               r = [service |-> cs[k], key |-> cs[k].keys[l]]
    BY DEF Pairs
  <2>2. PICK l \in DOMAIN cs[k].keys : r = [service |-> cs[k], key |-> cs[k].keys[l]]
    BY <2>1
  <2>3. cs[k].priority <= cs[i].priority
    BY <1>3, EntryTypes DEF IsTopService
  <2>4. ~(cs[k].priority > cs[i].priority)
    BY <2>3, EntryTypes
  <2>5. cs[k].service_id = cs[i].service_id /\ cs[k].keys[l].priority > cs[i].keys[j].priority
    BY <1>3, <2>2, <2>4 DEF Outranks
  <2>6. k = i
    BY <2>5 DEF IsCandidateList
  <2>7. cs[i].keys[l].priority <= cs[i].keys[j].priority
    BY <1>3, <2>6 DEF IsTopKey
  <2> QED
    BY <2>5, <2>6, <2>7, EntryTypes
<1> QED
  BY <1>1, <1>2, <1>3

\* The best targets are those whose service and key are on top.
LEMMA BestIsTop ==
  ASSUME NEW cs, IsCandidateList(cs), NEW target
  PROVE  target \in Best(cs) <=>
           \E i \in DOMAIN cs : \E j \in DOMAIN cs[i].keys :
             /\ target = Target(cs[i], cs[i].keys[j])
             /\ IsTopService(cs[i], cs)
             /\ IsTopKey(cs[i].keys[j], cs[i].keys)
<1> DEFINE Pair(i, j) == [service |-> cs[i], key |-> cs[i].keys[j]]
           Top(q) == ~\E r \in Pairs(cs) : Outranks(r, q)
<1>1. target \in Best(cs) <=> \E q \in Pairs(cs) : Top(q) /\ target = Target(q.service, q.key)
  BY DEF Best
<1>2. \A q : q \in Pairs(cs) <=> \E i \in DOMAIN cs : \E j \in DOMAIN cs[i].keys : q = Pair(i, j)
  BY DEF Pairs
<1>3. \A i \in DOMAIN cs : \A j \in DOMAIN cs[i].keys :
        Top(Pair(i, j)) <=> IsTopService(cs[i], cs) /\ IsTopKey(cs[i].keys[j], cs[i].keys)
  BY TopIsNotOutranked
<1>4. \A i, j : Pair(i, j).service = cs[i] /\ Pair(i, j).key = cs[i].keys[j]
  OBVIOUS
<1> HIDE DEF Pair, Top
<1> QED
  BY <1>1, <1>2, <1>3, <1>4

LEMMA BestAreSelections ==
  ASSUME NEW cs, IsCandidateList(cs)
  PROVE  Best(cs) \subseteq AffinitySelection /\ None \notin Best(cs)
<1>1. ASSUME NEW target \in Best(cs) PROVE target \in AffinitySelection
  <2>1. PICK i \in DOMAIN cs : \E j \in DOMAIN cs[i].keys : target = Target(cs[i], cs[i].keys[j])
    BY BestIsTop
  <2> QED
    BY <2>1, EntryTypes DEF Target, AffinitySelection
<1> QED
  BY <1>1, AffinityAssumption
-----------------------------------------------------------------------------
\* A choice is one of the best targets, when there is a target at all.
LEMMA ChoiceIsBest ==
  ASSUME NEW cs, IsCandidateList(cs), Pairs(cs) # {}
  PROVE  chooseAffinityCandidate(cs) \in Best(cs)
<1> DEFINE i == First(TiedServices(cs))
           j == First(TiedKeys(cs[i].keys))
<1>1. \E k \in DOMAIN cs : cs[k].keys # <<>>
  BY EntryTypes DEF Pairs
<1>2. /\ TiedServices(cs) # {}
      /\ i \in DOMAIN cs
      /\ cs[i].keys # <<>>
      /\ IsTopService(cs[i], cs)
  BY <1>1, TopServiceExists DEF IsCandidateList
<1>3. j \in DOMAIN cs[i].keys /\ IsTopKey(cs[i].keys[j], cs[i].keys)
  BY <1>2, TopKeyExists, EntryTypes
<1>4. chooseAffinityCandidate(cs) = Target(cs[i], cs[i].keys[j])
  BY <1>2 DEF chooseAffinityCandidate
<1> HIDE DEF i, j
<1> QED
  BY <1>2, <1>3, <1>4, BestIsTop

LEMMA NoChoice ==
  ASSUME NEW cs, IsCandidateList(cs), Pairs(cs) = {}
  PROVE  chooseAffinityCandidate(cs) = None
<1>1. ASSUME NEW i \in DOMAIN cs, cs[i].keys # <<>> PROVE FALSE
  <2>1. PICK j \in DOMAIN cs[i].keys : TRUE
    BY <1>1, EntryTypes
  <2>2. [service |-> cs[i], key |-> cs[i].keys[j]] \in Pairs(cs)
    BY <2>1 DEF Pairs
  <2> QED
    BY <2>2
<1>2. TiedServices(cs) = {}
  BY <1>1 DEF TiedServices
<1> QED
  BY <1>2 DEF chooseAffinityCandidate

\* What chooseAffinityCandidate may draw is what the reference allows.
LEMMA ChoicesAreBest ==
  ASSUME NEW cs, IsCandidateList(cs)
  PROVE  Choices(cs) = Best(cs)
<1>1. ASSUME NEW target
      PROVE  target \in Choices(cs) <=>
               \E i \in DOMAIN cs : \E j \in DOMAIN cs[i].keys :
                 /\ target = Target(cs[i], cs[i].keys[j])
                 /\ IsTopService(cs[i], cs)
                 /\ IsTopKey(cs[i].keys[j], cs[i].keys)
  BY EntryTypes DEF Choices, TiedServices, TiedKeys
<1> QED
  BY <1>1, BestIsTop

\* The test of a preference is the reference.
LEMMA HighestIsBest ==
  ASSUME NEW cs, IsCandidateList(cs), NEW selection \in AffinitySelection \cup {None}
  PROVE  affinitySelectionIsHighestPriority(selection, cs) <=> selection \in Best(cs)
<1> DEFINE service == FindService(cs, selection.service_id)
           key == FindKey(service, selection.key_id)
<1>1. CASE selection = None
  BY <1>1, BestAreSelections DEF affinitySelectionIsHighestPriority
<1>2. CASE selection # None
  <2>1. selection \in AffinitySelection
    BY <1>2
  <2>2. ASSUME affinitySelectionIsHighestPriority(selection, cs)
        PROVE  selection \in Best(cs)
    <3>1. key # None /\ IsTopService(service, cs) /\ IsTopKey(key, service.keys)
      BY <2>2 DEF affinitySelectionIsHighestPriority
    <3>2. PICK i \in DOMAIN cs : \E j \in DOMAIN cs[i].keys :
                 /\ selection = Target(cs[i], cs[i].keys[j])
                 /\ service = cs[i]
                 /\ FindKey(cs[i], selection.key_id) = cs[i].keys[j]
      BY <2>1, <3>1, FoundKeyHasPlace
    <3> QED
      BY <3>1, <3>2, BestIsTop
  <2>3. ASSUME selection \in Best(cs)
        PROVE  affinitySelectionIsHighestPriority(selection, cs)
    <3>1. PICK i \in DOMAIN cs : \E j \in DOMAIN cs[i].keys :
                 /\ selection = Target(cs[i], cs[i].keys[j])
                 /\ IsTopService(cs[i], cs)
                 /\ IsTopKey(cs[i].keys[j], cs[i].keys)
      BY <2>3, BestIsTop
    <3>2. PICK j \in DOMAIN cs[i].keys :
                 /\ selection = Target(cs[i], cs[i].keys[j])
                 /\ IsTopService(cs[i], cs)
                 /\ IsTopKey(cs[i].keys[j], cs[i].keys)
      BY <3>1
    <3>3. service = cs[i] /\ FindKey(cs[i], selection.key_id) = cs[i].keys[j]
      BY <3>2, FindServiceFinds, FindKeyFinds DEF Target
    <3>4. cs[i].keys[j] # None
      <4>1. cs[i].keys[j] \in AffinityKeyCandidate
        BY EntryTypes
      <4> QED
        BY <4>1, AffinityAssumption
    <3> QED
      BY <1>2, <3>2, <3>3, <3>4 DEF affinitySelectionIsHighestPriority
  <2> QED
    BY <2>2, <2>3
<1> QED
  BY <1>1, <1>2

\* A sound preference is honoured, and is replaced by a best choice otherwise.
LEMMA PreferenceOrBest ==
  ASSUME NEW cs, IsCandidateList(cs), NEW preference \in AffinitySelection \cup {None}
  PROVE  /\ preference \in Best(cs) => choosePreferredOrRandom(cs, preference) = preference
         /\ Pairs(cs) # {} => choosePreferredOrRandom(cs, preference) \in Best(cs)
         /\ Pairs(cs) = {} => choosePreferredOrRandom(cs, preference) = None
<1>1. Best(cs) # {} => Pairs(cs) # {}
  BY DEF Best
<1> QED
  BY <1>1, HighestIsBest, ChoiceIsBest, NoChoice DEF choosePreferredOrRandom
-----------------------------------------------------------------------------
\* A service of a list is a list of its own, and its best keys are the list's
\* when the service is on top.
LEMMA WithinService ==
  ASSUME NEW cs, IsCandidateList(cs), NEW i \in DOMAIN cs, cs[i].keys # <<>>
  PROVE  /\ IsCandidateList(<<cs[i]>>)
         /\ Pairs(<<cs[i]>>) # {}
         /\ \A target : target \in Best(<<cs[i]>>) <=>
              \E j \in DOMAIN cs[i].keys :
                target = Target(cs[i], cs[i].keys[j]) /\ IsTopKey(cs[i].keys[j], cs[i].keys)
<1> DEFINE one == <<cs[i]>>
<1>1. DOMAIN one = {1} /\ one[1] = cs[i] /\ cs[i].priority \in Int
  BY EntryTypes
<1>2. IsCandidateList(one)
  <2>1. one \in Seq(AffinityServiceCandidate)
    BY DEF IsCandidateList
  <2>2. \A j, k \in DOMAIN cs[i].keys : cs[i].keys[j].key_id = cs[i].keys[k].key_id => j = k
    BY DEF IsCandidateList
  <2> HIDE DEF one
  <2> QED
    BY <1>1, <2>1, <2>2 DEF IsCandidateList
<1>3. IsTopService(one[1], one)
  <2> HIDE DEF one
  <2> QED
    BY <1>1 DEF IsTopService
<1>4. Pairs(one) # {}
  <2>1. PICK j \in DOMAIN cs[i].keys : TRUE
    BY EntryTypes
  <2>2. [service |-> one[1], key |-> one[1].keys[j]] \in Pairs(one)
    BY <1>1, <2>1 DEF Pairs
  <2> QED
    BY <2>2
<1> HIDE DEF one
<1>5. \A target : target \in Best(one) <=>
        \E j \in DOMAIN cs[i].keys :
          target = Target(cs[i], cs[i].keys[j]) /\ IsTopKey(cs[i].keys[j], cs[i].keys)
  BY <1>1, <1>2, <1>3, BestIsTop
<1> QED
  BY <1>2, <1>4, <1>5 DEF one

LEMMA PreferenceWithinService ==
  ASSUME NEW cs, IsCandidateList(cs), NEW i \in DOMAIN cs, cs[i].keys # <<>>,
         IsTopService(cs[i], cs), NEW preference \in AffinitySelection \cup {None}
  PROVE  LET within == {p \in Best(cs) : p.service_id = cs[i].service_id}
             choice == choosePreferredOrRandomWithinService(cs[i], preference)
         IN choice \in within /\ (preference \in within => choice = preference)
<1> DEFINE within == {p \in Best(cs) : p.service_id = cs[i].service_id}
           key == FindKey(cs[i], preference.key_id)
<1>1. \A target : target \in within <=>
        \E j \in DOMAIN cs[i].keys :
          target = Target(cs[i], cs[i].keys[j]) /\ IsTopKey(cs[i].keys[j], cs[i].keys)
  <2>1. ASSUME NEW target \in within
        PROVE  \E j \in DOMAIN cs[i].keys :
                 target = Target(cs[i], cs[i].keys[j]) /\ IsTopKey(cs[i].keys[j], cs[i].keys)
    <3>1. PICK k \in DOMAIN cs : \E j \in DOMAIN cs[k].keys :
                 target = Target(cs[k], cs[k].keys[j]) /\ IsTopKey(cs[k].keys[j], cs[k].keys)
      BY BestIsTop
    <3>2. k = i
      BY <3>1 DEF Target, IsCandidateList
    <3> QED
      BY <3>1, <3>2
  <2>2. ASSUME NEW j \in DOMAIN cs[i].keys, IsTopKey(cs[i].keys[j], cs[i].keys)
        PROVE  Target(cs[i], cs[i].keys[j]) \in within
    <3>1. Target(cs[i], cs[i].keys[j]) \in Best(cs)
      BY <2>2, BestIsTop
    <3> QED
      BY <3>1 DEF Target
  <2> HIDE DEF within
  <2> QED
    BY <2>1, <2>2
<1>2. chooseAffinityCandidate(<<cs[i]>>) \in within
  <2>1. chooseAffinityCandidate(<<cs[i]>>) \in Best(<<cs[i]>>)
    BY WithinService, ChoiceIsBest
  <2> HIDE DEF within
  <2> QED
    BY <1>1, <2>1, WithinService
<1>3. ASSUME preference \in within
      PROVE  /\ preference # None
             /\ preference.service_id = cs[i].service_id
             /\ key # None
             /\ IsTopKey(key, cs[i].keys)
  <2>1. PICK j \in DOMAIN cs[i].keys :
               preference = Target(cs[i], cs[i].keys[j]) /\ IsTopKey(cs[i].keys[j], cs[i].keys)
    <3> HIDE DEF within
    <3> QED
      BY <1>1, <1>3
  <2>2. key = cs[i].keys[j]
    BY <2>1, FindKeyFinds DEF Target
  <2>3. cs[i].keys[j] \in AffinityKeyCandidate
    BY EntryTypes
  <2> QED
    BY <1>3, <2>1, <2>2, <2>3, BestAreSelections, AffinityAssumption DEF Target
<1>4. ASSUME preference # None,
             preference.service_id = cs[i].service_id,
             key # None,
             IsTopKey(key, cs[i].keys)
      PROVE  preference \in within
  <2>1. FindService(cs, preference.service_id) = cs[i]
    BY <1>4, FindServiceFinds
  <2>2. PICK k \in DOMAIN cs : \E j \in DOMAIN cs[k].keys :
               /\ preference = Target(cs[k], cs[k].keys[j])
               /\ cs[i] = cs[k]
               /\ FindKey(cs[k], preference.key_id) = cs[k].keys[j]
    BY <1>4, <2>1, FoundKeyHasPlace
  <2>3. \E j \in DOMAIN cs[i].keys :
          preference = Target(cs[i], cs[i].keys[j]) /\ IsTopKey(cs[i].keys[j], cs[i].keys)
    BY <1>4, <2>2
  <2> HIDE DEF within
  <2> QED
    BY <1>1, <2>3
<1> HIDE DEF within, key
<1>5. choosePreferredOrRandomWithinService(cs[i], preference) =
        IF preference \in within THEN preference ELSE chooseAffinityCandidate(<<cs[i]>>)
  BY <1>3, <1>4 DEF choosePreferredOrRandomWithinService, key
<1> QED
  BY <1>2, <1>5 DEF within
-----------------------------------------------------------------------------
\* A stored target is kept exactly while it is one of the best.
LEMMA KeepsBest ==
  ASSUME NEW cs, IsCandidateList(cs), NEW stored \in AffinitySelection, NEW preference
  PROVE  LET d == resolveStoredAffinity(stored, cs, preference)
         IN /\ stored \in Best(cs) => d = Decision(stored, "hit")
            /\ stored \notin Best(cs) => d.status = "rebound"
<1> DEFINE service == FindService(cs, stored.service_id)
           key == FindKey(service, stored.key_id)
<1>1. stored \in Best(cs) <=> key # None /\ IsTopService(service, cs) /\ IsTopKey(key, service.keys)
  <2>1. stored # None
    BY AffinityAssumption
  <2> QED
    BY <2>1, HighestIsBest DEF affinitySelectionIsHighestPriority
<1> HIDE DEF service, key
<1> QED
  BY <1>1 DEF resolveStoredAffinity, Decision, service, key

\* A target that is not kept is replaced by another, one of the best: within
\* the service when the service and the stored key are still there and the
\* service is on top, anywhere otherwise, and as preference wherever possible.
LEMMA MovesToBest ==
  ASSUME NEW cs, IsCandidateList(cs), Pairs(cs) # {},
         NEW stored \in AffinitySelection, stored \notin Best(cs),
         NEW preference \in AffinitySelection \cup {None}
  PROVE  LET d == resolveStoredAffinity(stored, cs, preference)
             within == {p \in Best(cs) : p.service_id = stored.service_id}
             lostKey == ~\E p \in Pairs(cs) : Target(p.service, p.key) = stored
             allowed == IF lostKey \/ within = {} THEN Best(cs) ELSE within
         IN d.selection \in allowed /\ (preference \in allowed => d.selection = preference)
<1> DEFINE within == {p \in Best(cs) : p.service_id = stored.service_id}
           lostKey == ~\E p \in Pairs(cs) : Target(p.service, p.key) = stored
           allowed == IF lostKey \/ within = {} THEN Best(cs) ELSE within
           service == FindService(cs, stored.service_id)
           key == FindKey(service, stored.key_id)
           d == resolveStoredAffinity(stored, cs, preference)
           anywhere == choosePreferredOrRandom(cs, preference)
<1>1. anywhere \in Best(cs) /\ (preference \in Best(cs) => anywhere = preference)
  BY PreferenceOrBest
<1>2. CASE key = None
  <2>1. lostKey
    <3> SUFFICES ASSUME NEW p \in Pairs(cs), Target(p.service, p.key) = stored
                 PROVE  FALSE
      OBVIOUS
    <3>1. PICK i \in DOMAIN cs : \E j \in DOMAIN cs[i].keys :
                 stored = Target(cs[i], cs[i].keys[j])
      BY DEF Pairs
    <3>2. PICK j \in DOMAIN cs[i].keys : stored = Target(cs[i], cs[i].keys[j])
      BY <3>1
    <3>3. key = cs[i].keys[j]
      BY <3>2, FindServiceFinds, FindKeyFinds DEF Target
    <3>4. cs[i].keys[j] \in AffinityKeyCandidate
      BY EntryTypes
    <3> QED
      BY <1>2, <3>3, <3>4, AffinityAssumption
  <2>2. d.selection = anywhere
    BY <1>2 DEF resolveStoredAffinity, Decision
  <2> HIDE DEF d, anywhere, lostKey, within
  <2> QED
    BY <1>1, <2>1, <2>2 DEF d, lostKey, within
<1>3. CASE key # None
  <2>1. PICK i \in DOMAIN cs : \E j \in DOMAIN cs[i].keys :
               /\ stored = Target(cs[i], cs[i].keys[j])
               /\ service = cs[i]
               /\ FindKey(cs[i], stored.key_id) = cs[i].keys[j]
    BY <1>3, FoundKeyHasPlace
  <2>2. PICK j \in DOMAIN cs[i].keys :
               /\ stored = Target(cs[i], cs[i].keys[j])
               /\ service = cs[i]
               /\ key = cs[i].keys[j]
    BY <2>1
  <2>3. stored.service_id = cs[i].service_id
    BY <2>2 DEF Target
  <2>4. ~lostKey
    <3>1. [service |-> cs[i], key |-> cs[i].keys[j]] \in Pairs(cs)
      BY DEF Pairs
    <3> QED
      BY <2>2, <3>1
  <2>5. CASE ~IsTopService(service, cs)
    <3>1. within = {}
      <4> SUFFICES ASSUME NEW p \in within PROVE FALSE
        OBVIOUS
      <4>1. PICK k \in DOMAIN cs : \E l \in DOMAIN cs[k].keys :
                   p = Target(cs[k], cs[k].keys[l]) /\ IsTopService(cs[k], cs)
        BY BestIsTop
      <4>2. k = i
        BY <2>3, <4>1 DEF Target, IsCandidateList
      <4> QED
        BY <2>2, <2>5, <4>1, <4>2
    <3>2. d.selection = anywhere
      BY <2>5 DEF resolveStoredAffinity, Decision
    <3> HIDE DEF d, anywhere, lostKey, within
    <3> QED
      BY <1>1, <3>1, <3>2 DEF d, lostKey, within
  <2>6. CASE IsTopService(service, cs)
    <3>1. ~IsTopKey(key, service.keys)
      BY <2>2, <2>6, BestIsTop
    <3>2. d.selection = choosePreferredOrRandomWithinService(cs[i], preference)
      BY <1>3, <2>2, <2>6, <3>1 DEF resolveStoredAffinity, Decision
    <3>3. cs[i].keys # <<>>
      BY EntryTypes
    <3>4. /\ d.selection \in within
          /\ preference \in within => d.selection = preference
      BY <2>2, <2>3, <2>6, <3>2, <3>3, PreferenceWithinService
    <3>5. allowed = within
      BY <2>4, <3>4
    <3> HIDE DEF d, allowed
    <3>6. d.selection \in allowed /\ (preference \in allowed => d.selection = preference)
      BY <3>4, <3>5
    <3> QED
      BY <3>6 DEF d, allowed
  <2> QED
    BY <2>5, <2>6
<1> QED
  BY <1>2, <1>3

\* Without a candidate there is no selection.
LEMMA MovesNowhere ==
  ASSUME NEW cs, IsCandidateList(cs), Pairs(cs) = {},
         NEW stored \in AffinitySelection, NEW preference \in AffinitySelection \cup {None}
  PROVE  resolveStoredAffinity(stored, cs, preference) = Decision(None, "rebound")
<1>1. ASSUME FindKey(FindService(cs, stored.service_id), stored.key_id) # None PROVE FALSE
  <2>1. PICK i \in DOMAIN cs : \E j \in DOMAIN cs[i].keys : TRUE
    BY <1>1, FoundKeyHasPlace
  <2>2. PICK j \in DOMAIN cs[i].keys : TRUE
    BY <2>1
  <2>3. [service |-> cs[i], key |-> cs[i].keys[j]] \in Pairs(cs)
    BY DEF Pairs
  <2> QED
    BY <2>3
<1> QED
  BY <1>1, PreferenceOrBest DEF resolveStoredAffinity
-----------------------------------------------------------------------------
LEMMA InitTyped == Init => TypeOK /\ RoutedToBest
<1> SUFFICES ASSUME Init PROVE TypeOK /\ RoutedToBest
  OBVIOUS
<1>1. IsCandidateList(<<>>)
  BY DEF IsCandidateList
<1> QED
  BY <1>1, ChoicesAreBest DEF Init, TypeOK, RoutedToBest

\* What one resolve leaves.
LEMMA ResolveBinds ==
  ASSUME TypeOK, NEW cs \in Offers, NEW pref \in AffinitySelection \cup {None}, Resolve(cs, pref)
  PROVE  TypeOK' /\ RoutedToBest' /\ bound' \in Best(cs)
<1>1. IsCandidateList(cs) /\ Pairs(cs) # {}
  BY OffersAssumption
<1>2. bound' \in Best(cs) /\ status' \in {"hit", "created", "rebound"}
  <2>1. CASE bound = None
    BY <1>1, <2>1, PreferenceOrBest DEF Resolve, Decision
  <2>2. CASE bound # None
    <3>1. bound \in AffinitySelection
      BY <2>2 DEF TypeOK
    <3>2. CASE bound \in Best(cs)
      <4>1. bound' = bound /\ status' = "hit"
        BY <1>1, <2>2, <3>1, <3>2, KeepsBest DEF Resolve, Decision
      <4> QED
        BY <3>2, <4>1
    <3>3. CASE bound \notin Best(cs)
      <4>1. /\ bound' = resolveStoredAffinity(bound, cs, pref).selection
            /\ status' = resolveStoredAffinity(bound, cs, pref).status
        BY <2>2 DEF Resolve
      <4>2. status' = "rebound"
        BY <1>1, <3>1, <3>3, <4>1, KeepsBest
      <4>3. bound' \in Best(cs)
        <5> DEFINE within == {p \in Best(cs) : p.service_id = bound.service_id}
        <5>1. bound' \in Best(cs) \/ bound' \in within
          BY <1>1, <3>1, <3>3, <4>1, MovesToBest
        <5> QED
          BY <5>1
      <4> QED
        BY <4>2, <4>3
    <3> QED
      BY <3>2, <3>3
  <2> QED
    BY <2>1, <2>2
<1>3. candidates' = cs /\ preferred' = pref
  BY DEF Resolve
<1>4. TypeOK'
  BY <1>1, <1>2, <1>3, BestAreSelections DEF TypeOK
<1>5. RoutedToBest'
  BY <1>1, <1>2, <1>3, ChoicesAreBest DEF RoutedToBest
<1> QED
  BY <1>2, <1>4, <1>5

LEMMA NextTyped ==
  TypeOK /\ RoutedToBest /\ [Next]_vars => TypeOK' /\ RoutedToBest'
<1> SUFFICES ASSUME TypeOK, RoutedToBest, [Next]_vars
             PROVE  TypeOK' /\ RoutedToBest'
  OBVIOUS
<1>1. ASSUME NEW cs \in Offers, NEW pref \in AffinitySelection \cup {None}, Resolve(cs, pref)
      PROVE  TypeOK' /\ RoutedToBest'
  BY <1>1, ResolveBinds
<1>2. CASE Drop
  BY <1>2 DEF Drop, TypeOK, RoutedToBest
<1>3. CASE UNCHANGED vars
  BY <1>3 DEF vars, TypeOK, RoutedToBest
<1> QED
  BY <1>1, <1>2, <1>3 DEF Next

\* Every reachable state has its type, whatever the lists and the preferences
\* (selectAvailableServiceWithDetails, resolve).
THEOREM TypeCorrect == Spec => []TypeOK
<1>1. TypeOK /\ RoutedToBest /\ [Next]_vars => TypeOK' /\ RoutedToBest'
  BY NextTyped
<1> QED
  BY <1>1, InitTyped, PTL DEF Spec

\* Every request of every session goes to a target nothing outranks, and the
\* random choices are exactly those targets (chooseAffinityCandidate,
\* resolveStoredAffinity).
THEOREM AlwaysBest == Spec => []RoutedToBest
<1>1. TypeOK /\ RoutedToBest /\ [Next]_vars => TypeOK' /\ RoutedToBest'
  BY NextTyped
<1> QED
  BY <1>1, InitTyped, PTL DEF Spec

\* No session leaves a target that nothing outranks (resolveStoredAffinity).
THEOREM Stickiness == Spec => StaysWhileBest
<1> DEFINE Stays == bound # None /\ bound \in Best(candidates') => bound' \in {bound, None}
<1>1. TypeOK /\ [Next]_vars => [Stays]_vars
  <2> SUFFICES ASSUME TypeOK, Next PROVE Stays
    OBVIOUS
  <2>1. ASSUME NEW cs \in Offers, NEW pref \in AffinitySelection \cup {None}, Resolve(cs, pref),
               bound # None, bound \in Best(candidates')
        PROVE  bound' = bound
    <3>1. candidates' = cs /\ IsCandidateList(cs) /\ bound \in AffinitySelection
      BY <2>1, OffersAssumption DEF Resolve, TypeOK
    <3> QED
      BY <2>1, <3>1, KeepsBest DEF Resolve, Decision
  <2>2. CASE Drop
    BY <2>2 DEF Drop
  <2> QED
    BY <2>1, <2>2 DEF Next
<1> QED
  BY <1>1, TypeCorrect, PTL DEF Spec, StaysWhileBest

\* A session that is rebound while its own target is on the list and its service
\* among the best only changes key; one that lost its key, or whose service is
\* outranked or gone, goes to any of the best targets, which may belong to a tied
\* service.  Either way the request's own choice comes first where it is allowed
\* (choosePreferredOrRandom, choosePreferredOrRandomWithinService).
THEOREM ShortMoves == Spec => MovesLeast
<1> DEFINE within == {p \in Best(candidates') : p.service_id = bound.service_id}
           lostKey == ~\E p \in Pairs(candidates') : Target(p.service, p.key) = bound
           allowed == IF lostKey \/ within = {} THEN Best(candidates') ELSE within
           Moves == status' = "rebound" =>
                      /\ bound' \in allowed
                      /\ preferred' \in allowed => bound' = preferred'
<1>1. TypeOK /\ [Next]_vars => [Moves]_vars
  <2> SUFFICES ASSUME TypeOK, Next, status' = "rebound"
               PROVE  /\ bound' \in allowed
                      /\ preferred' \in allowed => bound' = preferred'
    OBVIOUS
  <2>1. PICK cs \in Offers, pref \in AffinitySelection \cup {None} : Resolve(cs, pref)
    BY DEF Next, Drop
  <2>2. /\ candidates' = cs
        /\ preferred' = pref
        /\ IsCandidateList(cs)
        /\ Pairs(cs) # {}
    BY <2>1, OffersAssumption DEF Resolve
  <2>3. bound # None /\ bound' = resolveStoredAffinity(bound, cs, pref).selection
    BY <2>1 DEF Resolve, Decision
  <2>4. bound \in AffinitySelection
    BY <2>3 DEF TypeOK
  <2>5. bound \notin Best(cs)
    BY <2>1, <2>2, <2>3, <2>4, KeepsBest DEF Resolve, Decision
  <2> QED
    BY <2>2, <2>3, <2>4, <2>5, MovesToBest
<1> QED
  BY <1>1, TypeCorrect, PTL DEF Spec, MovesLeast
=============================================================================
