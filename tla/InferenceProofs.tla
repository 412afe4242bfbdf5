-------------------------- MODULE InferenceProofs ---------------------------
(***************************************************************************)
(* The properties of Inference for any route, any number of requests and   *)
(* retries, any thresholds and times, and whatever fails.                  *)
(***************************************************************************)
EXTENDS Inference, ArraysProofs, FiniteSetTheorems

\* The lemmas on the choices, which say nothing of the variables they come with.
Choice == INSTANCE StickyRoutingProofs WITH
  Offers <- {}, bound <- None, candidates <- <<>>, preferred <- None, status <- "start"

\* They are about the operators of this module.
LEMMA SameChoices ==
  /\ None \notin Choice!AffinityKeyCandidate \cup Choice!AffinityServiceCandidate
                   \cup Choice!AffinitySelection
  /\ \A cs : IsCandidateList(cs) => Choice!IsCandidateList(cs)
  /\ \A s, k : Choice!Target(s, k) = Target(s, k)
  /\ \A s, cs : Choice!IsTopService(s, cs) = IsTopService(s, cs)
  /\ \A k, keys : Choice!IsTopKey(k, keys) = IsTopKey(k, keys)
  /\ \A cs : Choice!Pairs(cs) = Pairs(cs)
  /\ \A p, q : Choice!Outranks(p, q) = Outranks(p, q)
  /\ \A cs : Choice!Choices(cs) = Choices(cs)
<1>1. /\ Choice!AffinitySelection = AffinitySelection
      /\ Choice!AffinityKeyCandidate = AffinityKeyCandidate
      /\ Choice!AffinityServiceCandidate = AffinityServiceCandidate
  BY DEF Choice!AffinitySelection, AffinitySelection, Choice!AffinityKeyCandidate,
         AffinityKeyCandidate, Choice!AffinityServiceCandidate, AffinityServiceCandidate
<1>2. \A cs : IsCandidateList(cs) => Choice!IsCandidateList(cs)
  BY <1>1 DEF Choice!IsCandidateList, IsCandidateList
<1>3. /\ \A s, k : Choice!Target(s, k) = Target(s, k)
      /\ \A s, cs : Choice!IsTopService(s, cs) = IsTopService(s, cs)
      /\ \A k, keys : Choice!IsTopKey(k, keys) = IsTopKey(k, keys)
      /\ \A cs : Choice!Pairs(cs) = Pairs(cs)
      /\ \A p, q : Choice!Outranks(p, q) = Outranks(p, q)
  BY DEF Choice!Target, Target, Choice!IsTopService, IsTopService, Choice!IsTopKey, IsTopKey,
         Choice!Pairs, Pairs, Choice!Outranks, Outranks
<1>4. \A cs : Choice!Choices(cs) = Choices(cs)
  BY DEF Choice!Choices, Choices, Choice!TiedServices, TiedServices, Choice!TiedKeys, TiedKeys,
         Choice!IsTopService, IsTopService, Choice!IsTopKey, IsTopKey, Choice!Target, Target
<1> QED
  BY <1>1, <1>2, <1>3, <1>4, AffinityAssumption

\* What the entries of a list of candidates are made of.
LEMMA EntryTypes ==
  ASSUME NEW cs, IsCandidateList(cs), NEW i \in DOMAIN cs
  PROVE  /\ cs[i].service_id \in ServiceIds
         /\ cs[i].priority \in Int
         /\ cs[i].keys \in Seq(AffinityKeyCandidate)
         /\ \A j \in DOMAIN cs[i].keys : /\ cs[i].keys[j].key_id \in KeyIds
                                         /\ cs[i].keys[j].priority \in Int
         /\ \A j \in DOMAIN cs[i].keys : cs[i].keys # <<>>
BY SameChoices, Choice!EntryTypes DEF Choice!AffinityKeyCandidate, AffinityKeyCandidate

\* What may be chosen of a list: the keys on top of the services on top.
LEMMA ChoicesAreTop ==
  ASSUME NEW cs, IsCandidateList(cs), NEW target \in Choices(cs)
  PROVE  \E i \in DOMAIN cs : \E j \in DOMAIN cs[i].keys :
           /\ target = Target(cs[i], cs[i].keys[j])
           /\ IsTopService(cs[i], cs)
           /\ IsTopKey(cs[i].keys[j], cs[i].keys)
<1>1. Choice!IsCandidateList(cs) /\ target \in Choice!Choices(cs)
  BY SameChoices
<1>2. target \in Choice!Best(cs)
  BY <1>1, SameChoices, Choice!ChoicesAreBest
<1>3. \E i \in DOMAIN cs : \E j \in DOMAIN cs[i].keys :
        /\ target = Choice!Target(cs[i], cs[i].keys[j])
        /\ Choice!IsTopService(cs[i], cs)
        /\ Choice!IsTopKey(cs[i].keys[j], cs[i].keys)
  BY <1>1, <1>2, SameChoices, Choice!BestIsTop
<1> QED
  BY <1>3, SameChoices

\* No pair outranks one of those.
LEMMA TopIsNotOutranked ==
  ASSUME NEW cs, IsCandidateList(cs), NEW i \in DOMAIN cs, NEW j \in DOMAIN cs[i].keys,
         IsTopService(cs[i], cs), IsTopKey(cs[i].keys[j], cs[i].keys)
  PROVE  ~\E r \in Pairs(cs) : Outranks(r, [service |-> cs[i], key |-> cs[i].keys[j]])
<1>1. Choice!IsCandidateList(cs) /\ Choice!IsTopService(cs[i], cs)
      /\ Choice!IsTopKey(cs[i].keys[j], cs[i].keys)
  BY SameChoices
<1>2. ~\E r \in Choice!Pairs(cs) :
         Choice!Outranks(r, [service |-> cs[i], key |-> cs[i].keys[j]])
  BY <1>1, SameChoices, Choice!TopIsNotOutranked
<1> QED
  BY <1>2, SameChoices

(* What a list of candidates is made of.                                   *)

\* The keys of a service that are offered are keys that were found in, and all
\* of those.
LEMMA KeysOffered ==
  ASSUME NEW i \in DOMAIN Route, NEW in
  PROVE  /\ Up(Route[i], in).service_id = Route[i].service_id
         /\ Up(Route[i], in).priority = Route[i].priority
         /\ Up(Route[i], in) \in AffinityServiceCandidate
         /\ LET keys == Up(Route[i], in).keys
            IN \E at \in [DOMAIN keys -> DOMAIN Route[i].keys] :
                 /\ \A n \in DOMAIN keys : /\ keys[n] = Route[i].keys[at[n]]
                                           /\ Target(Route[i], keys[n]) \in in
                 /\ \A m, n \in DOMAIN keys : m < n => at[m] < at[n]
                 /\ \A j \in DOMAIN Route[i].keys :
                      Target(Route[i], Route[i].keys[j]) \in in => \E n \in DOMAIN keys : at[n] = j
<1> DEFINE all == Route[i].keys
           positions == {j \in DOMAIN all : Target(Route[i], all[j]) \in in}
           keys == Filter(all, positions)
<1>1. /\ Route[i] \in AffinityServiceCandidate
      /\ all \in Seq(AffinityKeyCandidate)
  BY InferenceAssumption, EntryTypes DEF IsCandidateList
<1>2. /\ Up(Route[i], in).service_id = Route[i].service_id
      /\ Up(Route[i], in).priority = Route[i].priority
      /\ Up(Route[i], in).keys = keys
  BY <1>1 DEF Up, AffinityServiceCandidate
<1>3. /\ keys \in Seq(AffinityKeyCandidate)
      /\ \E at \in [DOMAIN keys -> positions \cap DOMAIN all] :
           /\ \A n \in DOMAIN keys : keys[n] = all[at[n]]
           /\ \A m, n \in DOMAIN keys : m < n => at[m] < at[n]
           /\ \A j \in positions \cap DOMAIN all : \E n \in DOMAIN keys : at[n] = j
  <2>1. all \in Seq(AffinityKeyCandidate)
    BY <1>1
  <2> HIDE DEF positions, all
  <2>2. keys \in Seq(AffinityKeyCandidate)
    BY <2>1, FilterKeeps
  <2> QED
    BY <2>1, <2>2, FilterKeeps
<1>4. Up(Route[i], in) \in AffinityServiceCandidate
  BY <1>1, <1>3 DEF Up, AffinityServiceCandidate
<1>5. PICK at \in [DOMAIN keys -> positions \cap DOMAIN all] :
        /\ \A n \in DOMAIN keys : keys[n] = all[at[n]]
        /\ \A m, n \in DOMAIN keys : m < n => at[m] < at[n]
        /\ \A j \in positions \cap DOMAIN all : \E n \in DOMAIN keys : at[n] = j
  BY <1>3
<1> HIDE DEF keys
<1>6. /\ at \in [DOMAIN keys -> DOMAIN all]
      /\ \A n \in DOMAIN keys : Target(Route[i], keys[n]) \in in
      /\ \A j \in DOMAIN all :
           Target(Route[i], all[j]) \in in => \E n \in DOMAIN keys : at[n] = j
  BY <1>5
<1> QED
  BY <1>2, <1>4, <1>5, <1>6

\* The services that are offered are those found in that have a key left.
LEMMA ServicesOffered ==
  ASSUME NEW in
  PROVE  LET cs == Offered(in)
         IN /\ cs \in Seq(AffinityServiceCandidate)
            /\ \E at \in [DOMAIN cs -> DOMAIN Route] :
                 /\ \A n \in DOMAIN cs : /\ cs[n] = Up(Route[at[n]], in)
                                         /\ Route[at[n]].service_id \in in
                 /\ \A m, n \in DOMAIN cs : m < n => at[m] < at[n]
                 /\ \A i \in DOMAIN Route :
                      Route[i].service_id \in in /\ Up(Route[i], in).keys # <<>>
                        => \E n \in DOMAIN cs : at[n] = i
<1> DEFINE all == [i \in DOMAIN Route |-> Up(Route[i], in)]
           positions == {i \in DOMAIN Route : Route[i].service_id \in in /\ all[i].keys # <<>>}
           cs == Filter(all, positions)
<1>1. Offered(in) = cs
  BY DEF Offered
<1>2. all \in Seq(AffinityServiceCandidate) /\ DOMAIN all = DOMAIN Route
  <2>1. \A i \in DOMAIN Route : all[i] \in AffinityServiceCandidate
    BY KeysOffered
  <2>2. Len(Route) \in Nat /\ DOMAIN Route = 1 .. Len(Route)
    BY InferenceAssumption DEF IsCandidateList
  <2> QED
    BY <2>1, <2>2
<1>3. /\ cs \in Seq(AffinityServiceCandidate)
      /\ \E at \in [DOMAIN cs -> positions \cap DOMAIN all] :
           /\ \A n \in DOMAIN cs : cs[n] = all[at[n]]
           /\ \A m, n \in DOMAIN cs : m < n => at[m] < at[n]
           /\ \A i \in positions \cap DOMAIN all : \E n \in DOMAIN cs : at[n] = i
  <2> HIDE DEF positions, all
  <2> QED
    BY <1>2, FilterKeeps
<1>4. PICK at \in [DOMAIN cs -> positions \cap DOMAIN all] :
        /\ \A n \in DOMAIN cs : cs[n] = all[at[n]]
        /\ \A m, n \in DOMAIN cs : m < n => at[m] < at[n]
        /\ \A i \in positions \cap DOMAIN all : \E n \in DOMAIN cs : at[n] = i
  BY <1>3
<1> HIDE DEF cs
<1>5. /\ at \in [DOMAIN cs -> DOMAIN Route]
      /\ \A n \in DOMAIN cs : cs[n] = Up(Route[at[n]], in) /\ Route[at[n]].service_id \in in
      /\ \A i \in DOMAIN Route :
           Route[i].service_id \in in /\ Up(Route[i], in).keys # <<>>
             => \E n \in DOMAIN cs : at[n] = i
  BY <1>2, <1>4
<1> QED
  BY <1>1, <1>3, <1>4, <1>5

\* What is offered is a list of candidates.
LEMMA OfferedIsList ==
  ASSUME NEW in
  PROVE  IsCandidateList(Offered(in))
<1> DEFINE cs == Offered(in)
<1>1. cs \in Seq(AffinityServiceCandidate)
  BY ServicesOffered
<1>2. PICK at \in [DOMAIN cs -> DOMAIN Route] :
        /\ \A n \in DOMAIN cs : cs[n] = Up(Route[at[n]], in)
        /\ \A m, n \in DOMAIN cs : m < n => at[m] < at[n]
  BY ServicesOffered
<1>3. Len(cs) \in Nat /\ DOMAIN cs = 1 .. Len(cs)
  BY <1>1
<1> HIDE DEF cs
<1>4. \A i \in DOMAIN cs : at[i] \in DOMAIN Route /\ cs[i].service_id = Route[at[i]].service_id
  BY <1>2, KeysOffered
<1>5. ASSUME NEW i \in DOMAIN cs, NEW j \in DOMAIN cs, cs[i].service_id = cs[j].service_id
      PROVE  i = j
  <2>1. at[i] = at[j]
    BY <1>4, <1>5, InferenceAssumption DEF IsCandidateList
  <2>2. at[i] \in Nat
    BY <1>4, InferenceAssumption DEF IsCandidateList
  <2> QED
    BY <1>2, <1>3, <2>1, <2>2
<1>6. ASSUME NEW i \in DOMAIN cs, NEW j \in DOMAIN cs[i].keys, NEW k \in DOMAIN cs[i].keys,
             cs[i].keys[j].key_id = cs[i].keys[k].key_id
      PROVE  j = k
  <2> DEFINE r == at[i]
             keys == cs[i].keys
  <2>1. r \in DOMAIN Route /\ cs[i] = Up(Route[r], in)
    BY <1>2
  <2>2. Up(Route[r], in) \in AffinityServiceCandidate
    BY <2>1, KeysOffered
  <2>3. keys \in Seq(AffinityKeyCandidate)
    BY <2>1, <2>2 DEF AffinityServiceCandidate
  <2>4. PICK of \in [DOMAIN keys -> DOMAIN Route[r].keys] :
          /\ \A n \in DOMAIN keys : keys[n] = Route[r].keys[of[n]]
          /\ \A m, n \in DOMAIN keys : m < n => of[m] < of[n]
    BY <2>1, KeysOffered
  <2> HIDE DEF r
  <2>5. /\ of[j] \in DOMAIN Route[r].keys
        /\ of[k] \in DOMAIN Route[r].keys
        /\ Route[r].keys[of[j]].key_id = Route[r].keys[of[k]].key_id
    BY <1>6, <2>4
  <2>6. of[j] = of[k]
    BY <2>1, <2>5, InferenceAssumption DEF IsCandidateList
  <2>7. of[j] \in Nat
    BY <2>1, <2>5, InferenceAssumption, EntryTypes
  <2>8. j \in Nat /\ k \in Nat
    BY <2>3
  <2> QED
    BY <2>4, <2>6, <2>7, <2>8
<1> QED
  BY <1>1, <1>5, <1>6 DEF IsCandidateList, cs

\* Every pair that is offered is a pair of the route that was found in, service
\* and key, and every pair of the route that was found in is offered.
LEMMA PairsOffered ==
  ASSUME NEW in
  PROVE  LET cs == Offered(in)
             Same(i, j, k, l) == /\ cs[i].service_id = Route[k].service_id
                                 /\ cs[i].priority = Route[k].priority
                                 /\ cs[i].keys[j] = Route[k].keys[l]
         IN /\ \A i \in DOMAIN cs : \A j \in DOMAIN cs[i].keys :
                 \E k \in DOMAIN Route : \E l \in DOMAIN Route[k].keys :
                   /\ Same(i, j, k, l)
                   /\ Route[k].service_id \in in
                   /\ Target(Route[k], Route[k].keys[l]) \in in
            /\ \A k \in DOMAIN Route : \A l \in DOMAIN Route[k].keys :
                 /\ Route[k].service_id \in in
                 /\ Target(Route[k], Route[k].keys[l]) \in in
                 => \E i \in DOMAIN cs : \E j \in DOMAIN cs[i].keys : Same(i, j, k, l)
<1> DEFINE cs == Offered(in)
           Same(i, j, k, l) == /\ cs[i].service_id = Route[k].service_id
                               /\ cs[i].priority = Route[k].priority
                               /\ cs[i].keys[j] = Route[k].keys[l]
<1>1. PICK at \in [DOMAIN cs -> DOMAIN Route] :
        /\ \A n \in DOMAIN cs : cs[n] = Up(Route[at[n]], in) /\ Route[at[n]].service_id \in in
        /\ \A i \in DOMAIN Route :
             Route[i].service_id \in in /\ Up(Route[i], in).keys # <<>>
               => \E n \in DOMAIN cs : at[n] = i
  BY ServicesOffered
<1> HIDE DEF cs
<1>2. ASSUME NEW i \in DOMAIN cs, NEW j \in DOMAIN cs[i].keys
      PROVE  \E k \in DOMAIN Route : \E l \in DOMAIN Route[k].keys :
               /\ Same(i, j, k, l)
               /\ Route[k].service_id \in in
               /\ Target(Route[k], Route[k].keys[l]) \in in
  <2>1. PICK k \in DOMAIN Route : cs[i] = Up(Route[k], in) /\ Route[k].service_id \in in
    BY <1>1
  <2>2. PICK of \in [DOMAIN cs[i].keys -> DOMAIN Route[k].keys] :
          \A n \in DOMAIN cs[i].keys : /\ cs[i].keys[n] = Route[k].keys[of[n]]
                                       /\ Target(Route[k], cs[i].keys[n]) \in in
    BY <2>1, KeysOffered
  <2>3. cs[i].service_id = Route[k].service_id /\ cs[i].priority = Route[k].priority
    BY <2>1, KeysOffered
  <2> QED
    BY <2>1, <2>2, <2>3
<1>3. ASSUME NEW k \in DOMAIN Route, NEW l \in DOMAIN Route[k].keys,
             Route[k].service_id \in in, Target(Route[k], Route[k].keys[l]) \in in
      PROVE  \E i \in DOMAIN cs : \E j \in DOMAIN cs[i].keys : Same(i, j, k, l)
  <2> DEFINE keys == Up(Route[k], in).keys
  <2>1. PICK of \in [DOMAIN keys -> DOMAIN Route[k].keys] :
          /\ \A n \in DOMAIN keys : keys[n] = Route[k].keys[of[n]]
          /\ \A j \in DOMAIN Route[k].keys :
               Target(Route[k], Route[k].keys[j]) \in in => \E n \in DOMAIN keys : of[n] = j
    BY KeysOffered
  <2>2. PICK j \in DOMAIN keys : of[j] = l
    BY <1>3, <2>1
  <2>3. keys # <<>>
    BY <2>2
  <2>4. PICK i \in DOMAIN cs : at[i] = k
    BY <1>1, <1>3, <2>3
  <2>5. cs[i] = Up(Route[k], in)
    BY <1>1, <2>4
  <2>6. Same(i, j, k, l)
    BY <2>1, <2>2, <2>5, KeysOffered
  <2> QED
    BY <2>2, <2>5, <2>6
<1> QED
  BY <1>2, <1>3 DEF cs

\* The pairs of the route, by their positions.
LEMMA RoutePairs ==
  /\ \A p : p \in Pairs(Route) <=>
       \E k \in DOMAIN Route : \E l \in DOMAIN Route[k].keys :
         p = [service |-> Route[k], key |-> Route[k].keys[l]]
  /\ \A t : t \in Targets <=>
       \E k \in DOMAIN Route : \E l \in DOMAIN Route[k].keys : t = Target(Route[k], Route[k].keys[l])
  /\ \A t \in Targets : t.service_id \in RoutedServices
<1>1. \A p : p \in Pairs(Route) <=>
        \E k \in DOMAIN Route : \E l \in DOMAIN Route[k].keys :
          p = [service |-> Route[k], key |-> Route[k].keys[l]]
  BY DEF Pairs
<1>2. \A t : t \in Targets <=>
        \E k \in DOMAIN Route : \E l \in DOMAIN Route[k].keys : t = Target(Route[k], Route[k].keys[l])
  <2>1. \A t : t \in Targets <=> \E p \in Pairs(Route) : t = Target(p.service, p.key)
    BY DEF Targets
  <2>2. ASSUME NEW t \in Targets
        PROVE  \E k \in DOMAIN Route : \E l \in DOMAIN Route[k].keys :
                 t = Target(Route[k], Route[k].keys[l])
    <3>1. PICK p \in Pairs(Route) : t = Target(p.service, p.key)
      BY <2>1
    <3>2. PICK k \in DOMAIN Route : \E l \in DOMAIN Route[k].keys :
            p = [service |-> Route[k], key |-> Route[k].keys[l]]
      BY <1>1
    <3> QED
      BY <3>1, <3>2
  <2>3. ASSUME NEW k \in DOMAIN Route, NEW l \in DOMAIN Route[k].keys
        PROVE  Target(Route[k], Route[k].keys[l]) \in Targets
    <3> DEFINE p == [service |-> Route[k], key |-> Route[k].keys[l]]
    <3>1. p \in Pairs(Route) /\ Target(p.service, p.key) = Target(Route[k], Route[k].keys[l])
      BY <1>1
    <3> QED
      BY <2>1, <3>1
  <2> QED
    BY <2>2, <2>3
<1>3. \A t \in Targets : t.service_id \in RoutedServices
  BY <1>2 DEF Target, RoutedServices
<1> QED
  BY <1>1, <1>2, <1>3

\* A target is at one place of the route only.
LEMMA OnePlace ==
  ASSUME NEW k \in DOMAIN Route, NEW l \in DOMAIN Route[k].keys,
         NEW m \in DOMAIN Route, NEW n \in DOMAIN Route[m].keys,
         Target(Route[k], Route[k].keys[l]) = Target(Route[m], Route[m].keys[n])
  PROVE  k = m /\ l = n
BY InferenceAssumption DEF IsCandidateList, Target

\* What is chosen of the offered list was found in, and nothing that was found
\* in outranks it.
LEMMA ChosenOfOffered ==
  ASSUME NEW in, NEW target \in Choices(Offered(in))
  PROVE  /\ target \in Targets /\ target \in in /\ target.service_id \in in
         /\ \A p, q \in Pairs(Route) :
              /\ p.service.service_id \in in
              /\ Target(p.service, p.key) \in in
              /\ Target(q.service, q.key) = target
              => ~Outranks(p, q)
<1> DEFINE cs == Offered(in)
<1>1. IsCandidateList(cs)
  BY OfferedIsList
<1>2. PICK i \in DOMAIN cs : \E j \in DOMAIN cs[i].keys :
        /\ target = Target(cs[i], cs[i].keys[j])
        /\ IsTopService(cs[i], cs)
        /\ IsTopKey(cs[i].keys[j], cs[i].keys)
  BY <1>1, ChoicesAreTop
<1>3. PICK j \in DOMAIN cs[i].keys :
        /\ target = Target(cs[i], cs[i].keys[j])
        /\ IsTopService(cs[i], cs)
        /\ IsTopKey(cs[i].keys[j], cs[i].keys)
  BY <1>2
<1> DEFINE Place(k, l) ==
             /\ cs[i].service_id = Route[k].service_id
             /\ cs[i].priority = Route[k].priority
             /\ cs[i].keys[j] = Route[k].keys[l]
             /\ Route[k].service_id \in in
             /\ Target(Route[k], Route[k].keys[l]) \in in
<1>4. PICK k \in DOMAIN Route : \E l \in DOMAIN Route[k].keys : Place(k, l)
  BY PairsOffered
<1>5. PICK l \in DOMAIN Route[k].keys : Place(k, l)
  BY <1>4
<1>6. target = Target(Route[k], Route[k].keys[l])
  BY <1>3, <1>5 DEF Target
<1>7. target \in Targets /\ target \in in /\ target.service_id \in in
  BY <1>5, <1>6, RoutePairs DEF Target
<1>8. ASSUME NEW p \in Pairs(Route), NEW q \in Pairs(Route),
             p.service.service_id \in in, Target(p.service, p.key) \in in,
             Target(q.service, q.key) = target, Outranks(p, q)
      PROVE  FALSE
  <2>1. q.service = Route[k] /\ q.key = Route[k].keys[l]
    BY <1>6, <1>8, RoutePairs, OnePlace
  <2>2. PICK m \in DOMAIN Route : \E n \in DOMAIN Route[m].keys :
          p.service = Route[m] /\ p.key = Route[m].keys[n]
    BY RoutePairs
  <2>3. PICK n \in DOMAIN Route[m].keys : p.service = Route[m] /\ p.key = Route[m].keys[n]
    BY <2>2
  <2> DEFINE Same(x, y) == /\ cs[x].service_id = Route[m].service_id
                           /\ cs[x].priority = Route[m].priority
                           /\ cs[x].keys[y] = Route[m].keys[n]
  <2>4. PICK x \in DOMAIN cs : \E y \in DOMAIN cs[x].keys : Same(x, y)
    BY <1>8, <2>3, PairsOffered
  <2>5. PICK y \in DOMAIN cs[x].keys : Same(x, y)
    BY <2>4
  <2>6. Outranks([service |-> cs[x], key |-> cs[x].keys[y]],
                 [service |-> cs[i], key |-> cs[i].keys[j]])
    BY <1>5, <1>8, <2>1, <2>3, <2>5 DEF Outranks
  <2>7. [service |-> cs[x], key |-> cs[x].keys[y]] \in Pairs(cs)
    BY DEF Pairs
  <2> HIDE DEF cs
  <2> QED
    BY <1>1, <1>3, <2>6, <2>7, TopIsNotOutranked
<1> QED
  BY <1>7, <1>8

\* Nothing is offered only when no key of a service that is in was found in.
LEMMA NothingOffered ==
  ASSUME NEW in, Offered(in) = <<>>, NEW p \in Pairs(Route),
         p.service.service_id \in in, Target(p.service, p.key) \in in
  PROVE  FALSE
<1>1. PICK m \in DOMAIN Route : \E n \in DOMAIN Route[m].keys :
        p.service = Route[m] /\ p.key = Route[m].keys[n]
  BY RoutePairs
<1>2. DOMAIN Offered(in) # {}
  BY <1>1, PairsOffered
<1> QED
  BY <1>2
-----------------------------------------------------------------------------
(* The invariant. *)

OnTheWay(answers) == {answer.object : answer \in answers}

\* Where a request is says what it has still to read, and whether it has a target.
ProgressOf(q) ==
  /\ q.pc = "idle" => q = Idle
  /\ q.pc = "keys" => q.left \cup OnTheWay(q.answers) \subseteq Targets
  /\ q.pc \notin {"services", "keys"} => q.left = {} /\ q.answers = {}
  /\ q.pc = "fetching" => q.target \in Targets /\ q.attempt >= 1
  /\ q.pc = "done" /\ q.last \in {"service", "error"} => q.target \in Targets

Progress == \A r \in Requests : ProgressOf(req[r])

\* The answer of an object that was in says so.  That of an object that was out
\* says when its cooldown ends, and it still ends then, unless the object has been
\* in since or its cooldown was moved.
AnswerOf(r, answer) ==
  LET o == answer.object
  IN IF answer.cooling_until = Null
     THEN o \in seen[r].in
     ELSE /\ o \in seen[r].out
          /\ \/ o \in seen[r].in \cup seen[r].prolonged
             \/ Health!Load(o).cooling_until = answer.cooling_until

\* What a request found in was in since it came, could not be read or had its
\* cooldown moved behind its back; what it has read and not found in was out.
KnownOf(r) ==
  LET open == req[r].left \cup OnTheWay(req[r].answers)
  IN req[r].pc \in Selecting =>
       /\ req[r].in \subseteq seen[r].in \cup req[r].unread \cup seen[r].prolonged
       /\ In \subseteq seen[r].in
       /\ Objects \ In \subseteq seen[r].out
       /\ \A answer \in req[r].answers : AnswerOf(r, answer)
       /\ \A s \in RoutedServices :
            s \in req[r].in \cup seen[r].out \/ (req[r].pc = "services" /\ s \in open)
       /\ req[r].pc # "services" => KeysOf(req[r].in) \subseteq req[r].in \cup seen[r].out \cup open

Known == \A r \in Requests : KnownOf(r)

\* The update of a failure is of a request that has failed for good, and its only one.
Reports ==
  /\ \A u \in updates :
       /\ u.object \in IF u.kind = "key_failure" THEN Targets ELSE RoutedServices
       /\ u.kind = "failure" =>
            /\ req[u.request].pc = "done"
            /\ req[u.request].last \in {"service", "error"}
            /\ req[u.request].target.service_id = u.object
  /\ \A u, v \in updates :
       u.kind = "failure" /\ v.kind = "failure" /\ u.request = v.request => u = v

\* The requests whose failure has reached service s, or was lost on its way.
Blamers(s) ==
  {r \in Requests : \E u \in updates : /\ u.kind = "failure"
                                       /\ u.object = s
                                       /\ u.request = r
                                       /\ u.done}

\* A service has counted no more failures than requests have reported to it.
Counts ==
  \A s \in RoutedServices :
    /\ Health!Load(s).failures <= Cardinality(Blamers(s))
    /\ Health!Load(s).cooling_until # Null => Health!Load(s).failures >= FAILURE_THRESHOLD

InferenceInv == TypeOK /\ Progress /\ Known /\ Reports /\ Counts
-----------------------------------------------------------------------------
(* The health objects. *)

\* A record that has counted at most n failures, and cools only after the threshold.
Sound(h, n) ==
  /\ h.failures <= n
  /\ h.cooling_until # Null => h.failures >= FAILURE_THRESHOLD

\* Every operation on a record returns a record.
LEMMA RecordTypes ==
  ASSUME NEW h \in Health!HealthState, NEW t \in Nat
  PROVE  /\ Health!Fresh \in Health!HealthState
         /\ Health!Snapshot(h, t) \in Health!HealthState
         /\ Health!Cleared(h, t) = Health!Fresh
         /\ Health!AfterFailure(h, t) \in Health!HealthState
         /\ Health!AfterImmediateFailure(h, t) \in Health!HealthState
<1> USE InferenceAssumption
    DEF Health!HealthState, Health!Time, Health!ResetFailures, Health!WithFailures
<1>1. ASSUME NEW g \in Health!HealthState
      PROVE  Health!Snapshot(g, t) \in Health!HealthState
  BY DEF Health!Snapshot, Health!EndCooldown, Health!EndWindow, Health!Fresh
<1>2. ASSUME NEW g \in Health!HealthState
      PROVE  /\ Health!Counted(g, t) \in Health!HealthState
             /\ Health!Cooled(g, t) \in Health!HealthState
  BY DEF Health!Counted, Health!Cooled
<1>3. Health!Fresh \in Health!HealthState
  BY DEF Health!Fresh
<1>4. Health!Cleared(h, t) = Health!Fresh
  BY DEF Health!Cleared, Health!Fresh, Health!Snapshot, Health!EndCooldown, Health!EndWindow
<1>5. Health!AfterFailure(h, t) \in Health!HealthState
  BY <1>1, <1>2 DEF Health!AfterFailure
<1>6. Health!AfterImmediateFailure(h, t) \in Health!HealthState
  BY <1>1, <1>2 DEF Health!AfterImmediateFailure
<1> QED
  BY <1>1, <1>3, <1>4, <1>5, <1>6

\* A read and a reset never make a record count more, a failure makes it count
\* one more at most.
LEMMA RecordCounts ==
  ASSUME NEW h \in Health!HealthState, NEW t \in Nat, NEW n \in Nat, Sound(h, n)
  PROVE  /\ Sound(Health!Fresh, n)
         /\ Sound(Health!Snapshot(h, t), n)
         /\ Sound(Health!AfterFailure(h, t), n + 1)
<1> USE InferenceAssumption DEF Health!HealthState, Health!Time
<1>1. ASSUME NEW g \in Health!HealthState, NEW m \in Nat, Sound(g, m)
      PROVE  Sound(Health!Snapshot(g, t), m)
  BY <1>1 DEF Sound, Health!Snapshot, Health!EndCooldown, Health!EndWindow, Health!Fresh,
              Health!ResetFailures, Health!WithFailures
<1>2. Sound(Health!Fresh, n)
  BY DEF Sound, Health!Fresh
<1> DEFINE s == Health!Snapshot(h, t)
           c == Health!Counted(s, t)
           r == IF s.cooling_until # Null THEN s
                ELSE IF c.failures >= FAILURE_THRESHOLD THEN Health!Cooled(c, t)
                ELSE c
<1>3. s \in Health!HealthState /\ Sound(s, n)
  BY <1>1, RecordTypes
<1>4. Health!AfterFailure(h, t) = Health!Snapshot(r, t)
  BY DEF Health!AfterFailure
<1> HIDE DEF s
<1>5. c \in Health!HealthState /\ c.failures <= n + 1 /\ c.cooling_until = s.cooling_until
  BY <1>3 DEF Sound, Health!Counted, Health!WithFailures
<1> HIDE DEF c
<1>6. r \in Health!HealthState /\ Sound(r, n + 1)
  <2>1. CASE s.cooling_until # Null
    BY <1>3, <2>1 DEF Sound
  <2>2. CASE s.cooling_until = Null /\ c.failures >= FAILURE_THRESHOLD
    BY <1>5, <2>2 DEF Sound, Health!Cooled
  <2>3. CASE s.cooling_until = Null /\ ~(c.failures >= FAILURE_THRESHOLD)
    BY <1>5, <2>3 DEF Sound
  <2> QED
    BY <2>1, <2>2, <2>3
<1> HIDE DEF r
<1>7. Sound(Health!AfterFailure(h, t), n + 1)
  BY <1>1, <1>4, <1>6
<1> QED
  BY <1>1, <1>2, <1>7

\* The objects of services and of keys are distinct, and known by their service.
LEMMA ObjectNames ==
  /\ RoutedServices \cap Targets = {}
  /\ Health!Objects = Objects
  /\ \A t \in Targets : t.service_id \in RoutedServices
<1>1. \A i \in DOMAIN Route : Route[i].service_id \in ServiceIds
  BY InferenceAssumption, EntryTypes
<1>2. RoutedServices \subseteq ServiceIds
  BY <1>1 DEF RoutedServices
<1> QED
  BY <1>2, InferenceAssumption, RoutePairs DEF Health!Objects, Objects

\* What a health object holds is a record, and what is written is what is read.
LEMMA Persisted ==
  ASSUME Health!TypeOK, NEW o \in Objects
  PROVE  /\ \A p \in Objects : Health!Load(p) \in Health!HealthState
         /\ \A h \in Health!HealthState :
              Health!Persist(o, h) =>
                /\ stored' \in [Objects -> Health!HealthState \cup {Absent}]
                /\ Health!Load(o)' = h
                /\ \A p \in Objects \ {o} : Health!Load(p)' = Health!Load(p)
<1>1. stored \in [Objects -> Health!HealthState \cup {Absent}]
  BY ObjectNames DEF Health!TypeOK
<1>2. Health!Fresh \in Health!HealthState /\ now \in Nat
  BY InferenceAssumption
     DEF Health!Fresh, Health!HealthState, Health!Time, Health!TypeOK
<1> QED
  BY <1>1, <1>2, AbsentAssumption DEF Health!Persist, Health!Load

\* So it is after a step that keeps the type.
LEMMA LoadTyped ==
  ASSUME Health!TypeOK'
  PROVE  \A p \in Objects : Health!Load(p)' \in Health!HealthState
<1>1. stored' \in [Objects -> Health!HealthState \cup {Absent}]
  BY ObjectNames DEF Health!TypeOK
<1>2. Health!Fresh \in Health!HealthState
  BY InferenceAssumption DEF Health!Fresh, Health!HealthState, Health!Time
<1> QED
  BY <1>1, <1>2 DEF Health!Load

\* An object is in when the end of its cooldown has come, and its snapshot shows
\* no end that has.
LEMMA WhoIsIn ==
  ASSUME Health!TypeOK, NEW o \in Objects
  PROVE  LET until == Health!Load(o).cooling_until
             shown == Health!Snapshot(Health!Load(o), now).cooling_until
         IN /\ until \in Nat \cup {Null} /\ now \in Nat
            /\ o \in In <=> (until = Null \/ until <= now)
            /\ o \in In <=> shown = Null
            /\ o \notin In => shown = until
            /\ shown \in Nat \cup {Null}
<1> DEFINE h == Health!Load(o)
           shown == Health!Snapshot(h, now).cooling_until
<1>1. h \in Health!HealthState /\ now \in Nat
  BY Persisted DEF Health!TypeOK, Health!Time
<1> HIDE DEF h
<1>2. h.cooling_until \in Nat \cup {Null}
  BY <1>1 DEF Health!HealthState, Health!Time
<1>3. shown = IF h.cooling_until # Null /\ now >= h.cooling_until THEN Null ELSE h.cooling_until
  BY <1>1, <1>2 DEF Health!Snapshot, Health!EndCooldown, Health!EndWindow, Health!Fresh,
                    Health!ResetFailures, Health!WithFailures
<1>4. o \in In <=> (shown = Null \/ shown <= now)
  BY DEF In, Health!Available, Health!IsAvailable, h
<1> HIDE DEF shown
<1>5. /\ shown = Null <=> (h.cooling_until = Null \/ h.cooling_until <= now)
      /\ shown # Null => shown = h.cooling_until /\ ~(shown <= now)
  BY <1>1, <1>2, <1>3
<1> QED
  BY <1>1, <1>2, <1>4, <1>5 DEF h, shown

\* No service has counted more after a step than before it.
NoneCounted ==
  \A s \in RoutedServices : \A n \in Nat : Sound(Health!Load(s), n) => Sound(Health!Load(s)', n)

\* The steps of the health objects that count nothing against a service.
LEMMA QuietHealth ==
  ASSUME Health!TypeOK,
         \/ \E o \in Objects : Health!GetStatus(o) \/ Health!Clear(o)
         \/ \E s \in RoutedServices : Health!RecordSuccess(s)
         \/ \E k \in Targets : Health!RecordImmediateFailure(k)
         \/ Health!Tick
         \/ UNCHANGED health
  PROVE  Health!TypeOK' /\ NoneCounted
<1>1. /\ now \in Nat
      /\ stored \in [Objects -> Health!HealthState \cup {Absent}]
      /\ failedAt \in [RoutedServices -> Seq(Nat)]
      /\ cooledAt \in [Targets -> Nat \cup {Null}]
  BY ObjectNames DEF Health!TypeOK, Health!Time
<1>2. \A p \in Objects : Health!Load(p) \in Health!HealthState
  BY Persisted
<1>3. ASSUME NEW o \in Objects, NEW h \in Health!HealthState, Health!Persist(o, h),
             \A n \in Nat : Sound(Health!Load(o), n) => Sound(h, n)
      PROVE  /\ stored' \in [Objects -> Health!HealthState \cup {Absent}]
             /\ NoneCounted
  <2>1. /\ stored' \in [Objects -> Health!HealthState \cup {Absent}]
        /\ Health!Load(o)' = h
        /\ \A p \in Objects \ {o} : Health!Load(p)' = Health!Load(p)
    BY <1>3, Persisted
  <2> QED
    BY <1>3, <2>1 DEF NoneCounted, Objects
<1>4. ASSUME NEW o \in Objects, Health!GetStatus(o)
      PROVE  Health!TypeOK' /\ NoneCounted
  <2> DEFINE h == Health!Snapshot(Health!Load(o), now)
  <2>1. h \in Health!HealthState /\ \A n \in Nat : Sound(Health!Load(o), n) => Sound(h, n)
    BY <1>1, <1>2, RecordTypes, RecordCounts
  <2>2. Health!Persist(o, h)
    BY <1>4 DEF Health!GetStatus
  <2> HIDE DEF h
  <2>3. stored' \in [Objects -> Health!HealthState \cup {Absent}] /\ NoneCounted
    BY <1>3, <2>1, <2>2
  <2>4. failedAt' \in [RoutedServices -> Seq(Nat)]
    BY <1>1, <1>4 DEF Health!GetStatus, Health!Slate
  <2> QED
    BY <1>1, <1>4, <2>3, <2>4, ObjectNames DEF Health!TypeOK, Health!Time, Health!GetStatus
<1>5. ASSUME NEW o \in Objects, Health!Clear(o)
      PROVE  Health!TypeOK' /\ NoneCounted
  <2>1. /\ Health!Cleared(Health!Load(o), now) = Health!Fresh
        /\ Health!Fresh \in Health!HealthState
        /\ \A n \in Nat : Sound(Health!Load(o), n) => Sound(Health!Fresh, n)
    BY <1>1, <1>2, RecordTypes, RecordCounts
  <2>2. Health!Persist(o, Health!Fresh)
    BY <1>5, <2>1 DEF Health!Clear
  <2>3. stored' \in [Objects -> Health!HealthState \cup {Absent}] /\ NoneCounted
    BY <1>3, <2>1, <2>2
  <2>4. /\ failedAt' \in [RoutedServices -> Seq(Nat)]
        /\ cooledAt' \in [Targets -> Nat \cup {Null}]
    BY <1>1, <1>5 DEF Health!Clear
  <2> QED
    BY <1>1, <1>5, <2>3, <2>4, ObjectNames DEF Health!TypeOK, Health!Time, Health!Clear
<1>6. ASSUME NEW s \in RoutedServices, Health!RecordSuccess(s)
      PROVE  Health!TypeOK' /\ NoneCounted
  <2>1. s \in Objects
    BY DEF Objects
  <2>2. /\ Health!Cleared(Health!Load(s), now) = Health!Fresh
        /\ Health!Fresh \in Health!HealthState
        /\ \A n \in Nat : Sound(Health!Load(s), n) => Sound(Health!Fresh, n)
    BY <1>1, <1>2, <2>1, RecordTypes, RecordCounts
  <2>3. Health!Persist(s, Health!Fresh)
    BY <1>6, <2>2 DEF Health!RecordSuccess
  <2>4. stored' \in [Objects -> Health!HealthState \cup {Absent}] /\ NoneCounted
    BY <1>3, <2>1, <2>2, <2>3
  <2>5. failedAt' \in [RoutedServices -> Seq(Nat)]
    BY <1>1, <1>6 DEF Health!RecordSuccess
  <2> QED
    BY <1>1, <1>6, <2>4, <2>5, ObjectNames DEF Health!TypeOK, Health!Time, Health!RecordSuccess
<1>7. ASSUME NEW k \in Targets, Health!RecordImmediateFailure(k)
      PROVE  Health!TypeOK' /\ NoneCounted
  <2> DEFINE h == Health!AfterImmediateFailure(Health!Load(k), now)
  <2>1. k \in Objects /\ k \notin RoutedServices
    BY ObjectNames DEF Objects
  <2>2. h \in Health!HealthState /\ Health!Persist(k, h)
    BY <1>1, <1>2, <1>7, <2>1, RecordTypes DEF Health!RecordImmediateFailure
  <2> HIDE DEF h
  <2>3. /\ stored' \in [Objects -> Health!HealthState \cup {Absent}]
        /\ \A p \in Objects \ {k} : Health!Load(p)' = Health!Load(p)
    BY <2>1, <2>2, Persisted
  <2>4. cooledAt' \in [Targets -> Nat \cup {Null}]
    BY <1>1, <1>7 DEF Health!RecordImmediateFailure
  <2>5. NoneCounted
    BY <2>1, <2>3 DEF NoneCounted, Objects
  <2> QED
    BY <1>1, <1>7, <2>3, <2>4, <2>5, ObjectNames
       DEF Health!TypeOK, Health!Time, Health!RecordImmediateFailure
<1>8. CASE Health!Tick
  <2>1. now' \in Nat
    BY <1>1, <1>8 DEF Health!Tick
  <2> QED
    BY <1>1, <1>8, <2>1, ObjectNames
       DEF Health!Tick, Health!TypeOK, Health!Time, Health!Load, NoneCounted
<1>9. CASE UNCHANGED health
  BY <1>1, <1>9, ObjectNames DEF health, Health!TypeOK, Health!Time, Health!Load, NoneCounted
<1> QED
  BY <1>4, <1>5, <1>6, <1>7, <1>8, <1>9

\* A failure of a service counts once, against that service.
LEMMA CountedFailure ==
  ASSUME Health!TypeOK, NEW s \in RoutedServices, Health!RecordFailure(s)
  PROVE  /\ Health!TypeOK'
         /\ \A n \in Nat : Sound(Health!Load(s), n) => Sound(Health!Load(s)', n + 1)
         /\ \A o \in RoutedServices \ {s} : Health!Load(o)' = Health!Load(o)
<1>1. /\ now \in Nat
      /\ failedAt \in [RoutedServices -> Seq(Nat)]
      /\ cooledAt \in [Targets -> Nat \cup {Null}]
  BY ObjectNames DEF Health!TypeOK, Health!Time
<1> DEFINE h == Health!AfterFailure(Health!Load(s), now)
<1>2. s \in Objects /\ Health!Load(s) \in Health!HealthState
  BY Persisted DEF Objects
<1>3. h \in Health!HealthState /\ \A n \in Nat : Sound(Health!Load(s), n) => Sound(h, n + 1)
  BY <1>1, <1>2, RecordTypes, RecordCounts
<1>4. Health!Persist(s, h)
  BY DEF Health!RecordFailure
<1> HIDE DEF h
<1>5. /\ stored' \in [Objects -> Health!HealthState \cup {Absent}]
      /\ Health!Load(s)' = h
      /\ \A p \in Objects \ {s} : Health!Load(p)' = Health!Load(p)
  BY <1>2, <1>3, <1>4, Persisted
<1>6. failedAt' \in [RoutedServices -> Seq(Nat)]
  BY <1>1 DEF Health!RecordFailure, Health!Slate
<1> QED
  BY <1>1, <1>3, <1>5, <1>6, ObjectNames
     DEF Health!TypeOK, Health!Time, Health!RecordFailure, Objects
-----------------------------------------------------------------------------
(* The requests. *)

LEMMA IdleTyped == Idle \in Request
BY InferenceAssumption DEF Idle, Request

\* The only key objects of the services found in are targets; a key found in adds none.
LEMMA KeysOfServices ==
  ASSUME NEW in, NEW o
  PROVE  /\ KeysOf(in) \subseteq Targets
         /\ o \in Targets => KeysOf(in \cup {o}) = KeysOf(in)
BY ObjectNames DEF KeysOf

\* A step that changes one request at most, and neither finishes it with a
\* failure nor touches a request that has.
LEMMA OneRequest ==
  ASSUME req \in [Requests -> Request], Progress, Reports,
         NEW r \in Requests, NEW q \in Request, req' = [req EXCEPT ![r] = q], ProgressOf(q),
         req[r].pc # "done", updates' = updates
  PROVE  req' \in [Requests -> Request] /\ Progress' /\ Reports'
<1>1. req'[r] = q /\ \A p \in Requests \ {r} : req'[p] = req[p]
  OBVIOUS
<1>2. Progress'
  BY <1>1 DEF Progress
<1>3. Reports'
  BY <1>1 DEF Reports
<1> QED
  BY <1>2, <1>3

\* An answer on the way stays what it was, whatever happens to the objects: who
\* looks on sees every one that comes in, or has its cooldown moved.
LEMMA AnswersStay ==
  ASSUME TypeOK, Watch, NEW r \in Requests, KnownOf(r), req[r].pc \in Selecting,
         req'[r].pc \in Selecting, NEW answer \in req[r].answers
  PROVE  AnswerOf(r, answer)'
<1> DEFINE o == answer.object
<1>1. /\ seen'[r].in = seen[r].in \cup In'
      /\ seen'[r].out = seen[r].out \cup (Objects \ In')
      /\ seen'[r].prolonged = seen[r].prolonged \cup Prolonged(r)
  BY DEF Watch
<1>2. o \in Objects /\ AnswerOf(r, answer) /\ In \subseteq seen[r].in
  BY DEF TypeOK, Request, HealthAnswer, KnownOf
<1>3. CASE answer.cooling_until = Null
  BY <1>1, <1>2, <1>3 DEF AnswerOf
<1>4. CASE answer.cooling_until # Null
  <2>1. /\ o \in seen[r].out
        /\ \/ o \in seen[r].in \cup seen[r].prolonged
           \/ Health!Load(o).cooling_until = answer.cooling_until
    BY <1>2, <1>4 DEF AnswerOf
  <2>2. \/ o \in seen'[r].in \cup seen'[r].prolonged
        \/ Health!Load(o)'.cooling_until = answer.cooling_until
    <3>1. CASE o \in seen[r].in \cup seen[r].prolonged
      BY <1>1, <3>1
    <3>2. CASE o \in In \cup In'
      BY <1>1, <1>2, <3>2
    <3>3. CASE /\ o \notin In \cup In'
               /\ Health!Load(o).cooling_until = answer.cooling_until
               /\ Health!Load(o)'.cooling_until # answer.cooling_until
      <4>1. ~Health!Available(o) /\ ~Health!Available(o)'
        BY <1>2, <3>3 DEF In
      <4>2. o \in Prolonged(r)
        BY <3>3, <4>1 DEF Prolonged
      <4> QED
        BY <1>1, <4>2
    <3> QED
      BY <2>1, <3>1, <3>2, <3>3
  <2> QED
    BY <1>1, <1>4, <2>1, <2>2 DEF AnswerOf
<1> QED
  BY <1>3, <1>4

\* A request whose state stays knows what it knew.
LEMMA KnownStays ==
  ASSUME TypeOK, NEW r \in Requests, KnownOf(r), Watch, req'[r] = req[r]
  PROVE  KnownOf(r)'
<1> SUFFICES ASSUME req[r].pc \in Selecting PROVE KnownOf(r)'
  BY DEF KnownOf
<1>1. /\ seen'[r].in = seen[r].in \cup In'
      /\ seen'[r].out = seen[r].out \cup (Objects \ In')
      /\ seen'[r].prolonged = seen[r].prolonged \cup Prolonged(r)
  BY DEF Watch
<1>2. KeysOf(req'[r].in) = KeysOf(req[r].in)
  OBVIOUS
<1>3. \A answer \in req'[r].answers : AnswerOf(r, answer)'
  BY AnswersStay
<1> QED
  BY <1>1, <1>2, <1>3 DEF KnownOf

\* A request that has chosen, or has not come, need not know.
LEMMA KnownElsewhere ==
  ASSUME NEW r \in Requests, req'[r].pc \notin Selecting
  PROVE  KnownOf(r)'
BY DEF KnownOf

LEMMA ArriveKeeps ==
  ASSUME TypeOK, Progress, Known, Reports, NEW r \in Requests, Arrive(r), Watch
  PROVE  req' \in [Requests -> Request] /\ Progress' /\ Reports' /\ Known'
<1> DEFINE q == [Idle EXCEPT !.pc = "services", !.left = RoutedServices]
<1>1. req \in [Requests -> Request] /\ req[r] = Idle
  BY DEF TypeOK, Arrive, Progress, ProgressOf
<1>2. req' = [req EXCEPT ![r] = q]
  BY <1>1 DEF Arrive
<1>3. q \in Request /\ ProgressOf(q)
  BY IdleTyped DEF Idle, Request, ProgressOf, Selecting, Objects, OnTheWay
<1>4. req' \in [Requests -> Request] /\ Progress' /\ Reports'
  BY <1>1, <1>2, <1>3, OneRequest DEF Arrive
<1>5. KnownOf(r)'
  <2>1. /\ req'[r].in = {} /\ req'[r].pc = "services" /\ req'[r].left = RoutedServices
        /\ req'[r].answers = {} /\ req'[r].pc \in Selecting
    BY <1>1, <1>2 DEF Idle, Selecting
  <2>2. /\ seen'[r].in = seen[r].in \cup In'
        /\ seen'[r].out = seen[r].out \cup (Objects \ In')
    BY <2>1 DEF Watch
  <2> QED
    BY <2>1, <2>2 DEF KnownOf, OnTheWay
<1>6. \A p \in Requests \ {r} : KnownOf(p)'
  BY <1>1, <1>2, KnownStays DEF Known
<1> QED
  BY <1>4, <1>5, <1>6 DEF Known

\* What the steps of a call to object o have in common: what they add to the
\* request is known, and they lose sight of o only with a verdict on it.
Accounted(r, o, left, answers, in, unread) ==
  /\ req[r].in \subseteq in /\ in \subseteq req[r].in \cup {o} /\ req[r].unread \subseteq unread
  /\ in \subseteq seen'[r].in \cup unread \cup seen'[r].prolonged
  /\ \A answer \in answers : AnswerOf(r, answer)'
  /\ OnTheWay(answers) \subseteq OnTheWay(req[r].answers) \cup {o}
  /\ req[r].left \cup OnTheWay(req[r].answers) \subseteq left \cup OnTheWay(answers) \cup {o}
  /\ o \in in \cup seen'[r].out \cup OnTheWay(answers)

LEMMA ProceedKeeps ==
  ASSUME TypeOK, Progress, Known, Reports, Watch, updates' = updates,
         NEW r \in Requests, req[r].pc \in {"services", "keys"},
         NEW o \in Objects, o \in req[r].left \cup OnTheWay(req[r].answers),
         NEW left \in SUBSET Objects, left \subseteq req[r].left,
         NEW answers \in SUBSET HealthAnswer,
         NEW in \in SUBSET Objects, NEW unread \in SUBSET Objects,
         Proceed(r, left, answers, in, unread), Accounted(r, o, left, answers, in, unread)
  PROVE  req' \in [Requests -> Request] /\ Progress' /\ Reports' /\ Known'
<1> DEFINE q == req'[r]
           open == left \cup OnTheWay(answers)
<1>1. req \in [Requests -> Request] /\ req[r] \in Request
  BY DEF TypeOK
<1>2. /\ req' \in [Requests -> Request]
      /\ \A p \in Requests \ {r} : req'[p] = req[p]
      /\ q.answers = answers /\ q.in = in /\ q.unread = unread
      /\ \/ q.pc = req[r].pc /\ q.left = left
         \/ /\ left = {} /\ answers = {} /\ req[r].pc = "services"
            /\ q.pc = "keys" /\ q.left = KeysOf(in)
         \/ /\ left = {} /\ answers = {} /\ (req[r].pc = "keys" \/ KeysOf(in) = {})
            /\ q.pc = "choosing" /\ q.left = {}
  <2> DEFINE found(pc, reads) == [req[r] EXCEPT !.pc = pc, !.left = reads, !.answers = answers,
                                                !.in = in, !.unread = unread]
  <2>1. KeysOf(in) \subseteq Objects
    BY KeysOfServices DEF Objects
  <2>2. ASSUME NEW pc \in Selecting, NEW reads \in SUBSET Objects,
               req' = [req EXCEPT ![r] = found(pc, reads)]
        PROVE  /\ req' \in [Requests -> Request]
               /\ \A p \in Requests \ {r} : req'[p] = req[p]
               /\ req'[r].pc = pc /\ req'[r].left = reads /\ req'[r].answers = answers
               /\ req'[r].in = in /\ req'[r].unread = unread
    <3> DEFINE new == found(pc, reads)
    <3>1. /\ new \in Request
          /\ new.pc = pc /\ new.left = reads /\ new.answers = answers
          /\ new.in = in /\ new.unread = unread
      BY <1>1 DEF Request
    <3>2. req' = [req EXCEPT ![r] = new]
      BY <2>2
    <3> HIDE DEF new
    <3> QED
      BY <1>1, <3>1, <3>2
  <2>3. CASE left \cup answers # {}
    <3>1. req' = [req EXCEPT ![r] = found(req[r].pc, left)]
      BY <2>3 DEF Proceed, found
    <3>2. req[r].pc \in Selecting
      BY DEF Selecting
    <3> HIDE DEF found
    <3> QED
      BY <2>2, <3>1, <3>2
  <2>4. CASE left \cup answers = {} /\ req[r].pc = "services" /\ KeysOf(in) # {}
    <3>1. req' = [req EXCEPT ![r] = found("keys", KeysOf(in))]
      BY <2>4 DEF Proceed, found
    <3>2. "keys" \in Selecting /\ KeysOf(in) \in SUBSET Objects
      BY <2>1 DEF Selecting
    <3> HIDE DEF found
    <3>3. /\ req' \in [Requests -> Request]
          /\ \A p \in Requests \ {r} : req'[p] = req[p]
          /\ req'[r].pc = "keys" /\ req'[r].left = KeysOf(in) /\ req'[r].answers = answers
          /\ req'[r].in = in /\ req'[r].unread = unread
      BY <2>2, <3>1, <3>2
    <3> QED
      BY <2>4, <3>3
  <2>5. CASE left \cup answers = {} /\ ~(req[r].pc = "services" /\ KeysOf(in) # {})
    <3>1. req' = [req EXCEPT ![r] = found("choosing", {})]
      BY <2>5 DEF Proceed, found
    <3>2. "choosing" \in Selecting /\ {} \in SUBSET Objects
      BY DEF Selecting
    <3> HIDE DEF found
    <3>3. /\ req' \in [Requests -> Request]
          /\ \A p \in Requests \ {r} : req'[p] = req[p]
          /\ req'[r].pc = "choosing" /\ req'[r].left = {} /\ req'[r].answers = answers
          /\ req'[r].in = in /\ req'[r].unread = unread
      BY <2>2, <3>1, <3>2
    <3> QED
      BY <2>5, <3>3
  <2> QED
    BY <2>3, <2>4, <2>5
<1>3. answers = {} => OnTheWay(answers) = {}
  BY DEF OnTheWay
<1>4. req[r].pc = "keys" => o \in Targets /\ open \subseteq Targets
  BY DEF Progress, ProgressOf, Accounted
<1>5. ProgressOf(q)
  BY <1>2, <1>3, <1>4, KeysOfServices DEF ProgressOf
<1>6. Progress' /\ Reports'
  <2>1. req' = [req EXCEPT ![r] = q] /\ q \in Request
    BY <1>1, <1>2
  <2> HIDE DEF q
  <2> QED
    BY <1>1, <1>5, <2>1, OneRequest
<1>7. KnownOf(r)'
  <2>1. req[r].pc \in Selecting /\ q.pc \in Selecting
    BY <1>2 DEF Selecting
  <2>2. /\ seen'[r].in = seen[r].in \cup In'
        /\ seen'[r].out = seen[r].out \cup (Objects \ In')
    BY <2>1 DEF Watch
  <2>3. /\ In \subseteq seen[r].in
        /\ \A s \in RoutedServices :
             \/ s \in req[r].in \cup seen[r].out
             \/ req[r].pc = "services" /\ s \in req[r].left \cup OnTheWay(req[r].answers)
        /\ req[r].pc # "services" =>
             KeysOf(req[r].in)
               \subseteq req[r].in \cup seen[r].out \cup req[r].left \cup OnTheWay(req[r].answers)
    BY <2>1 DEF Known, KnownOf
  <2>4. \A s \in RoutedServices :
          s \in in \cup seen'[r].out \/ (q.pc = "services" /\ s \in q.left \cup OnTheWay(answers))
    <3> SUFFICES ASSUME NEW s \in RoutedServices, s \notin in \cup seen'[r].out
                 PROVE  q.pc = "services" /\ s \in q.left \cup OnTheWay(answers)
      OBVIOUS
    <3>1. req[r].pc = "services" /\ s \in open
      BY <2>2, <2>3 DEF Accounted
    <3>2. q.pc = req[r].pc /\ q.left = left
      BY <1>2, <1>3, <3>1
    <3> QED
      BY <3>1, <3>2
  <2>5. q.pc # "services" =>
          KeysOf(in) \subseteq in \cup seen'[r].out \cup q.left \cup OnTheWay(answers)
    <3>1. CASE req[r].pc = "services"
      BY <1>2, <3>1
    <3>2. CASE req[r].pc = "keys"
      <4>1. KeysOf(in) = KeysOf(req[r].in)
        <5>1. in = req[r].in \/ in = req[r].in \cup {o}
          BY DEF Accounted
        <5> QED
          BY <1>4, <3>2, <5>1, KeysOfServices
      <4>2. left \subseteq q.left
        BY <1>2, <3>2
      <4>3. KeysOf(req[r].in) \subseteq in \cup seen'[r].out \cup open
        BY <2>2, <2>3, <3>2 DEF Accounted
      <4> QED
        BY <4>1, <4>2, <4>3
    <3> QED
      BY <3>1, <3>2
  <2> QED
    BY <1>2, <2>2, <2>4, <2>5 DEF KnownOf, Accounted
<1>8. \A p \in Requests \ {r} : KnownOf(p)'
  BY <1>2, KnownStays DEF Known
<1> QED
  BY <1>2, <1>6, <1>7, <1>8 DEF Known

\* A request that reads or weighs is not through with its services and keys.
LEMMA StillReading ==
  ASSUME TypeOK, Progress, NEW r \in Requests, req[r].left # {} \/ req[r].answers # {}
  PROVE  req[r].pc \in {"services", "keys"} /\ req[r].pc \in Selecting
BY DEF Progress, ProgressOf, Selecting

LEMMA ReadKeeps ==
  ASSUME TypeOK, Progress, Known, Reports, NEW r \in Requests, NEW o \in Objects,
         Read(r, o), Watch
  PROVE  req' \in [Requests -> Request] /\ Progress' /\ Reports' /\ Known'
<1> DEFINE left == req[r].left \ {o}
<1>1. /\ Health!TypeOK /\ req[r] \in Request /\ o \in req[r].left /\ updates' = updates
      /\ req[r].pc \in {"services", "keys"} /\ req[r].pc \in Selecting
  BY StillReading DEF TypeOK, Read
<1>2. KnownOf(r) /\ In \subseteq seen[r].in /\ Objects \ In \subseteq seen[r].out
  BY <1>1 DEF Known, KnownOf
<1>3. /\ req[r].in \in SUBSET Objects /\ req[r].unread \in SUBSET Objects
      /\ req[r].answers \in SUBSET HealthAnswer
      /\ left \in SUBSET Objects /\ left \subseteq req[r].left
  BY <1>1 DEF Request
<1>4. req'[r].pc \in Selecting
  <2>1. PICK reads, answers, in, unread : Proceed(r, reads, answers, in, unread)
    BY DEF Read
  <2>2. req \in [Requests -> Request]
    BY DEF TypeOK
  <2>3. req'[r].pc \in {req[r].pc, "keys", "choosing"}
    BY <1>1, <2>1, <2>2 DEF Proceed, Request
  <2> QED
    BY <1>1, <2>3 DEF Selecting
<1>5. /\ seen'[r].in = seen[r].in \cup In'
      /\ seen'[r].out = seen[r].out \cup (Objects \ In')
      /\ seen'[r].prolonged = seen[r].prolonged \cup Prolonged(r)
  BY <1>4 DEF Watch
<1>6. /\ \A a \in req[r].answers : AnswerOf(r, a)'
      /\ req[r].in \subseteq seen'[r].in \cup req[r].unread \cup seen'[r].prolonged
  BY <1>1, <1>2, <1>4, <1>5, AnswersStay DEF KnownOf
<1>7. ASSUME NEW c, c = Health!Snapshot(Health!Load(o), now).cooling_until,
             Health!GetStatus(o),
             Proceed(r, left, req[r].answers \cup {[object |-> o, cooling_until |-> c]},
                     req[r].in, req[r].unread)
      PROVE  req' \in [Requests -> Request] /\ Progress' /\ Reports' /\ Known'
  <2> DEFINE answer == [object |-> o, cooling_until |-> c]
             answers == req[r].answers \cup {answer}
  <2>1. /\ c \in Nat \cup {Null}
        /\ c = Null => o \in seen[r].in
        /\ c # Null => o \in seen[r].out
    BY <1>1, <1>2, <1>7, WhoIsIn
  <2>2. Health!Load(o)'.cooling_until = c
    <3> DEFINE h == Health!Snapshot(Health!Load(o), now)
    <3>1. h \in Health!HealthState /\ h.cooling_until = c
      BY <1>1, <1>7, Persisted, RecordTypes DEF Health!TypeOK, Health!Time
    <3>2. Health!Persist(o, h)
      BY <1>7 DEF Health!GetStatus
    <3> HIDE DEF h
    <3> QED
      BY <1>1, <3>1, <3>2, Persisted
  <2>3. AnswerOf(r, answer)' /\ o \in seen'[r].in \cup seen'[r].out
    BY <1>5, <2>1, <2>2 DEF AnswerOf
  <2>4. answers \in SUBSET HealthAnswer /\ OnTheWay(answers) = OnTheWay(req[r].answers) \cup {o}
    <3>1. answer \in HealthAnswer /\ answer.object = o
      BY <2>1 DEF HealthAnswer
    <3> HIDE DEF answer
    <3> QED
      BY <1>3, <3>1 DEF OnTheWay
  <2>5. \A a \in answers : AnswerOf(r, a)'
    BY <1>6, <2>3
  <2>6. Proceed(r, left, answers, req[r].in, req[r].unread)
    BY <1>7
  <2>7. req[r].left \subseteq left \cup {o}
    OBVIOUS
  <2> HIDE DEF answer, answers, left
  <2>8. Accounted(r, o, left, answers, req[r].in, req[r].unread)
    BY <1>6, <2>4, <2>5, <2>7 DEF Accounted
  <2> QED
    BY <1>1, <1>3, <2>4, <2>6, <2>8, ProceedKeeps
<1>8. CASE Proceed(r, left, req[r].answers, req[r].in \cup {o}, req[r].unread \cup {o})
  <2> DEFINE in == req[r].in \cup {o}
             unread == req[r].unread \cup {o}
  <2>1. in \in SUBSET Objects /\ unread \in SUBSET Objects
    BY <1>3
  <2>2. in \subseteq seen'[r].in \cup unread \cup seen'[r].prolonged
    BY <1>6
  <2>3. Proceed(r, left, req[r].answers, in, unread)
    BY <1>8
  <2>4. /\ req[r].in \subseteq in /\ in \subseteq req[r].in \cup {o}
        /\ req[r].unread \subseteq unread /\ o \in in
    OBVIOUS
  <2>5. req[r].left \subseteq left \cup {o}
    OBVIOUS
  <2> HIDE DEF in, unread, left
  <2>6. Accounted(r, o, left, req[r].answers, in, unread)
    BY <1>6, <2>2, <2>4, <2>5 DEF Accounted
  <2> QED
    BY <1>1, <1>3, <2>1, <2>3, <2>6, ProceedKeeps
<1> QED
  BY <1>7, <1>8 DEF Read, Unreadable

LEMMA JudgeKeeps ==
  ASSUME TypeOK, Progress, Known, Reports, NEW r \in Requests, NEW answer \in req[r].answers,
         Judge(r, answer), Watch
  PROVE  req' \in [Requests -> Request] /\ Progress' /\ Reports' /\ Known'
<1> DEFINE o == answer.object
           available == Health!IsAvailable(answer.cooling_until, now)
           in == req[r].in \cup (IF available THEN {o} ELSE {})
           answers == req[r].answers \ {answer}
<1>1. /\ Health!TypeOK /\ req[r] \in Request /\ updates' = updates
      /\ req[r].pc \in {"services", "keys"} /\ req[r].pc \in Selecting
  BY StillReading DEF TypeOK, Judge
<1>2. KnownOf(r) /\ In \subseteq seen[r].in
  BY <1>1 DEF Known, KnownOf
<1>3. /\ req[r].in \in SUBSET Objects /\ req[r].unread \in SUBSET Objects
      /\ req[r].left \in SUBSET Objects
      /\ answers \in SUBSET HealthAnswer /\ o \in Objects /\ answer.cooling_until \in Nat \cup {Null}
  BY <1>1 DEF Request, HealthAnswer
<1>4. req'[r].pc \in Selecting
  BY <1>1 DEF Judge, Proceed, TypeOK, Selecting
<1>5. /\ seen'[r].in = seen[r].in \cup In'
      /\ seen'[r].out = seen[r].out \cup (Objects \ In')
      /\ seen'[r].prolonged = seen[r].prolonged \cup Prolonged(r)
  BY <1>4 DEF Watch
<1>6. /\ \A a \in req[r].answers : AnswerOf(r, a)'
      /\ req[r].in \subseteq seen'[r].in \cup req[r].unread \cup seen'[r].prolonged
  BY <1>1, <1>2, <1>4, <1>5, AnswersStay DEF KnownOf
<1>7. AnswerOf(r, answer)
  BY <1>1, <1>2 DEF KnownOf
<1>8. /\ available => o \in seen[r].in \cup seen[r].prolonged
      /\ ~available => o \in seen[r].out
  <2>1. CASE answer.cooling_until = Null
    BY <1>7, <2>1 DEF AnswerOf, Health!IsAvailable
  <2>2. CASE answer.cooling_until # Null
    <3>1. available <=> answer.cooling_until <= now
      BY <2>2 DEF Health!IsAvailable
    <3>2. answer.cooling_until <= now /\ Health!Load(o).cooling_until = answer.cooling_until
            => o \in In
      BY <1>1, <1>3, WhoIsIn
    <3> QED
      BY <1>2, <1>7, <2>2, <3>1, <3>2 DEF AnswerOf
  <2> QED
    BY <2>1, <2>2
<1>9. /\ in \in SUBSET Objects /\ req[r].in \subseteq in /\ in \subseteq req[r].in \cup {o}
      /\ in \subseteq seen'[r].in \cup req[r].unread \cup seen'[r].prolonged
      /\ o \in in \cup seen'[r].out
  BY <1>3, <1>5, <1>6, <1>8
<1>10. /\ OnTheWay(answers) \subseteq OnTheWay(req[r].answers) /\ o \in OnTheWay(req[r].answers)
       /\ OnTheWay(req[r].answers) \subseteq OnTheWay(answers) \cup {o}
  BY DEF OnTheWay
<1>11. \A a \in answers : AnswerOf(r, a)'
  BY <1>6
<1>12. Proceed(r, req[r].left, answers, in, req[r].unread)
  BY DEF Judge
<1> HIDE DEF o, in, answers
<1>13. Accounted(r, o, req[r].left, answers, in, req[r].unread)
  BY <1>9, <1>10, <1>11 DEF Accounted
<1> QED
  BY <1>1, <1>3, <1>9, <1>10, <1>12, <1>13, ProceedKeeps

LEMMA RefuseKeeps ==
  ASSUME TypeOK, Progress, Known, Reports, NEW r \in Requests, Refuse(r), Watch
  PROVE  req' \in [Requests -> Request] /\ Progress' /\ Reports' /\ Known'
<1> DEFINE q == [Idle EXCEPT !.pc = "done", !.last = "refused"]
<1>1. req \in [Requests -> Request] /\ req' = [req EXCEPT ![r] = q]
  BY DEF TypeOK, Refuse
<1>2. q \in Request /\ ProgressOf(q) /\ q.pc \notin Selecting
  BY IdleTyped DEF Idle, Request, ProgressOf, Selecting
<1>3. req[r].pc # "done" /\ updates' = updates
  BY DEF Refuse
<1> HIDE DEF q
<1>4. req' \in [Requests -> Request] /\ Progress' /\ Reports'
  BY <1>1, <1>2, <1>3, OneRequest
<1>5. KnownOf(r)'
  BY <1>1, <1>2, KnownElsewhere
<1>6. \A p \in Requests \ {r} : KnownOf(p)'
  BY <1>1, KnownStays DEF Known
<1> QED
  BY <1>4, <1>5, <1>6 DEF Known

LEMMA ChooseKeeps ==
  ASSUME TypeOK, Progress, Known, Reports, NEW r \in Requests, Choose(r), Watch
  PROVE  req' \in [Requests -> Request] /\ Progress' /\ Reports' /\ Known'
<1>1. PICK target \in Choices(Offered(req[r].in)) :
        req' = [req EXCEPT ![r] = [Idle EXCEPT !.pc = "fetching", !.target = target, !.attempt = 1]]
  BY DEF Choose
<1> DEFINE q == [Idle EXCEPT !.pc = "fetching", !.target = target, !.attempt = 1]
<1>2. target \in Targets
  BY ChosenOfOffered
<1>3. req \in [Requests -> Request] /\ req' = [req EXCEPT ![r] = q]
  BY <1>1 DEF TypeOK
<1>4. q \in Request /\ ProgressOf(q) /\ q.pc \notin Selecting
  <2>1. 1 \in 0 .. Delays + 1
    BY InferenceAssumption
  <2> DEFINE e == [Idle EXCEPT !.pc = "fetching"]
             f == [e EXCEPT !.target = target]
  <2>2. e = [pc |-> "fetching", left |-> {}, answers |-> {}, in |-> {},
             unread |-> {}, target |-> None, attempt |-> 0, last |-> "none"]
    BY DEF Idle
  <2>3. q = [f EXCEPT !.attempt = 1]
    OBVIOUS
  <2> HIDE DEF e, q
  <2>4. f = [pc |-> "fetching", left |-> {}, answers |-> {}, in |-> {},
             unread |-> {}, target |-> target, attempt |-> 0, last |-> "none"]
    BY <2>2
  <2> HIDE DEF f
  <2>5. q = [pc |-> "fetching", left |-> {}, answers |-> {}, in |-> {},
             unread |-> {}, target |-> target, attempt |-> 1, last |-> "none"]
    BY <2>3, <2>4
  <2>6. q \in Request
    BY <1>2, <2>1, <2>5 DEF Request
  <2> QED
    BY <1>2, <2>5, <2>6 DEF ProgressOf, Selecting
<1>5. req[r].pc # "done" /\ updates' = updates
  BY DEF Choose
<1> HIDE DEF q
<1>6. req' \in [Requests -> Request] /\ Progress' /\ Reports'
  BY <1>3, <1>4, <1>5, OneRequest
<1>7. KnownOf(r)'
  BY <1>3, <1>4, KnownElsewhere
<1>8. \A p \in Requests \ {r} : KnownOf(p)'
  BY <1>3, KnownStays DEF Known
<1> QED
  BY <1>6, <1>7, <1>8 DEF Known

\* The updates of an answer, by their kinds.
LEMMA ReportForms ==
  ASSUME TypeOK, Progress, NEW r \in Requests, req[r].pc = "fetching",
         NEW result \in Results, NEW final \in BOOLEAN, NEW u \in Reported(r, result, final)
  PROVE  /\ u \in HealthUpdate /\ u.request = r /\ ~u.done
         /\ u.object \in IF u.kind = "key_failure" THEN Targets ELSE RoutedServices
         /\ u.kind = "failure" => /\ final
                                  /\ result \in {"service", "error"}
                                  /\ u.object = req[r].target.service_id
                                  /\ u = Update(r, "failure", req[r].target.service_id)
<1> DEFINE target == req[r].target
<1>1. /\ target \in Targets /\ target.service_id \in RoutedServices
      /\ req[r].attempt \in 1 .. Delays + 1
  <2>1. req[r] \in Request
    BY DEF TypeOK
  <2>2. target \in Targets /\ req[r].attempt >= 1
    BY DEF Progress, ProgressOf
  <2>3. req[r].attempt \in 1 .. Delays + 1
    BY <2>1, <2>2, InferenceAssumption DEF Request
  <2> QED
    BY <2>2, <2>3, ObjectNames
<1>2. \A kind \in {"success", "failure", "key_failure"} : \A object \in Objects :
        /\ Update(r, kind, object) \in HealthUpdate
        /\ Update(r, kind, object).request = r
        /\ Update(r, kind, object).kind = kind
        /\ Update(r, kind, object).object = object
        /\ ~Update(r, kind, object).done
  BY <1>1 DEF Update, HealthUpdate
<1>3. \/ u = Update(r, "key_failure", target)
      \/ /\ u = Update(r, "failure", target.service_id)
         /\ final /\ result \in {"service", "error"}
      \/ u = Update(r, "success", target.service_id)
  BY DEF Reported
<1>4. target \in Objects /\ target.service_id \in Objects
  BY <1>1 DEF Objects
<1>5. CASE u = Update(r, "key_failure", target)
  BY <1>1, <1>2, <1>4, <1>5
<1>6. CASE u = Update(r, "failure", target.service_id) /\ final /\ result \in {"service", "error"}
  BY <1>1, <1>2, <1>4, <1>6
<1>7. CASE u = Update(r, "success", target.service_id)
  BY <1>1, <1>2, <1>4, <1>7
<1> QED
  BY <1>3, <1>5, <1>6, <1>7

LEMMA AnswerKeeps ==
  ASSUME TypeOK, Progress, Known, Reports, NEW r \in Requests, NEW result \in Results,
         Answer(r, result), Watch
  PROVE  /\ req' \in [Requests -> Request] /\ updates' \subseteq HealthUpdate
         /\ Progress' /\ Reports' /\ Known'
         /\ updates \subseteq updates'
         /\ \A u \in updates' \ updates : ~u.done
<1> DEFINE final == Final(r, result)
           q == IF final THEN [req[r] EXCEPT !.pc = "done", !.last = result]
                ELSE [req[r] EXCEPT !.attempt = NextAttempt(r)]
<1>1. /\ req \in [Requests -> Request] /\ req[r] \in Request /\ updates \subseteq HealthUpdate
      /\ req[r].pc = "fetching"
      /\ req[r].attempt \in 1 .. Delays + 1 /\ req[r].target \in Targets
      /\ req[r].left = {} /\ req[r].answers = {}
  <2>1. /\ req \in [Requests -> Request] /\ req[r] \in Request /\ updates \subseteq HealthUpdate
        /\ req[r].pc = "fetching"
    BY DEF TypeOK, Answer
  <2>2. /\ req[r].attempt >= 1 /\ req[r].target \in Targets /\ req[r].left = {}
        /\ req[r].answers = {}
    BY <2>1 DEF Progress, ProgressOf
  <2>3. req[r].attempt \in 1 .. Delays + 1
    BY <2>1, <2>2, InferenceAssumption DEF Request
  <2> QED
    BY <2>1, <2>2, <2>3
<1>2. final \in BOOLEAN
  BY DEF Final
<1>3. req' = [req EXCEPT ![r] = q]
  BY <1>1 DEF Answer
<1>4. q \in Request /\ ProgressOf(q) /\ q.pc \notin Selecting
  <2>1. CASE final
    <3>1. q = [req[r] EXCEPT !.pc = "done", !.last = result]
      BY <2>1
    <3> HIDE DEF q
    <3> QED
      BY <1>1, <3>1 DEF Request, ProgressOf, Selecting
  <2>2. CASE ~final
    <3>1. q = [req[r] EXCEPT !.attempt = NextAttempt(r)]
      BY <2>2
    <3>2. NextAttempt(r) \in 1 .. Delays + 1
      BY <1>1, <2>2, InferenceAssumption DEF Final, NextAttempt
    <3>3. NextAttempt(r) \in 0 .. Delays + 1 /\ NextAttempt(r) >= 1
      BY <3>2, InferenceAssumption
    <3> HIDE DEF q
    <3> QED
      BY <1>1, <3>1, <3>3 DEF Request, ProgressOf, Selecting
  <2> QED
    BY <2>1, <2>2
<1>5. /\ final => q.pc = "done" /\ q.last = result /\ q.target = req[r].target
  BY <1>1 DEF Request
<1>6. updates' = updates \cup Reported(r, result, final)
  BY DEF Answer
<1> HIDE DEF q, final
<1>7. \A u \in Reported(r, result, final) :
        /\ u \in HealthUpdate /\ u.request = r /\ ~u.done
        /\ u.object \in IF u.kind = "key_failure" THEN Targets ELSE RoutedServices
        /\ u.kind = "failure" => /\ final
                                 /\ result \in {"service", "error"}
                                 /\ u.object = req[r].target.service_id
                                 /\ u = Update(r, "failure", req[r].target.service_id)
  BY <1>1, <1>2, ReportForms
<1>8. req' \in [Requests -> Request] /\ req'[r] = q /\ \A p \in Requests \ {r} : req'[p] = req[p]
  BY <1>1, <1>3, <1>4
<1>9. updates' \subseteq HealthUpdate /\ \A u \in updates' \ updates : ~u.done
  BY <1>1, <1>6, <1>7
<1>10. Progress'
  BY <1>4, <1>8 DEF Progress
<1>11. Reports'
  <2>1. \A u \in updates : u.request \in Requests /\ (u.kind = "failure" => u.request # r)
    BY <1>1 DEF Reports, HealthUpdate
  <2>2. \A u \in updates' :
          /\ u.object \in IF u.kind = "key_failure" THEN Targets ELSE RoutedServices
          /\ u.kind = "failure" =>
               /\ req'[u.request].pc = "done"
               /\ req'[u.request].last \in {"service", "error"}
               /\ req'[u.request].target.service_id = u.object
    <3>1. ASSUME NEW u \in updates
          PROVE  /\ u.object \in IF u.kind = "key_failure" THEN Targets ELSE RoutedServices
                 /\ u.kind = "failure" =>
                      /\ req'[u.request].pc = "done"
                      /\ req'[u.request].last \in {"service", "error"}
                      /\ req'[u.request].target.service_id = u.object
      BY <1>8, <2>1 DEF Reports
    <3>2. ASSUME NEW u \in Reported(r, result, final)
          PROVE  /\ u.object \in IF u.kind = "key_failure" THEN Targets ELSE RoutedServices
                 /\ u.kind = "failure" =>
                      /\ req'[u.request].pc = "done"
                      /\ req'[u.request].last \in {"service", "error"}
                      /\ req'[u.request].target.service_id = u.object
      BY <1>5, <1>7, <1>8
    <3> QED
      BY <1>6, <3>1, <3>2
  <2>3. \A u, v \in updates' :
          u.kind = "failure" /\ v.kind = "failure" /\ u.request = v.request => u = v
    BY <1>6, <1>7, <2>1 DEF Reports
  <2> QED
    BY <2>2, <2>3 DEF Reports
<1>12. KnownOf(r)'
  BY <1>4, <1>8, KnownElsewhere
<1>13. \A p \in Requests \ {r} : KnownOf(p)'
  BY <1>8, KnownStays DEF Known
<1> QED
  BY <1>6, <1>8, <1>9, <1>10, <1>11, <1>12, <1>13 DEF Known

\* An update that is done, or lost, is no other than it was.
LEMMA ApplyKeeps ==
  ASSUME TypeOK, Progress, Known, Reports, NEW u \in updates, Apply(u), Watch
  PROVE  /\ req' \in [Requests -> Request] /\ updates' \subseteq HealthUpdate
         /\ Progress' /\ Reports' /\ Known'
<1> DEFINE v == [u EXCEPT !.done = TRUE]
<1>1. req' = req /\ updates' = (updates \ {u}) \cup {v}
  BY DEF Apply
<1>2. /\ v \in HealthUpdate /\ updates \subseteq HealthUpdate
      /\ v.object = u.object /\ v.kind = u.kind /\ v.request = u.request
  BY DEF TypeOK, HealthUpdate
<1> HIDE DEF v
<1>3. updates' \subseteq HealthUpdate /\ req' \in [Requests -> Request] /\ Progress'
  BY <1>1, <1>2 DEF TypeOK, Progress
<1>4. Reports'
  BY <1>1, <1>2 DEF Reports
<1>5. Known'
  BY <1>1, KnownStays DEF Known
<1> QED
  BY <1>3, <1>4, <1>5
-----------------------------------------------------------------------------
(* The failures that were counted. *)

\* The requests that are to blame are finitely many, and are only ever more.
LEMMA BlamersGrow ==
  ASSUME NEW s, NEW B \in SUBSET Requests, B = Blamers(s)
  PROVE  /\ Cardinality(B) \in Nat
         /\ \A C \in SUBSET Requests : B \subseteq C => Cardinality(B) <= Cardinality(C)
         /\ \A r \in Requests \ B : Cardinality(B \cup {r}) = Cardinality(B) + 1
<1>1. IsFiniteSet(Requests)
  BY InferenceAssumption
<1>2. IsFiniteSet(B) /\ \A C \in SUBSET Requests : IsFiniteSet(C)
  BY <1>1, FS_Subset
<1>3. Cardinality(B) \in Nat
  BY <1>2, FS_CardinalityType
<1>4. \A C \in SUBSET Requests : B \subseteq C => Cardinality(B) <= Cardinality(C)
  BY <1>2, FS_Subset
<1>5. \A r \in Requests \ B : Cardinality(B \cup {r}) = Cardinality(B) + 1
  BY <1>2, FS_AddElement
<1> QED
  BY <1>3, <1>4, <1>5

\* What a service has counted, as a record that is sound.
LEMMA CountsSound ==
  Counts <=> \A s \in RoutedServices : Sound(Health!Load(s), Cardinality(Blamers(s)))
BY DEF Counts, Sound

\* A step that counts nothing, and after which no request is less to blame.
LEMMA CountsStay ==
  ASSUME Counts, Health!TypeOK, Health!TypeOK', NoneCounted,
         \A s \in RoutedServices : Blamers(s) \subseteq Blamers(s)'
  PROVE  Counts'
<1> SUFFICES ASSUME NEW s \in RoutedServices
             PROVE  Sound(Health!Load(s)', Cardinality(Blamers(s)'))
  BY DEF Counts, Sound
<1> DEFINE B == Blamers(s)
           C == Blamers(s)'
<1>1. B \in SUBSET Requests /\ C \in SUBSET Requests /\ B \subseteq C
  BY DEF Blamers
<1> HIDE DEF B, C
<1>2. Cardinality(B) \in Nat /\ Cardinality(B) <= Cardinality(C)
  <2>1. IsFiniteSet(C) /\ IsFiniteSet(B)
    BY <1>1, InferenceAssumption, FS_Subset
  <2> QED
    BY <1>1, <2>1, FS_Subset, FS_CardinalityType
<1>3. Cardinality(C) \in Nat
  BY <1>1, InferenceAssumption, FS_Subset, FS_CardinalityType
<1>4. Sound(Health!Load(s), Cardinality(B))
  BY CountsSound DEF B
<1>5. Sound(Health!Load(s)', Cardinality(B))
  BY <1>2, <1>4 DEF NoneCounted
<1>6. s \in Objects
  BY DEF Objects
<1>7. Health!Load(s)'.failures \in Nat
  <2>1. Health!Load(s)' \in Health!HealthState
    BY <1>6, LoadTyped
  <2> QED
    BY <2>1 DEF Health!HealthState
<1> QED
  BY <1>2, <1>3, <1>5, <1>7 DEF Sound, C

\* The failure of a request is counted at most once, with the request to blame.
LEMMA ApplyCounts ==
  ASSUME TypeOK, Reports, Counts, NEW u \in updates, Apply(u)
  PROVE  Health!TypeOK' /\ Counts'
<1>1. /\ Health!TypeOK /\ u \in HealthUpdate /\ updates \subseteq HealthUpdate
      /\ updates' = (updates \ {u}) \cup {[u EXCEPT !.done = TRUE]} /\ ~u.done
      /\ u.object \in IF u.kind = "key_failure" THEN Targets ELSE RoutedServices
  BY DEF TypeOK, Apply, Reports
<1> DEFINE v == [u EXCEPT !.done = TRUE]
<1>2. v.kind = u.kind /\ v.object = u.object /\ v.request = u.request /\ v.done
  BY <1>1 DEF HealthUpdate
<1> HIDE DEF v
<1>3. \A s \in RoutedServices : Blamers(s) \subseteq Blamers(s)'
  <2> SUFFICES ASSUME NEW s \in RoutedServices, NEW r \in Blamers(s)
               PROVE  r \in Blamers(s)'
    OBVIOUS
  <2>1. r \in Requests
    BY DEF Blamers
  <2>2. PICK w \in updates : w.kind = "failure" /\ w.object = s /\ w.request = r /\ w.done
    BY DEF Blamers
  <2>3. w \in updates'
    BY <1>1, <2>2
  <2> QED
    BY <2>1, <2>2, <2>3 DEF Blamers
<1>4. CASE \/ u.kind = "success" /\ Health!RecordSuccess(u.object)
           \/ u.kind = "key_failure" /\ Health!RecordImmediateFailure(u.object)
           \/ UNCHANGED health
  <2>1. Health!TypeOK' /\ NoneCounted
    BY <1>1, <1>4, QuietHealth
  <2> QED
    BY <1>1, <1>3, <2>1, CountsStay
<1>5. CASE u.kind = "failure" /\ Health!RecordFailure(u.object)
  <2> DEFINE s == u.object
             B == Blamers(s)
  <2>1. s \in RoutedServices
    BY <1>1, <1>5
  <2>2. /\ Health!TypeOK'
        /\ \A n \in Nat : Sound(Health!Load(s), n) => Sound(Health!Load(s)', n + 1)
        /\ \A o \in RoutedServices \ {s} : Health!Load(o)' = Health!Load(o)
    BY <1>1, <1>5, <2>1, CountedFailure
  <2>3. \A o \in RoutedServices : Health!Load(o)' \in Health!HealthState
    BY <2>2, LoadTyped DEF Objects
  <2>4. ASSUME NEW o \in RoutedServices
        PROVE  /\ Blamers(o) \in SUBSET Requests /\ Blamers(o)' \in SUBSET Requests
               /\ Cardinality(Blamers(o)) \in Nat /\ Cardinality(Blamers(o)') \in Nat
               /\ Cardinality(Blamers(o)) <= Cardinality(Blamers(o)')
    <3> DEFINE D == Blamers(o)
               C == Blamers(o)'
    <3>1. D \in SUBSET Requests /\ C \in SUBSET Requests /\ D \subseteq C
      BY <1>3 DEF Blamers
    <3> HIDE DEF D, C
    <3>2. IsFiniteSet(C) /\ IsFiniteSet(D)
      BY <3>1, InferenceAssumption, FS_Subset
    <3>3. Cardinality(D) \in Nat /\ Cardinality(C) \in Nat /\ Cardinality(D) <= Cardinality(C)
      BY <3>1, <3>2, FS_Subset, FS_CardinalityType
    <3> QED
      BY <3>1, <3>3 DEF D, C
  <2>5. Sound(Health!Load(s)', Cardinality(Blamers(s)'))
    <3>1. u.request \in Requests /\ u.request \notin B
      <4>1. ASSUME NEW w \in updates, w.kind = "failure", w.request = u.request, w.done
            PROVE  FALSE
        BY <1>1, <1>5, <4>1 DEF Reports
      <4> QED
        BY <1>1, <4>1 DEF Blamers, HealthUpdate
    <3>2. B \cup {u.request} = Blamers(s)'
      <4>1. v \in updates'
        BY <1>1 DEF v
      <4>2. u.request \in Blamers(s)'
        BY <1>2, <1>5, <3>1, <4>1 DEF Blamers
      <4>3. ASSUME NEW r \in Blamers(s)', r # u.request PROVE r \in B
        <5>1. r \in Requests
          BY DEF Blamers
        <5>2. PICK w \in updates' : w.kind = "failure" /\ w.object = s /\ w.request = r /\ w.done
          BY DEF Blamers
        <5>3. w \in updates
          BY <1>1, <1>2, <4>3, <5>2 DEF v
        <5> QED
          BY <5>1, <5>2, <5>3 DEF Blamers
      <4> QED
        BY <1>3, <2>1, <4>2, <4>3
    <3>3. B \in SUBSET Requests
      BY <2>1, <2>4
    <3>4. Cardinality(B \cup {u.request}) = Cardinality(B) + 1
      <4> HIDE DEF B
      <4>1. IsFiniteSet(B)
        BY <3>3, InferenceAssumption, FS_Subset
      <4> QED
        BY <3>1, <4>1, FS_AddElement
    <3>5. Sound(Health!Load(s), Cardinality(B))
      BY <2>1, CountsSound
    <3> QED
      BY <2>1, <2>2, <2>4, <3>2, <3>4, <3>5
  <2>6. ASSUME NEW o \in RoutedServices, o # s
        PROVE  Sound(Health!Load(o)', Cardinality(Blamers(o)'))
    <3>1. Sound(Health!Load(o), Cardinality(Blamers(o))) /\ Health!Load(o)' = Health!Load(o)
      BY <2>2, <2>6, CountsSound
    <3>2. Health!Load(o)'.failures \in Nat
      BY <2>3 DEF Health!HealthState
    <3> QED
      BY <2>4, <3>1, <3>2 DEF Sound
  <2> QED
    BY <2>2, <2>5, <2>6 DEF Counts, Sound
<1> QED
  BY <1>4, <1>5 DEF Apply

LEMMA Initially == Init => InferenceInv
<1> SUFFICES ASSUME Init PROVE InferenceInv
  OBVIOUS
<1>1. Health!TypeOK
  BY InferenceAssumption, ObjectNames
     DEF Init, Health!Init, Health!TypeOK, Health!Time
<1>2. /\ \A r \in Requests : req[r] = Idle
      /\ req \in [Requests -> Request]
      /\ updates = {}
  BY IdleTyped DEF Init
<1>3. TypeOK
  BY <1>1, <1>2 DEF Init, TypeOK, Nothing
<1>4. Progress /\ Known /\ Reports
  BY <1>2 DEF Progress, ProgressOf, Known, KnownOf, Reports, Idle, Selecting
<1>5. Counts
  <2> SUFFICES ASSUME NEW s \in RoutedServices
               PROVE  Sound(Health!Load(s), Cardinality(Blamers(s)))
    BY CountsSound
  <2>1. Health!Load(s) = Health!Fresh
    BY DEF Init, Health!Init, Health!Load, Health!Objects
  <2>2. Cardinality(Blamers(s)) \in Nat
    <3>1. Blamers(s) \in SUBSET Requests
      BY DEF Blamers
    <3> QED
      BY <3>1, InferenceAssumption, FS_Subset, FS_CardinalityType
  <2> QED
    BY <2>1, <2>2 DEF Sound, Health!Fresh
<1> QED
  BY <1>3, <1>4, <1>5 DEF InferenceInv

LEMMA StepKeeps ==
  ASSUME InferenceInv, Next
  PROVE  InferenceInv'
<1>1. TypeOK /\ Progress /\ Known /\ Reports /\ Counts /\ Watch /\ Step
  BY DEF InferenceInv, Next
<1>2. Health!TypeOK /\ req \in [Requests -> Request] /\ updates \subseteq HealthUpdate
  BY <1>1 DEF TypeOK
<1>3. seen' \in [Requests -> [in : SUBSET Objects, out : SUBSET Objects,
                              prolonged : SUBSET Objects]]
  <2>1. \A r \in Requests : Prolonged(r) \subseteq Objects
    BY <1>1 DEF TypeOK, Request, HealthAnswer, Prolonged
  <2> QED
    BY <1>1, <2>1 DEF TypeOK, Watch, Nothing, In
<1>4. /\ req' \in [Requests -> Request] /\ updates' \subseteq HealthUpdate
      /\ Progress' /\ Reports' /\ Known' /\ Health!TypeOK' /\ Counts'
  <2>1. ASSUME UNCHANGED health, \A s \in RoutedServices : Blamers(s) \subseteq Blamers(s)'
        PROVE  Health!TypeOK' /\ Counts'
    <3>1. Health!TypeOK' /\ NoneCounted
      BY <1>2, <2>1, QuietHealth
    <3> QED
      BY <1>1, <1>2, <2>1, <3>1, CountsStay
  <2>2. ASSUME updates \subseteq updates'
        PROVE  \A s \in RoutedServices : Blamers(s) \subseteq Blamers(s)'
    BY <2>2 DEF Blamers
  <2>3. ASSUME NEW r \in Requests, Arrive(r) \/ Refuse(r) \/ Choose(r)
        PROVE  /\ req' \in [Requests -> Request] /\ updates' \subseteq HealthUpdate
               /\ Progress' /\ Reports' /\ Known' /\ Health!TypeOK' /\ Counts'
    <3>1. req' \in [Requests -> Request] /\ Progress' /\ Reports' /\ Known'
      BY <1>1, <2>3, ArriveKeeps, RefuseKeeps, ChooseKeeps
    <3>2. UNCHANGED health /\ updates' = updates
      BY <2>3 DEF Arrive, Refuse, Choose
    <3> QED
      BY <1>2, <2>1, <2>2, <3>1, <3>2
  <2>4. ASSUME NEW r \in Requests,
               \/ \E o \in Objects : Read(r, o)
               \/ \E answer \in req[r].answers : Judge(r, answer)
        PROVE  /\ req' \in [Requests -> Request] /\ updates' \subseteq HealthUpdate
               /\ Progress' /\ Reports' /\ Known' /\ Health!TypeOK' /\ Counts'
    <3>1. req' \in [Requests -> Request] /\ Progress' /\ Reports' /\ Known'
      BY <1>1, <2>4, ReadKeeps, JudgeKeeps
    <3>2. UNCHANGED health \/ \E o \in Objects : Health!GetStatus(o)
      BY <2>4 DEF Read, Judge
    <3>3. Health!TypeOK' /\ NoneCounted
      BY <1>2, <3>2, QuietHealth
    <3>4. updates' = updates
      BY <2>4 DEF Read, Judge
    <3> QED
      BY <1>1, <1>2, <2>2, <3>1, <3>3, <3>4, CountsStay
  <2>5. ASSUME NEW r \in Requests, NEW result \in Results, Answer(r, result)
        PROVE  /\ req' \in [Requests -> Request] /\ updates' \subseteq HealthUpdate
               /\ Progress' /\ Reports' /\ Known' /\ Health!TypeOK' /\ Counts'
    <3>1. /\ req' \in [Requests -> Request] /\ updates' \subseteq HealthUpdate
          /\ Progress' /\ Reports' /\ Known'
          /\ updates \subseteq updates'
      BY <1>1, <2>5, AnswerKeeps
    <3>2. UNCHANGED health
      BY <2>5 DEF Answer
    <3> QED
      BY <2>1, <2>2, <3>1, <3>2
  <2>6. ASSUME NEW u \in updates, Apply(u)
        PROVE  /\ req' \in [Requests -> Request] /\ updates' \subseteq HealthUpdate
               /\ Progress' /\ Reports' /\ Known' /\ Health!TypeOK' /\ Counts'
    BY <1>1, <2>6, ApplyKeeps, ApplyCounts
  <2>7. ASSUME Tick \/ \E o \in Objects : Clear(o)
        PROVE  /\ req' \in [Requests -> Request] /\ updates' \subseteq HealthUpdate
               /\ Progress' /\ Reports' /\ Known' /\ Health!TypeOK' /\ Counts'
    <3>1. req' = req /\ updates' = updates
      BY <2>7 DEF Tick, Clear
    <3>2. Health!TypeOK' /\ NoneCounted
      BY <1>2, <2>7, QuietHealth DEF Tick, Clear
    <3>3. Progress' /\ Reports'
      BY <1>1, <3>1 DEF Progress, Reports
    <3>4. Known'
      BY <1>1, <3>1, KnownStays DEF Known
    <3> QED
      BY <1>1, <1>2, <2>2, <3>1, <3>2, <3>3, <3>4, CountsStay
  <2> QED
    BY <1>1, <2>3, <2>4, <2>5, <2>6, <2>7 DEF Step
<1> QED
  BY <1>3, <1>4 DEF InferenceInv, TypeOK
-----------------------------------------------------------------------------
(* The properties. *)

\* The invariant that relates requests, updates, history and health holds for
\* every route and any number of requests (proxy.ts, routing.ts).
THEOREM InferenceCorrect == Spec => []InferenceInv
<1>1. InferenceInv /\ UNCHANGED vars => InferenceInv'
  <2> SUFFICES ASSUME InferenceInv, UNCHANGED vars PROVE InferenceInv'
    OBVIOUS
  <2>1. /\ now' = now /\ stored' = stored /\ failedAt' = failedAt /\ cooledAt' = cooledAt
        /\ req' = req /\ updates' = updates /\ seen' = seen
    BY DEF vars, health
  <2>2. In' = In /\ \A o : Health!Load(o)' = Health!Load(o)
    BY <2>1 DEF In, Health!Available, Health!Load
  <2>3. Known' /\ Counts'
    BY <2>1, <2>2 DEF InferenceInv, Known, KnownOf, AnswerOf, Counts, Blamers, KeysOf
  <2> QED
    BY <2>1, <2>3 DEF InferenceInv, TypeOK, Health!TypeOK, Progress, Reports
<1>2. InferenceInv /\ [Next]_vars => InferenceInv'
  BY <1>1, StepKeeps
<1> QED
  BY <1>2, Initially, PTL DEF Spec

\* Every reachable state has its type (handleInference, fetchWithConfiguredRetries).
THEOREM TypeCorrect == Spec => []TypeOK
<1>1. InferenceInv => TypeOK
  BY DEF InferenceInv
<1> QED
  BY <1>1, InferenceCorrect, PTL

\* A service goes out only when as many requests as the threshold have failed
\* in the end, whatever the retries (handleInference, recordFailure).
THEOREM RetriesDoNotCount == Spec => []CoolingTakesRequests
<1>1. InferenceInv => CoolingTakesRequests
  <2> SUFFICES ASSUME InferenceInv, NEW s \in RoutedServices, ~Health!Available(s)
               PROVE  Cardinality(Broken(s)) >= FAILURE_THRESHOLD
    BY DEF CoolingTakesRequests
  <2>1. /\ Health!TypeOK /\ Counts /\ Reports /\ updates \subseteq HealthUpdate
        /\ s \in Objects
    BY DEF InferenceInv, TypeOK, Objects
  <2>2. Health!Load(s) \in Health!HealthState /\ now \in Nat
    BY <2>1, Persisted DEF Health!TypeOK, Health!Time
  <2>3. Health!Load(s).cooling_until # Null
    <3>1. Health!Snapshot(Health!Load(s), now).cooling_until # Null
      BY DEF Health!Available, Health!IsAvailable
    <3> QED
      BY <3>1 DEF Health!Snapshot, Health!EndCooldown, Health!EndWindow, Health!Fresh,
                  Health!ResetFailures, Health!WithFailures
  <2>4. /\ Health!Load(s).failures \in Nat
        /\ Health!Load(s).failures >= FAILURE_THRESHOLD
        /\ Health!Load(s).failures <= Cardinality(Blamers(s))
    BY <2>1, <2>2, <2>3 DEF Counts, Health!HealthState
  <2>5. Blamers(s) \subseteq Broken(s) /\ Broken(s) \in SUBSET Requests
    BY <2>1 DEF Blamers, Broken, Reports
  <2>6. /\ Cardinality(Blamers(s)) <= Cardinality(Broken(s))
        /\ Cardinality(Blamers(s)) \in Nat /\ Cardinality(Broken(s)) \in Nat
    <3> DEFINE B == Blamers(s)
               C == Broken(s)
    <3>1. C \in SUBSET Requests /\ B \subseteq C
      BY <2>5
    <3> HIDE DEF B, C
    <3>2. IsFiniteSet(C) /\ IsFiniteSet(B)
      BY <3>1, InferenceAssumption, FS_Subset
    <3> QED
      BY <3>1, <3>2, FS_Subset, FS_CardinalityType DEF B, C
  <2> QED
    BY <2>4, <2>6, InferenceAssumption
<1> QED
  BY <1>1, InferenceCorrect, PTL

\* A request that decides has its target from what it found in, or is refused.
LEMMA DecidesForms ==
  ASSUME InferenceInv, Next, NEW r \in Requests, Decides(r)
  PROVE  /\ req[r].pc = "choosing" /\ KnownOf(r)
         /\ req[r].left = {} /\ OnTheWay(req[r].answers) = {}
         /\ \/ Offered(req[r].in) = <<>> /\ req'[r].pc = "done"
            \/ req'[r].pc = "fetching" /\ req'[r].target \in Choices(Offered(req[r].in))
<1>1. /\ req \in [Requests -> Request] /\ Progress /\ Known /\ req[r].pc = "choosing"
  BY DEF InferenceInv, TypeOK, Decides
<1>2. req[r].left = {} /\ OnTheWay(req[r].answers) = {} /\ KnownOf(r)
  BY <1>1 DEF Progress, ProgressOf, Known, OnTheWay
<1>3. req'[r] # req[r]
  BY DEF Decides
<1>4. Refuse(r) \/ Choose(r)
  <2>1. ASSUME NEW p \in Requests, Arrive(p) PROVE FALSE
    <3>1. p # r
      BY <1>1, <2>1 DEF Arrive
    <3> QED
      BY <1>1, <1>3, <2>1, <3>1 DEF Arrive
  <2>2. ASSUME NEW p \in Requests,
               \/ \E o \in Objects : Read(p, o)
               \/ \E answer \in req[p].answers : Judge(p, answer)
        PROVE  FALSE
    <3>1. p # r
      BY <1>1, <2>2 DEF Progress, ProgressOf, Read, Judge
    <3> QED
      BY <1>1, <1>3, <2>2, <3>1 DEF Read, Judge, Proceed
  <2>3. ASSUME NEW p \in Requests, p # r, Refuse(p) \/ Choose(p) PROVE FALSE
    BY <1>1, <1>3, <2>3 DEF Refuse, Choose
  <2>4. ASSUME NEW p \in Requests, NEW result \in Results, Answer(p, result) PROVE FALSE
    <3>1. p # r
      BY <1>1, <2>4 DEF Answer
    <3> QED
      BY <1>1, <1>3, <2>4, <3>1 DEF Answer
  <2>5. ASSUME \/ \E u \in updates : Apply(u)
               \/ \E o \in Objects : Clear(o)
               \/ Tick
        PROVE  FALSE
    BY <1>3, <2>5 DEF Apply, Clear, Tick
  <2> QED
    BY <2>1, <2>2, <2>3, <2>4, <2>5 DEF Next, Step
<1>5. CASE Refuse(r)
  <2>1. req'[r] = [Idle EXCEPT !.pc = "done", !.last = "refused"]
    BY <1>1, <1>5 DEF Refuse
  <2>2. req'[r].pc = "done"
    BY <2>1 DEF Idle
  <2> QED
    BY <1>1, <1>2, <1>5, <2>2 DEF Refuse
<1>6. CASE Choose(r)
  <2>1. PICK target \in Choices(Offered(req[r].in)) :
          req' = [req EXCEPT ![r] = [Idle EXCEPT !.pc = "fetching", !.target = target,
                                                 !.attempt = 1]]
    BY <1>6 DEF Choose
  <2>2. req'[r] = [Idle EXCEPT !.pc = "fetching", !.target = target, !.attempt = 1]
    BY <1>1, <2>1
  <2>3. req'[r].pc = "fetching" /\ req'[r].target = target
    BY <2>2 DEF Idle
  <2> QED
    BY <1>1, <1>2, <2>3
<1> QED
  BY <1>4, <1>5, <1>6

\* No request is given a target, or a service, that was out all the time since
\* it came, unless its health could not be read or its cooldown was moved while
\* the snapshot of it was on the way (evaluateAvailability, getKeyAvailability).
THEOREM NoTargetOut == Spec => TargetWasIn
<1> DEFINE Given(r) ==
      Decides(r) /\ req'[r].pc = "fetching" =>
        {req'[r].target, req'[r].target.service_id}
          \subseteq seen[r].in \cup req[r].unread \cup seen[r].prolonged
<1>1. InferenceInv /\ [Next]_vars => [\A r \in Requests : Given(r)]_vars
  <2> SUFFICES ASSUME InferenceInv, Next, NEW r \in Requests, Decides(r),
                      req'[r].pc = "fetching"
               PROVE  {req'[r].target, req'[r].target.service_id}
                        \subseteq seen[r].in \cup req[r].unread \cup seen[r].prolonged
    OBVIOUS
  <2>1. /\ req[r].pc = "choosing" /\ KnownOf(r)
        /\ req'[r].target \in Choices(Offered(req[r].in))
    BY DecidesForms
  <2>2. req[r].in \subseteq seen[r].in \cup req[r].unread \cup seen[r].prolonged
    BY <2>1 DEF KnownOf, Selecting
  <2>3. req'[r].target \in req[r].in /\ req'[r].target.service_id \in req[r].in
    BY <2>1, ChosenOfOffered
  <2> QED
    BY <2>2, <2>3
<1> QED
  BY <1>1, InferenceCorrect, PTL DEF Spec, TargetWasIn

\* What a request passes over was out at some moment since it came, the service
\* or the key (evaluateAvailability, chooseAffinityCandidate).
THEOREM NoneInPassedOver == Spec => PassesOverOnlyOut
<1> DEFINE Passes(r) ==
      Decides(r) =>
        \A p \in Pairs(Route) :
          \/ /\ req'[r].pc = "fetching"
             /\ ~\E q \in Pairs(Route) : /\ Target(q.service, q.key) = req'[r].target
                                         /\ Outranks(p, q)
          \/ {p.service.service_id, Target(p.service, p.key)} \cap seen[r].out # {}
<1>1. InferenceInv /\ [Next]_vars => [\A r \in Requests : Passes(r)]_vars
  <2> SUFFICES ASSUME InferenceInv, Next, NEW r \in Requests, Decides(r), NEW p \in Pairs(Route),
                      {p.service.service_id, Target(p.service, p.key)} \cap seen[r].out = {}
               PROVE  /\ req'[r].pc = "fetching"
                      /\ ~\E q \in Pairs(Route) : /\ Target(q.service, q.key) = req'[r].target
                                                  /\ Outranks(p, q)
    OBVIOUS
  <2> DEFINE in == req[r].in
  <2>1. /\ req[r].pc = "choosing" /\ KnownOf(r)
        /\ req[r].left = {} /\ OnTheWay(req[r].answers) = {}
        /\ \/ Offered(in) = <<>> /\ req'[r].pc = "done"
           \/ req'[r].pc = "fetching" /\ req'[r].target \in Choices(Offered(in))
    BY DecidesForms
  <2>2. /\ \A s \in RoutedServices : s \in in \cup seen[r].out
        /\ KeysOf(in) \subseteq in \cup seen[r].out
    BY <2>1 DEF KnownOf, Selecting
  <2> HIDE DEF in
  <2>3. /\ Target(p.service, p.key) \in Targets
        /\ Target(p.service, p.key).service_id = p.service.service_id
        /\ p.service.service_id \in RoutedServices
    BY ObjectNames DEF Targets, Target
  <2>4. p.service.service_id \in in
    BY <2>2, <2>3
  <2>5. Target(p.service, p.key) \in in
    BY <2>2, <2>3, <2>4 DEF KeysOf
  <2>6. Offered(in) # <<>>
    BY <2>4, <2>5, NothingOffered
  <2>7. req'[r].pc = "fetching" /\ req'[r].target \in Choices(Offered(in))
    BY <2>1, <2>6
  <2> QED
    BY <2>4, <2>5, <2>7, ChosenOfOffered
<1> QED
  BY <1>1, InferenceCorrect, PTL DEF Spec, PassesOverOnlyOut

\* Whatever the requests do, the health objects behind them behave as those of
\* ServiceHealth, whose theorems hold of them (scheduleHealthUpdate,
\* evaluateAvailability).
THEOREM ImplementsHealth == Spec => Health!Spec
<1>1. Init => Health!Init
  BY DEF Init
<1>2. InferenceInv /\ [Next]_vars => [Health!Next]_(Health!vars)
  <2> SUFFICES ASSUME InferenceInv, [Next]_vars PROVE Health!Next \/ UNCHANGED Health!vars
    OBVIOUS
  <2>1. CASE UNCHANGED vars
    BY <2>1 DEF vars, health, Health!vars
  <2>2. ASSUME UNCHANGED health PROVE UNCHANGED Health!vars
    BY <2>2 DEF health, Health!vars
  <2>3. ASSUME NEW r \in Requests,
               \/ Arrive(r) \/ Refuse(r) \/ Choose(r)
               \/ \E result \in Results : Answer(r, result)
        PROVE  UNCHANGED health
    BY <2>3 DEF Arrive, Refuse, Choose, Answer
  <2>4. ASSUME NEW r \in Requests,
               \/ \E o \in Objects : Read(r, o)
               \/ \E answer \in req[r].answers : Judge(r, answer)
        PROVE  UNCHANGED health \/ \E o \in Objects : Health!GetStatus(o)
    BY <2>4 DEF Read, Judge
  <2>5. ASSUME NEW u \in updates, Apply(u)
        PROVE  \/ UNCHANGED health
               \/ \E s \in RoutedServices : Health!RecordSuccess(s) \/ Health!RecordFailure(s)
               \/ \E k \in Targets : Health!RecordImmediateFailure(k)
    <3>1. u.object \in IF u.kind = "key_failure" THEN Targets ELSE RoutedServices
      BY DEF InferenceInv, Reports
    <3> QED
      BY <2>5, <3>1 DEF Apply
  <2> QED
    BY <2>1, <2>2, <2>3, <2>4, <2>5, ObjectNames
       DEF Next, Step, Clear, Tick, Health!Next
<1> QED
  BY <1>1, <1>2, InferenceCorrect, PTL DEF Spec, Health!Spec
=============================================================================
