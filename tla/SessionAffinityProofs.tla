----------------------- MODULE SessionAffinityProofs ------------------------
(***************************************************************************)
(* The safety properties of SessionAffinity for every set of offers, tasks *)
(* and requests, and every bound.                                          *)
(***************************************************************************)
EXTENDS SessionAffinity, ArraysProofs

\* The lemmas on the choices, which say nothing of the variables they come with.
Choice == INSTANCE StickyRoutingProofs WITH
  Offers <- {}, bound <- None, candidates <- <<>>, preferred <- None, status <- "start"

\* They are about the operators of this module.
LEMMA SameChoices ==
  ASSUME NEW cs
  PROVE  /\ Choice!IsCandidateList(cs) <=> IsCandidateList(cs)
         /\ Choice!AffinitySelection = AffinitySelection
         /\ Choice!Pairs(cs) = Pairs(cs)
         /\ Choice!Choices(cs) = Choices(cs)
         /\ Choice!Best(cs) = Best(cs)
         /\ \A p : Choice!choosePreferredOrRandom(cs, p) = choosePreferredOrRandom(cs, p)
         /\ \A s, p : Choice!resolveStoredAffinity(s, cs, p) = resolveStoredAffinity(s, cs, p)
         /\ \A s, d : Choice!Decision(s, d) = Decision(s, d)
         /\ None \notin Choice!AffinityKeyCandidate \cup Choice!AffinityServiceCandidate
                          \cup Choice!AffinitySelection
<1>1. /\ Choice!AffinitySelection = AffinitySelection
      /\ Choice!AffinityKeyCandidate = AffinityKeyCandidate
      /\ Choice!AffinityServiceCandidate = AffinityServiceCandidate
  BY DEF Choice!AffinitySelection, AffinitySelection, Choice!AffinityKeyCandidate,
         AffinityKeyCandidate, Choice!AffinityServiceCandidate, AffinityServiceCandidate
<1>2. Choice!IsCandidateList(cs) <=> IsCandidateList(cs)
  BY <1>1 DEF Choice!IsCandidateList, IsCandidateList
<1>3. /\ \A s, k : Choice!Target(s, k) = Target(s, k)
      /\ \A s, l : Choice!IsTopService(s, l) = IsTopService(s, l)
      /\ \A k, l : Choice!IsTopKey(k, l) = IsTopKey(k, l)
      /\ \A l : Choice!First(l) = First(l)
      /\ \A s, d : Choice!Decision(s, d) = Decision(s, d)
      /\ \A l, id : Choice!FindService(l, id) = FindService(l, id)
      /\ \A s, id : Choice!FindKey(s, id) = FindKey(s, id)
  BY DEF Choice!Target, Target, Choice!IsTopService, IsTopService, Choice!IsTopKey, IsTopKey,
         Choice!First, First, Choice!Decision, Decision, Choice!FindService, FindService,
         Choice!FindKey, FindKey
<1>4. Choice!Pairs(cs) = Pairs(cs) /\ \A p, q : Choice!Outranks(p, q) = Outranks(p, q)
  BY DEF Choice!Pairs, Pairs, Choice!Outranks, Outranks
<1>5. \A l : Choice!TiedServices(l) = TiedServices(l) /\ Choice!TiedKeys(l) = TiedKeys(l)
  BY DEF Choice!TiedServices, TiedServices, Choice!TiedKeys, TiedKeys,
         Choice!IsTopService, IsTopService, Choice!IsTopKey, IsTopKey
<1>6. Choice!Choices(cs) = Choices(cs)
  BY DEF Choice!Choices, Choices, Choice!TiedServices, TiedServices, Choice!TiedKeys, TiedKeys,
         Choice!IsTopService, IsTopService, Choice!IsTopKey, IsTopKey, Choice!Target, Target
<1>7. Choice!Best(cs) = Best(cs)
  BY DEF Choice!Best, Best, Choice!Pairs, Pairs, Choice!Outranks, Outranks, Choice!Target, Target
<1>8. \A l : Choice!chooseAffinityCandidate(l) = chooseAffinityCandidate(l)
  BY <1>3, <1>5 DEF Choice!chooseAffinityCandidate, chooseAffinityCandidate
<1>9. \A p : Choice!choosePreferredOrRandom(cs, p) = choosePreferredOrRandom(cs, p)
  BY <1>3, <1>8 DEF Choice!choosePreferredOrRandom, choosePreferredOrRandom,
     Choice!affinitySelectionIsHighestPriority, affinitySelectionIsHighestPriority
<1>10. \A s, p : Choice!choosePreferredOrRandomWithinService(s, p) =
                   choosePreferredOrRandomWithinService(s, p)
  BY <1>3, <1>8 DEF Choice!choosePreferredOrRandomWithinService, choosePreferredOrRandomWithinService
<1>11. \A s, p : Choice!resolveStoredAffinity(s, cs, p) = resolveStoredAffinity(s, cs, p)
  BY <1>3, <1>9, <1>10 DEF Choice!resolveStoredAffinity, resolveStoredAffinity
<1> QED
  BY <1>1, <1>2, <1>3, <1>4, <1>6, <1>7, <1>9, <1>11, AffinityAssumption

\* What the lemmas say of a list of candidates: a preference is replaced by one
\* of its best targets, and a stored target is kept exactly when it is one.
LEMMA Resolved ==
  ASSUME NEW cs, IsCandidateList(cs), NEW p \in AffinitySelection \cup {None}
  PROVE  /\ Best(cs) \subseteq AffinitySelection /\ None \notin Best(cs)
         /\ Choices(cs) = Best(cs)
         /\ choosePreferredOrRandom(cs, p) \in Best(cs) \cup {None}
         /\ \A stored \in AffinitySelection :
              LET d == resolveStoredAffinity(stored, cs, p)
              IN IF stored \in Best(cs) THEN d = Decision(stored, "hit")
                 ELSE d.status = "rebound" /\ d.selection \in Best(cs) \cup {None}
<1>1. Choice!IsCandidateList(cs) /\ p \in Choice!AffinitySelection \cup {None}
  BY SameChoices
<1>2. Choice!Best(cs) \subseteq Choice!AffinitySelection /\ None \notin Choice!Best(cs)
  BY <1>1, SameChoices, Choice!BestAreSelections
<1>3. Choice!Choices(cs) = Choice!Best(cs)
  BY <1>1, SameChoices, Choice!ChoicesAreBest
<1>4. /\ Choice!Pairs(cs) # {} => Choice!choosePreferredOrRandom(cs, p) \in Choice!Best(cs)
      /\ Choice!Pairs(cs) = {} => Choice!choosePreferredOrRandom(cs, p) = None
  BY <1>1, SameChoices, Choice!PreferenceOrBest
<1>5. ASSUME NEW stored \in Choice!AffinitySelection
      PROVE  LET d == Choice!resolveStoredAffinity(stored, cs, p)
             IN IF stored \in Choice!Best(cs) THEN d = Choice!Decision(stored, "hit")
                ELSE d.status = "rebound" /\ d.selection \in Choice!Best(cs) \cup {None}
  <2> DEFINE d == Choice!resolveStoredAffinity(stored, cs, p)
             within == {q \in Choice!Best(cs) : q.service_id = stored.service_id}
             lostKey == ~\E q \in Choice!Pairs(cs) : Choice!Target(q.service, q.key) = stored
  <2>1. /\ stored \in Choice!Best(cs) => d = Choice!Decision(stored, "hit")
        /\ stored \notin Choice!Best(cs) => d.status = "rebound"
    BY <1>1, SameChoices, Choice!KeepsBest
  <2>2. CASE Choice!Pairs(cs) = {}
    <3>1. d = Choice!Decision(None, "rebound")
      BY <1>1, <2>2, SameChoices, Choice!MovesNowhere
    <3> QED
      BY <1>2, <2>1, <3>1 DEF Choice!Decision
  <2>3. CASE Choice!Pairs(cs) # {}
    <3>1. stored \notin Choice!Best(cs) =>
            d.selection \in IF lostKey \/ within = {} THEN Choice!Best(cs) ELSE within
      BY <1>1, <2>3, SameChoices, Choice!MovesToBest
    <3> QED
      BY <2>1, <3>1
  <2> QED
    BY <2>2, <2>3
<1> QED
  BY <1>2, <1>3, <1>4, <1>5, SameChoices

\* What tasks and requests are made of.
LEMMA TaskTypes ==
  /\ IdleTask \in Task
  /\ IdleRequest \in Request
  /\ \A e \in IndexEntry, n \in 0 .. Attempts - 1 : RegisterTask(e, n) \in Task
  /\ \A e \in IndexEntry, c \in IndexEntry \cup {None} : UnregisterTask(e, c) \in Task
<1>1. 0 \in 0 .. Attempts - 1
  BY SessionAssumption
<1> QED
  BY <1>1, SessionAssumption DEF IdleTask, IdleRequest, RegisterTask, UnregisterTask, Task, Request

LEMMA EntryTyped ==
  \A r \in SessionAffinityRecord : Entry(r) \in IndexEntry
BY DEF SessionAffinityRecord, Entry, IndexEntry

LEMMA ObsoleteTyped ==
  ASSUME TypeOK
  PROVE  Obsolete \in IndexEntry \cup {None}
BY EntryTyped DEF TypeOK, Obsolete

LEMMA BecomeTyped ==
  ASSUME TypeOK, NEW t \in Tasks, NEW task \in Task, Become(t, task)
  PROVE  tasks' \in [Tasks -> Task]
BY DEF TypeOK, Become

LEMMA ScheduleTyped ==
  ASSUME TypeOK, NEW t \in Tasks,
         NEW obsolete \in IndexEntry \cup {None}, NEW candidate \in IndexEntry \cup {None},
         Schedule(t, obsolete, candidate)
  PROVE  tasks' \in [Tasks -> Task]
<1>0. 0 \in 0 .. Attempts - 1
  BY SessionAssumption
<1>1. CASE obsolete = None /\ candidate = None
  BY <1>1 DEF Schedule, TypeOK
<1>2. CASE obsolete = None /\ candidate # None
  <2>1. RegisterTask(candidate, 0) \in Task
    BY <1>0, <1>2, TaskTypes
  <2> QED
    BY <1>2, <2>1 DEF Schedule, TypeOK
<1>3. CASE obsolete # None
  <2>1. UnregisterTask(obsolete, candidate) \in Task
    BY <1>3, TaskTypes
  <2> QED
    BY <1>3, <2>1 DEF Schedule, TypeOK
<1> QED
  BY <1>1, <1>2, <1>3

\* A hit keeps the target of a live record, and a live record is replaced only
\* by one of another target.
LEMMA Decisions ==
  ASSUME TypeOK, NEW cs \in Offers, NEW p \in Preferences(cs)
  PROVE  LET d == Decided(cs, p)
         IN /\ d.selection \in AffinitySelection \cup {None}
            /\ d.status = "hit" => Active /\ d.selection = record.target
            /\ Active /\ d.status # "hit" => d.selection # record.target
<1> DEFINE d == Decided(cs, p)
<1>1. IsCandidateList(cs)
  BY SessionAssumption
<1>2. p \in AffinitySelection \cup {None}
  BY <1>1, Resolved DEF Preferences
<1>3. CASE ~Active
  <2>1. d = Decision(choosePreferredOrRandom(cs, p), "created")
    BY <1>3 DEF Decided
  <2> QED
    BY <1>1, <1>2, <1>3, <2>1, Resolved DEF Decision
<1>4. CASE Active
  <2>1. record \in SessionAffinityRecord /\ record.target \in AffinitySelection
    BY <1>4 DEF Active, TypeOK, SessionAffinityRecord
  <2>2. d = resolveStoredAffinity(record.target, cs, p)
    BY <1>4 DEF Decided
  <2>3. LET e == resolveStoredAffinity(record.target, cs, p)
        IN IF record.target \in Best(cs) THEN e = Decision(record.target, "hit")
           ELSE e.status = "rebound" /\ e.selection \in Best(cs) \cup {None}
    BY <1>1, <1>2, <2>1, Resolved
  <2>4. Best(cs) \subseteq AffinitySelection /\ record.target # None
    BY <1>1, <1>2, <2>1, Resolved, AffinityAssumption
  <2> HIDE DEF d
  <2>5. CASE record.target \in Best(cs)
    <3>1. d.status = "hit" /\ d.selection = record.target
      BY <2>2, <2>3, <2>5 DEF Decision
    <3> QED
      BY <1>4, <2>1, <3>1 DEF d
  <2>6. CASE record.target \notin Best(cs)
    <3>1. d.status = "rebound" /\ d.selection \in Best(cs) \cup {None}
      BY <2>2, <2>3, <2>6
    <3> QED
      BY <2>4, <2>6, <3>1 DEF d
  <2> QED
    BY <2>5, <2>6 DEF d
<1> QED
  BY <1>3, <1>4
-----------------------------------------------------------------------------
LEMMA InitTyped == Init => TypeOK
<1> SUFFICES ASSUME Init PROVE TypeOK
  OBVIOUS
<1>1. tasks \in [Tasks -> Task] /\ requests \in [Requests -> Request]
  BY TaskTypes DEF Init
<1> QED
  BY <1>1 DEF Init, TypeOK

\* The alarm keeps its type.
LEMMA AlarmTyped ==
  ASSUME TypeOK, NEW at \in Nat \cup {NoAlarm}, UpdateAlarm(at)
  PROVE  alarm' \in Nat \cup {NoAlarm}
BY DEF TypeOK, UpdateAlarm

LEMMA HitTyped ==
  ASSUME TypeOK, NEW cs \in Offers, NEW p \in Preferences(cs), NEW t \in Tasks, Hit(cs, p, t)
  PROVE  TypeOK' /\ record' \in SessionAffinityRecord
<1> DEFINE candidate == IF record.index_registered THEN None ELSE Entry(record)
<1>1. record \in SessionAffinityRecord /\ now \in Nat /\ now + TTL \in Nat
  BY Decisions, SessionAssumption DEF Hit, TypeOK, Active
<1>2. record'.target = record.target /\ record' \in SessionAffinityRecord
  BY <1>1, Decisions DEF Hit, SessionAffinityRecord
<1>3. candidate \in IndexEntry \cup {None}
  BY <1>1, EntryTyped
<1>4. tasks' \in [Tasks -> Task]
  BY <1>3, ScheduleTyped DEF Hit
<1>5. alarm' \in Nat \cup {NoAlarm}
  BY <1>1, AlarmTyped DEF Hit
<1> QED
  BY <1>2, <1>4, <1>5 DEF Hit, TypeOK

LEMMA BindTyped ==
  ASSUME TypeOK, NEW cs \in Offers, NEW p \in Preferences(cs), NEW t \in Tasks, Bind(cs, p, t)
  PROVE  TypeOK' /\ record' \in SessionAffinityRecord
<1>1. now \in Nat /\ now + TTL \in Nat /\ issued \in Nat
  BY SessionAssumption DEF TypeOK, Bindings
<1>2. issued + 1 \in Bindings
  BY <1>1, SessionAssumption DEF Bind, Bindings
<1>3. NextGeneration \in Generations
  <2>1. CASE record = NoRecord
    BY <2>1, SessionAssumption DEF NextGeneration, Generations
  <2>2. CASE record # NoRecord
    <3>1. record.generation \in Generations
      BY <2>2 DEF TypeOK, SessionAffinityRecord
    <3> QED
      BY <2>2, <3>1, SessionAssumption DEF Bind, Exhausted, NextGeneration, Generations
  <2> QED
    BY <2>1, <2>2
<1>4. Decided(cs, p).selection \in AffinitySelection
  BY Decisions DEF Bind
<1>5. record' \in SessionAffinityRecord
  BY <1>1, <1>2, <1>3, <1>4 DEF Bind, SessionAffinityRecord
<1>6. Entry(record') \in IndexEntry
  BY <1>5, EntryTyped
<1>7. tasks' \in [Tasks -> Task]
  BY <1>6, ObsoleteTyped, ScheduleTyped DEF Bind
<1>8. alarm' \in Nat \cup {NoAlarm}
  BY <1>1, AlarmTyped DEF Bind
<1>9. issued' \in {0} \cup Bindings /\ restarted' \in BOOLEAN
  BY <1>2 DEF Bind, TypeOK
<1> QED
  BY <1>5, <1>7, <1>8, <1>9 DEF Bind, TypeOK

LEMMA UnroutableTyped ==
  ASSUME TypeOK, NEW cs \in Offers, NEW p \in Preferences(cs), NEW t \in Tasks,
         Unroutable(cs, p, t)
  PROVE  TypeOK'
<1>1. tasks' \in [Tasks -> Task]
  BY ObsoleteTyped, ScheduleTyped DEF Unroutable
<1>2. alarm' \in Nat \cup {NoAlarm}
  BY AlarmTyped DEF Unroutable
<1> QED
  BY <1>1, <1>2 DEF Unroutable, TypeOK

LEMMA AlarmStepTyped ==
  ASSUME TypeOK, NEW t \in Tasks, Alarm(t)
  PROVE  TypeOK'
<1>1. CASE record # NoRecord /\ ~Expired
  <2>1. record.updated_at + TTL \in Nat
    BY <1>1, SessionAssumption DEF TypeOK, SessionAffinityRecord
  <2> QED
    BY <1>1, <2>1 DEF Alarm, TypeOK
<1>2. CASE ~(record # NoRecord /\ ~Expired)
  <2>1. tasks' \in [Tasks -> Task]
    BY <1>2, ObsoleteTyped, ScheduleTyped DEF Alarm
  <2> QED
    BY <1>2, <2>1 DEF Alarm, TypeOK
<1> QED
  BY <1>1, <1>2

\* Marking a record, and moving its generation, do not touch its binding.
LEMMA RecordKept ==
  ASSUME TypeOK, NEW t \in Tasks, Confirm(t) \/ Bump(t)
  PROVE  \/ record' = record
         \/ /\ record \in SessionAffinityRecord
            /\ record' \in SessionAffinityRecord
            /\ record'.binding_id = record.binding_id
            /\ record'.target = record.target
            /\ record'.updated_at = record.updated_at
<1> DEFINE Changed(g, b) == [record EXCEPT !.generation = g, !.index_registered = b]
<1>1. ASSUME record # NoRecord, NEW g \in Generations, NEW b \in BOOLEAN
      PROVE  /\ record \in SessionAffinityRecord
             /\ Changed(g, b) \in SessionAffinityRecord
             /\ Changed(g, b).binding_id = record.binding_id
             /\ Changed(g, b).target = record.target
             /\ Changed(g, b).updated_at = record.updated_at
  BY <1>1 DEF TypeOK, SessionAffinityRecord
<1>2. record # NoRecord => record \in SessionAffinityRecord /\ record.generation \in Generations
  BY DEF TypeOK, SessionAffinityRecord
<1>3. CASE Confirm(t) /\ Holds(tasks[t].candidate)
  <2>1. record # NoRecord /\ record' = [record EXCEPT !.index_registered = TRUE]
    BY <1>3 DEF Confirm, Holds
  <2>2. record' = Changed(record.generation, TRUE)
    BY <1>2, <2>1 DEF SessionAffinityRecord
  <2> DEFINE g == record.generation
  <2>3. g \in Generations
    BY <1>2, <2>1
  <2> HIDE DEF Changed, g
  <2>4. /\ record \in SessionAffinityRecord
        /\ Changed(g, TRUE) \in SessionAffinityRecord
        /\ Changed(g, TRUE).binding_id = record.binding_id
        /\ Changed(g, TRUE).target = record.target
        /\ Changed(g, TRUE).updated_at = record.updated_at
    BY <1>1, <2>1, <2>3
  <2> QED
    BY <2>2, <2>4 DEF g
<1>4. CASE Bump(t) /\ record' # record
  <2> DEFINE seen == tasks[t].seen
  <2>1. record # NoRecord /\ ~Exhausted(Bumped(seen)) /\ record' = Changed(Bumped(seen) + 1, FALSE)
    BY <1>4 DEF Bump
  <2>2. seen \in {0} \cup Generations
    BY DEF TypeOK, Task
  <2>3. Bumped(seen) \in {0} \cup Generations
    BY <1>2, <2>1, <2>2 DEF Bumped
  <2>4. Bumped(seen) + 1 \in Generations
    BY <2>1, <2>3, SessionAssumption DEF Exhausted, Generations
  <2> HIDE DEF Changed, seen
  <2> QED
    BY <1>1, <2>1, <2>4
<1> QED
  BY <1>3, <1>4 DEF Confirm

LEMMA TaskTyped ==
  ASSUME TypeOK, NEW t \in Tasks, TaskStep(t)
  PROVE  TypeOK'
<1> DEFINE task == tasks[t]
<1>1. task \in Task
  BY DEF TypeOK
<1>2. /\ task.obsolete \in IndexEntry \cup {None}
      /\ task.candidate \in IndexEntry \cup {None}
      /\ task.attempt \in 0 .. Attempts - 1
  BY <1>1 DEF Task
<1>3. 0 \in 0 .. Attempts - 1
  BY SessionAssumption
<1>4. row \in IndexEntry \cup {None}
  BY DEF TypeOK
<1>5. CASE Unregister(t)
  <2>1. (IF task.candidate = None THEN IdleTask ELSE RegisterTask(task.candidate, 0)) \in Task
    BY <1>2, <1>3, TaskTypes
  <2>2. tasks' \in [Tasks -> Task]
    BY <1>5, <2>1, BecomeTyped DEF Unregister
  <2>3. row' \in IndexEntry \cup {None}
    BY <1>4, <1>5 DEF Unregister, Removed
  <2> QED
    BY <1>5, <2>2, <2>3 DEF Unregister, TypeOK, object
<1>6. CASE Register(t)
  <2> DEFINE indexed == Registered(task.candidate)
             result == IF indexed = task.candidate
                       THEN [task EXCEPT !.pc = "confirm"]
                       ELSE IF indexed.generation < task.candidate.generation
                       THEN IdleTask
                       ELSE [task EXCEPT !.pc = "bump", !.seen = indexed.generation]
  <2>1. task.candidate \in IndexEntry
    BY <1>1, <1>6 DEF Register, Task
  <2>2. indexed \in IndexEntry
    BY <1>4, <2>1 DEF Registered
  <2>3. indexed.generation \in Generations
    BY <2>2 DEF IndexEntry
  <2> HIDE DEF indexed
  <2>4. [task EXCEPT !.pc = "confirm"] \in Task
    BY <1>1, <2>1, SessionAssumption DEF Task
  <2>5. [task EXCEPT !.pc = "bump", !.seen = indexed.generation] \in Task
    BY <1>1, <2>1, <2>3, SessionAssumption DEF Task
  <2>6. Become(t, result) /\ row' = indexed
    BY <1>6 DEF Register, indexed
  <2>7. result \in Task
    BY <2>4, <2>5, TaskTypes
  <2> HIDE DEF result
  <2>8. tasks' \in [Tasks -> Task]
    BY <2>6, <2>7, BecomeTyped
  <2> QED
    BY <1>6, <2>2, <2>6, <2>8 DEF Register, TypeOK, object
<1>7. CASE Confirm(t)
  <2>1. [task EXCEPT !.pc = "discard"] \in Task
    BY <1>1, <1>7 DEF Confirm, Task
  <2>2. tasks' \in [Tasks -> Task]
    BY <1>7, <2>1, TaskTypes, BecomeTyped DEF Confirm
  <2>3. record' \in SessionAffinityRecord \cup {NoRecord}
    BY <1>7, RecordKept DEF TypeOK
  <2> QED
    BY <1>7, <2>2, <2>3 DEF Confirm, TypeOK
<1>8. CASE Bump(t)
  <2> DEFINE next == [record EXCEPT !.generation = Bumped(task.seen) + 1, !.index_registered = FALSE]
             bumps == /\ record # NoRecord
                      /\ record.binding_id = task.candidate.binding_id
                      /\ ~Exhausted(Bumped(task.seen))
  <2>1. CASE bumps
    <3>1. /\ record' = next
          /\ Become(t, IF task.attempt + 1 = Attempts THEN IdleTask
                       ELSE RegisterTask(Entry(next), task.attempt + 1))
      BY <1>8, <2>1 DEF Bump
    <3>2. next \in SessionAffinityRecord
      BY <1>8, <2>1, <3>1, RecordKept DEF TypeOK
    <3>3. Entry(next) \in IndexEntry
      BY <3>2, EntryTyped
    <3> HIDE DEF next
    <3>4. task.attempt + 1 # Attempts => task.attempt + 1 \in 0 .. Attempts - 1
      BY <1>2, SessionAssumption
    <3>5. (IF task.attempt + 1 = Attempts THEN IdleTask
           ELSE RegisterTask(Entry(next), task.attempt + 1)) \in Task
      BY <3>3, <3>4, TaskTypes
    <3>6. tasks' \in [Tasks -> Task]
      BY <3>1, <3>5, BecomeTyped
    <3> QED
      BY <1>8, <3>1, <3>2, <3>6 DEF Bump, TypeOK
  <2>2. CASE ~bumps
    <3>1. [task EXCEPT !.pc = "discard"] \in Task
      BY <1>1, <1>8 DEF Bump, Task
    <3>2. Become(t, [task EXCEPT !.pc = "discard"]) /\ UNCHANGED record
      BY <1>8, <2>2 DEF Bump
    <3>3. tasks' \in [Tasks -> Task]
      BY <3>1, <3>2, BecomeTyped
    <3> QED
      BY <1>8, <3>2, <3>3 DEF Bump, TypeOK
  <2> QED
    BY <2>1, <2>2
<1>9. CASE Discard(t)
  <2>1. tasks' \in [Tasks -> Task]
    BY <1>9, TaskTypes, BecomeTyped DEF Discard
  <2>2. row' \in IndexEntry \cup {None}
    BY <1>4, <1>9 DEF Discard, Removed
  <2> QED
    BY <1>9, <2>1, <2>2 DEF Discard, TypeOK, object
<1> QED
  BY <1>5, <1>6, <1>7, <1>8, <1>9 DEF TaskStep

LEMMA LoseTyped ==
  ASSUME TypeOK, NEW t \in Tasks, Lose(t)
  PROVE  TypeOK'
<1>1. tasks' \in [Tasks -> Task]
  BY TaskTypes, BecomeTyped DEF Lose
<1> QED
  BY <1>1 DEF Lose, TypeOK, object
\* What a request turns into.
LEMMA RequestBecomes ==
  ASSUME TypeOK, NEW q \in Requests, NEW request \in Request,
         requests' = [requests EXCEPT ![q] = request]
  PROVE  requests' \in [Requests -> Request]
BY DEF TypeOK

LEMMA ProceedTyped ==
  ASSUME TypeOK, NEW q \in Requests, NEW entry \in IndexEntry, Proceed(q, entry)
  PROVE  requests' \in [Requests -> Request]
<1>1. [pc |-> "remove", entry |-> entry, upto |-> 0] \in Request
  BY SessionAssumption DEF Request
<1> QED
  BY <1>1, RequestBecomes DEF Proceed

LEMMA EndTyped ==
  ASSUME TypeOK, NEW q \in Requests, EndRequest(q)
  PROVE  requests' \in [Requests -> Request]
BY TaskTypes, RequestBecomes DEF EndRequest

LEMMA ArriveTyped ==
  ASSUME TypeOK, NEW q \in Requests, List(q) \/ ClearAll(q) \/ ClearOne(q)
  PROVE  TypeOK'
<1>1. PICK pc \in {"status", "clear_page", "clear_one", "clear_managed"}, upto \in {0, issued} :
        Arrive(q, pc, row, upto) /\ (pc # "clear_managed" => row # None)
  BY DEF List, ClearAll, ClearOne
<1>2. [pc |-> pc, entry |-> row, upto |-> upto] \in Request
  BY <1>1 DEF TypeOK, Request
<1>3. requests' \in [Requests -> Request]
  BY <1>1, <1>2, RequestBecomes DEF Arrive
<1> QED
  BY <1>1, <1>3 DEF Arrive, TypeOK, object

LEMMA RequestTyped ==
  ASSUME TypeOK, NEW q \in Requests, RequestStep(q) \/ Abort(q)
  PROVE  TypeOK'
<1>1. requests[q] \in Request
  BY DEF TypeOK
<1>2. requests[q].pc \in {"status", "clear_one", "clear_page", "remove"} =>
        requests[q].entry \in IndexEntry
  BY <1>1 DEF Request
<1>3. CASE GetStatus(q)
  <2>1. requests' \in [Requests -> Request]
    BY <1>2, <1>3, EndTyped, ProceedTyped DEF GetStatus
  <2> QED
    BY <1>3, <2>1 DEF GetStatus, TypeOK, object
<1>4. CASE ClearIfBindingId(q)
  <2>1. requests' \in [Requests -> Request]
    BY <1>2, <1>4, ProceedTyped DEF ClearIfBindingId
  <2> QED
    BY <1>4, <2>1 DEF ClearIfBindingId, Delete, TypeOK, object
<1>5. CASE ClearManaged(q)
  <2>1. record # NoRecord => Entry(record) \in IndexEntry
    BY EntryTyped DEF TypeOK
  <2>2. requests' \in [Requests -> Request]
    BY <1>5, <2>1, EndTyped, ProceedTyped DEF ClearManaged
  <2> QED
    BY <1>5, <2>2 DEF ClearManaged, Delete, TypeOK, object
<1>6. CASE RemoveRow(q)
  <2>1. requests' \in [Requests -> Request]
    BY <1>6, EndTyped DEF RemoveRow
  <2>2. row' \in IndexEntry \cup {None}
    BY <1>6 DEF RemoveRow, Removed, TypeOK
  <2> QED
    BY <1>6, <2>1, <2>2 DEF RemoveRow, TypeOK, object
<1>7. CASE Abort(q)
  <2>1. requests' \in [Requests -> Request]
    BY <1>7, EndTyped DEF Abort
  <2> QED
    BY <1>7, <2>1 DEF Abort, TypeOK, object
<1> QED
  BY <1>3, <1>4, <1>5, <1>6, <1>7 DEF RequestStep

LEMMA TickTyped ==
  ASSUME TypeOK, Tick
  PROVE  TypeOK'
BY DEF Tick, TypeOK, object

LEMMA NextTyped == TypeOK /\ [Next]_vars => TypeOK'
<1> SUFFICES ASSUME TypeOK, [Next]_vars PROVE TypeOK'
  OBVIOUS
<1>1. ASSUME NEW cs \in Offers, NEW p \in Preferences(cs), NEW t \in Tasks,
             Hit(cs, p, t) \/ Bind(cs, p, t) \/ Unroutable(cs, p, t)
      PROVE  TypeOK'
  BY <1>1, HitTyped, BindTyped, UnroutableTyped
<1>2. ASSUME NEW t \in Tasks, Alarm(t) \/ TaskStep(t) \/ Lose(t) PROVE TypeOK'
  BY <1>2, AlarmStepTyped, TaskTyped, LoseTyped
<1>3. ASSUME NEW q \in Requests,
             List(q) \/ ClearAll(q) \/ ClearOne(q) \/ RequestStep(q) \/ Abort(q)
      PROVE  TypeOK'
  BY <1>3, ArriveTyped, RequestTyped
<1>4. CASE UNCHANGED vars
  BY <1>4 DEF vars, TypeOK
<1> QED
  BY <1>1, <1>2, <1>3, <1>4, TickTyped DEF Next

\* Every reachable state has its type, whatever fails and whoever races; with it
\* no index task or request loses the entry it works for (ensureIndexed,
\* clearIndexedEntry), and no generation leaves the safe integers
\* (nextBindingGeneration).
THEOREM TypeCorrect == Spec => []TypeOK
BY InitTyped, NextTyped, PTL DEF Spec
-----------------------------------------------------------------------------
\* The bindings of the records.
LEMMA ShownBinding ==
  ASSUME TypeOK
  PROVE  /\ record = NoRecord <=> Shown = NoRecord
         /\ record # NoRecord =>
              /\ Shown = [id |-> record.binding_id, target |-> record.target,
                          until |-> record.updated_at + TTL]
              /\ record \in SessionAffinityRecord
              /\ record.updated_at + TTL \in Nat
         /\ Active <=> BindingSpec!Alive
<1>1. ASSUME record # NoRecord
      PROVE  /\ record \in SessionAffinityRecord
             /\ record.updated_at + TTL \in Nat
             /\ [id |-> record.binding_id, target |-> record.target,
                 until |-> record.updated_at + TTL]
                   \in [id : Bindings, target : AffinitySelection, until : Nat]
  BY <1>1, SessionAssumption DEF TypeOK, SessionAffinityRecord
<1>2. record # NoRecord => Shown # NoRecord
  BY <1>1, SessionAssumption DEF Shown
<1>3. now \in Nat
  BY DEF TypeOK
<1> QED
  BY <1>1, <1>2, <1>3 DEF Shown, Active, Expired, BindingSpec!Alive

LEMMA DropImplements ==
  ASSUME TypeOK, record' = NoRecord, UNCHANGED <<now, issued>>
  PROVE  BindingSpec!Drop \/ UNCHANGED <<now, Shown, issued>>
BY ShownBinding DEF BindingSpec!Drop, Shown

LEMMA HitImplements ==
  ASSUME TypeOK, NEW cs \in Offers, NEW p \in Preferences(cs), NEW t \in Tasks, Hit(cs, p, t)
  PROVE  BindingSpec!Renew
<1>1. Active /\ Decided(cs, p).selection = record.target
  BY Decisions DEF Hit
<1>2. record \in SessionAffinityRecord /\ record # NoRecord
  BY <1>1, ShownBinding DEF Active
<1>3. record' = [record EXCEPT !.target = record.target, !.updated_at = now]
  BY <1>1 DEF Hit
<1>4. /\ record' \in SessionAffinityRecord
      /\ record'.binding_id = record.binding_id
      /\ record'.target = record.target
      /\ record'.updated_at = now
  BY <1>2, <1>3 DEF TypeOK, SessionAffinityRecord
<1>5. record' # NoRecord
  BY <1>4, SessionAssumption
<1>6. Shown' = [Shown EXCEPT !.until = now + TTL]
  BY <1>2, <1>4, <1>5 DEF Shown
<1> QED
  BY <1>1, <1>6, ShownBinding DEF BindingSpec!Renew, Hit

LEMMA BindImplements ==
  ASSUME TypeOK, NEW cs \in Offers, NEW p \in Preferences(cs), NEW t \in Tasks, Bind(cs, p, t)
  PROVE  BindingSpec!Bind
<1> DEFINE target == Decided(cs, p).selection
<1>1. target \in AffinitySelection /\ (Active => target # record.target)
  BY Decisions DEF Bind
<1>2. /\ record' \in SessionAffinityRecord
      /\ record'.binding_id = issued + 1
      /\ record'.target = target
      /\ record'.updated_at = now
  BY BindTyped DEF Bind
<1>3. record' # NoRecord
  BY <1>2, SessionAssumption
<1>4. Shown' = [id |-> issued + 1, target |-> target, until |-> now + TTL]
  BY <1>2, <1>3 DEF Shown
<1>5. issued \in Nat /\ issued + 1 \in Bindings \ 1 .. issued
  BY SessionAssumption DEF Bind, TypeOK, Bindings
<1>6. 1 .. issued' = (1 .. issued) \cup {issued + 1}
  BY <1>5 DEF Bind
<1>7. BindingSpec!Alive => target # Shown.target
  BY <1>1, ShownBinding DEF BindingSpec!Alive
<1>8. now' = now
  BY DEF Bind
<1> HIDE DEF target
<1> QED
  BY <1>1, <1>4, <1>5, <1>6, <1>7, <1>8 DEF BindingSpec!Bind

LEMMA TaskImplements ==
  ASSUME TypeOK, NEW t \in Tasks, TaskStep(t) \/ Lose(t)
  PROVE  UNCHANGED <<now, Shown, issued>>
<1>1. CASE Unregister(t) \/ Register(t) \/ Discard(t) \/ Lose(t)
  BY <1>1 DEF Unregister, Register, Discard, Lose, object, Shown
<1>2. CASE Confirm(t) \/ Bump(t)
  <2>1. UNCHANGED <<now, issued>>
    BY <1>2 DEF Confirm, Bump
  <2>2. Shown' = Shown
    BY <1>2, RecordKept, SessionAssumption DEF Shown
  <2> QED
    BY <2>1, <2>2
<1> QED
  BY <1>1, <1>2 DEF TaskStep

LEMMA RequestImplements ==
  ASSUME TypeOK, NEW q \in Requests,
         List(q) \/ ClearAll(q) \/ ClearOne(q) \/ RequestStep(q) \/ Abort(q)
  PROVE  BindingSpec!Drop \/ UNCHANGED <<now, Shown, issued>>
<1>1. CASE UNCHANGED record /\ UNCHANGED <<now, issued>>
  BY <1>1 DEF Shown
<1>2. CASE Delete /\ UNCHANGED now
  BY <1>2, DropImplements DEF Delete
<1> QED
  BY <1>1, <1>2 DEF List, ClearAll, ClearOne, Arrive, RequestStep, GetStatus,
       ClearIfBindingId, ClearManaged, RemoveRow, Abort, object

LEMMA InitImplements == Init => BindingSpec!Init
<1> SUFFICES ASSUME Init PROVE BindingSpec!Init
  OBVIOUS
<1>1. 1 .. issued = {}
  BY DEF Init
<1> QED
  BY <1>1 DEF Init, BindingSpec!Init, Shown

LEMMA NextImplements ==
  TypeOK /\ [Next]_vars => [BindingSpec!Next]_BindingSpec!vars
<1> SUFFICES ASSUME TypeOK, [Next]_vars
             PROVE  BindingSpec!Next \/ UNCHANGED <<now, Shown, issued>>
  BY DEF BindingSpec!vars
<1>1. ASSUME NEW cs \in Offers, NEW p \in Preferences(cs), NEW t \in Tasks, Hit(cs, p, t)
      PROVE  BindingSpec!Next
  BY <1>1, HitImplements DEF BindingSpec!Next
<1>2. ASSUME NEW cs \in Offers, NEW p \in Preferences(cs), NEW t \in Tasks, Bind(cs, p, t)
      PROVE  BindingSpec!Next
  BY <1>2, BindImplements DEF BindingSpec!Next
<1>3. ASSUME NEW cs \in Offers, NEW p \in Preferences(cs), NEW t \in Tasks,
             Unroutable(cs, p, t)
      PROVE  BindingSpec!Next \/ UNCHANGED <<now, Shown, issued>>
  BY <1>3, DropImplements DEF Unroutable, BindingSpec!Next
<1>4. ASSUME NEW t \in Tasks, Alarm(t)
      PROVE  BindingSpec!Next \/ UNCHANGED <<now, Shown, issued>>
  BY <1>4, DropImplements DEF Alarm, Shown, BindingSpec!Next
<1>5. ASSUME NEW t \in Tasks, TaskStep(t) \/ Lose(t)
      PROVE  UNCHANGED <<now, Shown, issued>>
  BY <1>5, TaskImplements
<1>6. ASSUME NEW q \in Requests,
             List(q) \/ ClearAll(q) \/ ClearOne(q) \/ RequestStep(q) \/ Abort(q)
      PROVE  BindingSpec!Next \/ UNCHANGED <<now, Shown, issued>>
  BY <1>6, RequestImplements DEF BindingSpec!Next
<1>7. CASE Tick
  BY <1>7 DEF Tick, object, Shown, TypeOK, BindingSpec!Next, BindingSpec!Pass
<1>8. CASE UNCHANGED vars
  BY <1>8 DEF vars, Shown
<1> QED
  BY <1>1, <1>2, <1>3, <1>4, <1>5, <1>6, <1>7, <1>8 DEF Next

\* The session implements the life of one binding: whatever races, a live binding
\* is renewed, or leaves for another target or for good, and no identifier comes
\* back (the transactions of src/session-affinity.ts).
THEOREM Implementation == Spec => ImplementsBinding
<1>1. Init => TypeOK /\ BindingSpec!Init
  BY InitTyped, InitImplements
<1>2. TypeOK /\ [Next]_vars => TypeOK' /\ [BindingSpec!Next]_BindingSpec!vars
  BY NextTyped, NextImplements
<1> QED
  BY <1>1, <1>2, PTL DEF Spec, ImplementsBinding, BindingSpec!Spec
-----------------------------------------------------------------------------
\* Until generations start anew they count the bindings, so that an entry's
\* generation and its binding are the same number ...
Chained(entry) ==
  entry # None => entry.generation = entry.binding_id /\ entry.binding_id <= issued

\* ... what is about to be removed from the index names no live binding ...
Spent(entry) == ~(Active /\ Holds(entry))

TaskSound(task) ==
  /\ Chained(task.obsolete)
  /\ Chained(task.candidate)
  /\ task.pc = "unregister" => Spent(task.obsolete)
  /\ task.pc = "confirm" => Spent(task.candidate) \/ row = task.candidate
  /\ task.pc = "bump" => task.candidate.binding_id < issued
  /\ task.pc = "discard" => Spent(task.candidate)

RequestSound(request) ==
  /\ Chained(request.entry)
  /\ request.pc = "remove" => Spent(request.entry)

\* ... and the record is the last binding, listed once it is marked.
RecordSound == record # NoRecord => record.binding_id = issued /\ record.generation = issued

RowSound == Chained(row) /\ (Active /\ record.index_registered => row = Entry(record))

Sound ==
  /\ RecordSound
  /\ RowSound
  /\ \A t \in Tasks : TaskSound(tasks[t])
  /\ \A q \in Requests : RequestSound(requests[q])

Ordered == ~restarted => Sound

\* What a step that leaves a task or a request alone must not spoil for it.
Kept ==
  /\ issued <= issued'
  /\ \A e \in IndexEntry : Chained(e) /\ Spent(e) => Spent(e)'
  /\ \A e \in IndexEntry : Chained(e) /\ row = e => Spent(e)' \/ row' = e

LEMMA Becomes ==
  ASSUME TypeOK, NEW t \in Tasks, NEW task, Become(t, task)
  PROVE  \A u \in Tasks : tasks'[u] = IF u = t THEN task ELSE tasks[u]
BY DEF TypeOK, Become

LEMMA Scheduled ==
  ASSUME TypeOK, NEW t \in Tasks, NEW obsolete, NEW candidate, Schedule(t, obsolete, candidate)
  PROVE  \A u \in Tasks :
           \/ tasks'[u] = tasks[u]
           \/ obsolete = None /\ candidate # None /\ tasks'[u] = RegisterTask(candidate, 0)
           \/ obsolete # None /\ tasks'[u] = UnregisterTask(obsolete, candidate)
BY DEF TypeOK, Schedule

LEMMA Requested ==
  ASSUME TypeOK, NEW q \in Requests, NEW request, requests' = [requests EXCEPT ![q] = request]
  PROVE  \A r \in Requests : requests'[r] = IF r = q THEN request ELSE requests[r]
BY DEF TypeOK

LEMMA EntryFields ==
  /\ \A e \in IndexEntry : /\ e.binding_id \in Nat
                            /\ e.generation \in Nat
                            /\ e = [binding_id |-> e.binding_id, generation |-> e.generation]
  /\ \A r \in SessionAffinityRecord : r.binding_id \in Nat /\ r.generation \in Nat
BY SessionAssumption DEF IndexEntry, SessionAffinityRecord, Bindings, Generations

LEMMA IssuedTyped ==
  ASSUME TypeOK
  PROVE  issued \in Nat
BY SessionAssumption DEF TypeOK, Bindings

LEMMA ChainedKept ==
  ASSUME TypeOK, issued' \in Nat, issued <= issued', NEW e \in IndexEntry \cup {None}, Chained(e)
  PROVE  Chained(e)'
BY IssuedTyped, EntryFields DEF Chained

LEMMA TaskKept ==
  ASSUME TypeOK, issued' \in Nat, Kept,
         NEW t \in Tasks, TaskSound(tasks[t]), tasks'[t] = tasks[t]
  PROVE  TaskSound(tasks[t])'
<1>1. /\ tasks[t].obsolete \in IndexEntry \cup {None}
      /\ tasks[t].candidate \in IndexEntry \cup {None}
      /\ tasks[t].pc = "unregister" => tasks[t].obsolete \in IndexEntry
      /\ tasks[t].pc \in {"register", "confirm", "bump", "discard"} =>
           tasks[t].candidate \in IndexEntry
  BY DEF TypeOK, Task
<1>2. Chained(tasks[t].obsolete)' /\ Chained(tasks[t].candidate)'
  <2>1. \A e \in IndexEntry \cup {None} : Chained(e) => Chained(e)'
    BY ChainedKept DEF Kept
  <2> QED
    BY <1>1, <2>1 DEF TaskSound, Chained
<1>3. tasks[t].pc = "unregister" => Spent(tasks[t].obsolete)'
  BY <1>1 DEF TaskSound, Kept, Spent, Holds
<1>4. tasks[t].pc = "discard" => Spent(tasks[t].candidate)'
  BY <1>1 DEF TaskSound, Kept, Spent, Holds
<1>5. tasks[t].pc = "confirm" => Spent(tasks[t].candidate)' \/ row' = tasks[t].candidate
  BY <1>1 DEF TaskSound, Kept, Spent, Holds
<1>6. tasks[t].pc = "bump" => tasks[t].candidate.binding_id < issued'
  BY <1>1, IssuedTyped, EntryFields DEF TaskSound, Kept
<1> QED
  BY <1>2, <1>3, <1>4, <1>5, <1>6 DEF TaskSound

LEMMA RequestKept ==
  ASSUME TypeOK, issued' \in Nat, Kept,
         NEW q \in Requests, RequestSound(requests[q]), requests'[q] = requests[q]
  PROVE  RequestSound(requests[q])'
<1>1. /\ requests[q].entry \in IndexEntry \cup {None}
      /\ requests[q].pc = "remove" => requests[q].entry \in IndexEntry
  BY DEF TypeOK, Request
<1>2. Chained(requests[q].entry)'
  <2>1. \A e \in IndexEntry \cup {None} : Chained(e) => Chained(e)'
    BY ChainedKept DEF Kept
  <2> QED
    BY <1>1, <2>1 DEF RequestSound, Chained
<1>3. requests[q].pc = "remove" => Spent(requests[q].entry)'
  BY <1>1 DEF RequestSound, Kept, Spent, Holds
<1> QED
  BY <1>2, <1>3 DEF RequestSound

\* A binding that goes, that stays, and that is replaced.
LEMMA GoneKept ==
  ASSUME TypeOK, record' = NoRecord, UNCHANGED issued
  PROVE  Kept
BY IssuedTyped DEF Kept, Spent, Active

LEMMA StayKept ==
  ASSUME TypeOK, Active' => Active, UNCHANGED <<row, issued>>,
         record # NoRecord => record' # NoRecord /\ Entry(record') = Entry(record),
         record = NoRecord => record' = NoRecord
  PROVE  Kept
<1>1. \A e : Holds(e)' => Holds(e)
  BY DEF Holds
<1> QED
  BY <1>1, IssuedTyped DEF Kept, Spent

LEMMA BindKept ==
  ASSUME TypeOK, record' # NoRecord, record'.binding_id = issued + 1, issued' = issued + 1
  PROVE  Kept
<1>1. issued \in Nat
  BY IssuedTyped
<1>2. ASSUME NEW e \in IndexEntry, Chained(e) PROVE Spent(e)'
  <2>1. e # None /\ e.binding_id \in Nat
    BY EntryFields, SessionAssumption
  <2>2. e.binding_id <= issued
    BY <1>2, <2>1 DEF Chained
  <2>3. Entry(record').binding_id # e.binding_id
    BY <1>1, <2>1, <2>2 DEF Entry
  <2> QED
    BY <2>3 DEF Spent, Holds
<1> QED
  BY <1>1, <1>2 DEF Kept

\* A removal that comes too late, and a registration in the order of generations.
LEMMA RemovedKept ==
  ASSUME TypeOK, UNCHANGED <<now, record, issued>>, NEW e \in IndexEntry, Spent(e),
         row' \in {row, Removed(e)}
  PROVE  Kept
<1>1. \A f : Spent(f)' <=> Spent(f)
  BY DEF Spent, Active, Expired, Holds
<1> QED
  BY <1>1, IssuedTyped DEF Kept, Removed

LEMMA RegisteredKept ==
  ASSUME TypeOK, RecordSound, UNCHANGED <<now, record, issued>>,
         NEW e \in IndexEntry, Chained(e), row' = Registered(e)
  PROVE  Kept
<1>1. \A f : Spent(f)' <=> Spent(f)
  BY DEF Spent, Active, Expired, Holds
<1>2. e # None /\ e.generation \in Nat /\ e.generation <= issued
  BY EntryFields, SessionAssumption DEF Chained
<1>3. ASSUME NEW f \in IndexEntry, row = f, ~Spent(f) PROVE row' = f
  <2>1. record # NoRecord /\ Entry(record) = f
    BY <1>3 DEF Spent, Holds
  <2>2. f.generation = issued /\ issued \in Nat
    BY <2>1, IssuedTyped DEF RecordSound, Entry
  <2>3. f # None /\ ~(e.generation > f.generation)
    BY <1>2, <2>2, SessionAssumption
  <2> QED
    BY <1>3, <2>3 DEF Registered
<1> QED
  BY <1>1, <1>3, IssuedTyped DEF Kept

\* The tasks and the requests that a step does not touch stay sound.
LEMMA OthersSound ==
  ASSUME TypeOK, TypeOK', Kept, Sound,
         \A u \in Tasks : tasks'[u] = tasks[u] \/ TaskSound(tasks[u])',
         \A q \in Requests : requests'[q] = requests[q] \/ RequestSound(requests[q])'
  PROVE  /\ \A u \in Tasks : TaskSound(tasks[u])'
         /\ \A q \in Requests : RequestSound(requests[q])'
<1>1. issued' \in Nat
  BY SessionAssumption DEF TypeOK, Bindings
<1> QED
  BY <1>1, TaskKept, RequestKept DEF Sound

\* A scheduled task takes out what is gone and registers what is there.
LEMMA ScheduledSound ==
  ASSUME TypeOK, NEW t \in Tasks,
         NEW obsolete \in IndexEntry \cup {None}, NEW candidate \in IndexEntry \cup {None},
         Schedule(t, obsolete, candidate),
         Chained(obsolete)', obsolete # None => Spent(obsolete)', Chained(candidate)'
  PROVE  \A u \in Tasks : tasks'[u] = tasks[u] \/ TaskSound(tasks[u])'
<1> SUFFICES ASSUME NEW u \in Tasks, tasks'[u] # tasks[u] PROVE TaskSound(tasks[u])'
  OBVIOUS
<1>1. Chained(None)'
  BY DEF Chained
<1>2. CASE obsolete = None /\ tasks'[u] = RegisterTask(candidate, 0)
  BY <1>1, <1>2 DEF TaskSound, RegisterTask, Chained
<1>3. CASE obsolete # None /\ tasks'[u] = UnregisterTask(obsolete, candidate)
  BY <1>1, <1>3 DEF TaskSound, UnregisterTask, Chained, Spent, Holds
<1> QED
  BY <1>2, <1>3, Scheduled

LEMMA HitSound ==
  ASSUME TypeOK, TypeOK', Sound,
         NEW cs \in Offers, NEW p \in Preferences(cs), NEW t \in Tasks, Hit(cs, p, t)
  PROVE  Sound'
<1> DEFINE candidate == IF record.index_registered THEN None ELSE Entry(record)
<1>1. Active /\ record # NoRecord /\ record \in SessionAffinityRecord
  BY Decisions DEF Hit, Active, TypeOK
<1>2. record' = [record EXCEPT !.target = Decided(cs, p).selection, !.updated_at = now]
  BY DEF Hit
<1>3. /\ record'.binding_id = record.binding_id
      /\ record'.generation = record.generation
      /\ record'.index_registered = record.index_registered
      /\ Entry(record') = Entry(record)
  BY <1>1, <1>2 DEF SessionAffinityRecord, Entry
<1>4. record' # NoRecord
  BY HitTyped, SessionAssumption
<1>5. Kept
  BY <1>1, <1>3, <1>4, StayKept DEF Hit
<1>6. issued' = issued /\ row' = row /\ requests' = requests
  BY DEF Hit
<1>7. candidate \in IndexEntry \cup {None} /\ Chained(candidate)
  BY <1>1, EntryTyped, IssuedTyped DEF Sound, RecordSound, Chained, Entry
<1>8. \A u \in Tasks : tasks'[u] = tasks[u] \/ TaskSound(tasks[u])'
  <2>1. Schedule(t, None, candidate)
    BY DEF Hit
  <2>2. PICK c : c = candidate
    OBVIOUS
  <2> HIDE DEF candidate
  <2>3. c \in IndexEntry \cup {None} /\ Chained(c)' /\ Chained(None)' /\ Schedule(t, None, c)
    BY <1>6, <1>7, <2>1, <2>2 DEF Chained
  <2> QED
    BY <2>3, ScheduledSound
<1>9. RecordSound' /\ RowSound'
  BY <1>1, <1>3, <1>6 DEF Sound, RecordSound, RowSound, Chained
<1> QED
  BY <1>5, <1>6, <1>8, <1>9, OthersSound DEF Sound

LEMMA BindSound ==
  ASSUME TypeOK, TypeOK', ~restarted', Sound,
         NEW cs \in Offers, NEW p \in Preferences(cs), NEW t \in Tasks, Bind(cs, p, t)
  PROVE  Sound'
<1>1. /\ record' \in SessionAffinityRecord
      /\ record' # NoRecord
      /\ record'.binding_id = issued + 1
      /\ record'.generation = NextGeneration
      /\ record'.index_registered = FALSE
  BY BindTyped, SessionAssumption DEF Bind
<1>2. issued \in Nat /\ issued' = issued + 1 /\ row' = row /\ requests' = requests
  BY IssuedTyped DEF Bind
<1>3. record = NoRecord => issued = 0
  <2>1. restarted' = (restarted \/ (record = NoRecord /\ issued > 0))
    BY DEF Bind
  <2>2. record = NoRecord => ~(issued > 0)
    BY <2>1
  <2> QED
    BY <1>2, <2>2
<1>4. NextGeneration = issued + 1
  BY <1>2, <1>3 DEF NextGeneration, Sound, RecordSound
<1>5. Kept
  BY <1>1, <1>2, BindKept
<1>6. Obsolete \in IndexEntry \cup {None} /\ Chained(Obsolete)
  BY ObsoleteTyped, <1>2 DEF Obsolete, Chained, Sound, RecordSound, Entry
<1>7. Entry(record') \in IndexEntry /\ Chained(Entry(record))'
  BY <1>1, <1>2, <1>4, EntryTyped DEF Chained, Entry
<1>8. \A u \in Tasks : tasks'[u] = tasks[u] \/ TaskSound(tasks[u])'
  <2>1. Schedule(t, Obsolete, Entry(record'))
    BY DEF Bind
  <2>2. PICK o, c : o = Obsolete /\ c = Entry(record')
    OBVIOUS
  <2>3. o \in IndexEntry \cup {None} /\ Chained(o)
    BY <1>6, <2>2 DEF Chained
  <2>4. c \in IndexEntry \cup {None} /\ Chained(c)'
    BY <1>7, <2>2 DEF Chained
  <2>5. Chained(o)'
    BY <1>2, <2>3, ChainedKept
  <2>6. o # None => Spent(o)'
    <3>1. o # None => o.binding_id <= issued /\ o.binding_id \in Nat
      BY <2>3, EntryFields DEF Chained
    <3>2. o # None => Entry(record').binding_id # o.binding_id
      BY <1>1, <1>2, <3>1 DEF Entry
    <3> QED
      BY <3>2 DEF Spent, Holds
  <2>7. Schedule(t, o, c)
    BY <2>1, <2>2
  <2> QED
    BY <2>3, <2>4, <2>5, <2>6, <2>7, ScheduledSound
<1>9. Chained(row)'
  BY <1>2, <1>5, ChainedKept DEF Sound, RowSound, TypeOK, Chained
<1>10. RecordSound' /\ RowSound'
  BY <1>1, <1>2, <1>4, <1>9 DEF RecordSound, RowSound
<1> QED
  BY <1>2, <1>5, <1>8, <1>10, OthersSound DEF Sound
\* What is scheduled when the binding goes.
LEMMA DroppedSound ==
  ASSUME TypeOK, Sound, NEW t \in Tasks, Schedule(t, Obsolete, None),
         record' = NoRecord, UNCHANGED <<row, issued>>
  PROVE  /\ Kept /\ RecordSound' /\ RowSound'
         /\ \A u \in Tasks : tasks'[u] = tasks[u] \/ TaskSound(tasks[u])'
<1>1. Kept
  BY GoneKept
<1>2. RecordSound' /\ RowSound'
  BY DEF Sound, RecordSound, RowSound, Chained, Active
<1>3. PICK o : o = Obsolete
  OBVIOUS
<1>4. o \in IndexEntry \cup {None} /\ Chained(o)
  BY <1>3, ObsoleteTyped DEF Obsolete, Chained, Sound, RecordSound, Entry, TypeOK
<1>5. Chained(o)' /\ Chained(None)' /\ Spent(o)' /\ Schedule(t, o, None)
  BY <1>3, <1>4 DEF Chained, Spent, Active
<1> QED
  BY <1>1, <1>2, <1>4, <1>5, ScheduledSound

LEMMA UnroutableSound ==
  ASSUME TypeOK, TypeOK', Sound,
         NEW cs \in Offers, NEW p \in Preferences(cs), NEW t \in Tasks, Unroutable(cs, p, t)
  PROVE  Sound'
<1>1. requests' = requests
  BY DEF Unroutable
<1>2. /\ Kept /\ RecordSound' /\ RowSound'
      /\ \A u \in Tasks : tasks'[u] = tasks[u] \/ TaskSound(tasks[u])'
  BY DroppedSound DEF Unroutable
<1> QED
  BY <1>1, <1>2, OthersSound DEF Sound

LEMMA AlarmSound ==
  ASSUME TypeOK, TypeOK', Sound, NEW t \in Tasks, Alarm(t)
  PROVE  Sound'
<1>1. CASE record # NoRecord /\ ~Expired
  <2>1. UNCHANGED <<now, record, row, tasks, requests, issued>>
    BY <1>1 DEF Alarm
  <2>2. Kept
    BY <2>1, StayKept DEF Active, Expired, Entry
  <2>3. RecordSound' /\ RowSound'
    BY <2>1 DEF Sound, RecordSound, RowSound, Chained, Active, Expired, Entry
  <2> QED
    BY <2>1, <2>2, <2>3, OthersSound DEF Sound
<1>2. CASE ~(record # NoRecord /\ ~Expired)
  <2>1. requests' = requests
    BY DEF Alarm
  <2>2. /\ Kept /\ RecordSound' /\ RowSound'
        /\ \A u \in Tasks : tasks'[u] = tasks[u] \/ TaskSound(tasks[u])'
    BY <1>2, DroppedSound DEF Alarm
  <2> QED
    BY <2>1, <2>2, OthersSound DEF Sound
<1> QED
  BY <1>1, <1>2

\* Only the row changes, and not under a live binding that is marked.
LEMMA RowKept ==
  ASSUME TypeOK, Sound, Kept, UNCHANGED <<now, record, issued>>,
         row' = None \/ row' = row \/ (row' \in IndexEntry /\ Chained(row'))
  PROVE  RecordSound' /\ RowSound'
<1>1. RecordSound'
  BY DEF Sound, RecordSound
<1>2. Chained(row)'
  BY DEF Sound, RowSound, Chained
<1>3. ASSUME Active', record'.index_registered PROVE row' = Entry(record)'
  <2>1. Active /\ row = Entry(record) /\ record # NoRecord
    BY <1>3 DEF Sound, RowSound, Active, Expired
  <2>2. PICK e : e = Entry(record)
    OBVIOUS
  <2>3. e \in IndexEntry /\ Chained(e) /\ row = e
    BY <2>1, <2>2, EntryTyped DEF TypeOK, Sound, RowSound, Chained
  <2>4. ~Spent(e)'
    BY <1>3, <2>1, <2>2 DEF Spent, Holds
  <2> QED
    BY <2>2, <2>3, <2>4 DEF Kept, Entry
<1> QED
  BY <1>1, <1>2, <1>3 DEF RowSound

LEMMA UnregisterSound ==
  ASSUME TypeOK, TypeOK', Sound, NEW t \in Tasks, Unregister(t)
  PROVE  Sound'
<1> DEFINE next == IF tasks[t].candidate = None THEN IdleTask ELSE RegisterTask(tasks[t].candidate, 0)
<1>1. tasks[t].obsolete \in IndexEntry /\ Spent(tasks[t].obsolete)
  BY DEF Unregister, TypeOK, Task, Sound, TaskSound
<1>2. UNCHANGED <<now, record, issued, requests>> /\ Become(t, next)
  BY DEF Unregister, object
<1>3. Kept
  BY <1>1, <1>2, RemovedKept DEF Unregister
<1>4. RecordSound' /\ RowSound'
  BY <1>2, <1>3, RowKept DEF Unregister, Removed
<1>5. TaskSound(tasks[t])'
  <2>1. tasks'[t] = next
    BY <1>2, Becomes
  <2>2. Chained(tasks[t].candidate) /\ issued' = issued
    BY <1>2 DEF Sound, TaskSound
  <2> QED
    BY <2>1, <2>2 DEF TaskSound, RegisterTask, IdleTask, Chained
<1>6. \A u \in Tasks : tasks'[u] = tasks[u] \/ TaskSound(tasks[u])'
  BY <1>2, <1>5, Becomes
<1> QED
  BY <1>2, <1>3, <1>4, <1>6, OthersSound DEF Sound

LEMMA DiscardSound ==
  ASSUME TypeOK, TypeOK', Sound, NEW t \in Tasks, Discard(t) \/ Lose(t)
  PROVE  Sound'
<1>1. UNCHANGED <<now, record, issued, requests>> /\ Become(t, IdleTask)
  BY DEF Discard, Lose, object
<1>2. Kept
  <2>1. CASE Discard(t)
    <3>1. tasks[t].candidate \in IndexEntry /\ Spent(tasks[t].candidate)
      BY <2>1 DEF Discard, TypeOK, Task, Sound, TaskSound
    <3> QED
      BY <1>1, <2>1, <3>1, RemovedKept DEF Discard
  <2>2. CASE Lose(t)
    BY <1>1, <2>2, StayKept DEF Lose, Active, Expired, Entry
  <2> QED
    BY <2>1, <2>2
<1>3. RecordSound' /\ RowSound'
  BY <1>1, <1>2, RowKept DEF Discard, Lose, Removed
<1>4. TaskSound(tasks[t])'
  <2>1. tasks'[t] = IdleTask
    BY <1>1, Becomes
  <2> QED
    BY <2>1 DEF TaskSound, IdleTask, Chained
<1>5. \A u \in Tasks : tasks'[u] = tasks[u] \/ TaskSound(tasks[u])'
  BY <1>1, <1>4, Becomes
<1> QED
  BY <1>1, <1>2, <1>3, <1>5, OthersSound DEF Sound

LEMMA RegisterSound ==
  ASSUME TypeOK, TypeOK', Sound, NEW t \in Tasks, Register(t)
  PROVE  Sound'
<1> DEFINE c == tasks[t].candidate
           indexed == Registered(c)
<1>1. c \in IndexEntry /\ c # None /\ Chained(c)
  BY SessionAssumption DEF Register, TypeOK, Task, Sound, TaskSound
<1>2. UNCHANGED <<now, record, issued, requests>> /\ row' = indexed
  BY DEF Register, object
<1>3. Kept
  BY <1>1, <1>2, RegisteredKept DEF Sound
<1>4. indexed \in {c, row} /\ indexed \in IndexEntry /\ Chained(indexed)
  BY <1>1 DEF Registered, Chained, Sound, RowSound, TypeOK
<1>5. RecordSound' /\ RowSound'
  BY <1>2, <1>3, <1>4, RowKept
<1> HIDE DEF indexed
<1>6. TaskSound(tasks[t])'
  <2>1. \/ tasks'[t] = [tasks[t] EXCEPT !.pc = "confirm"] /\ indexed = c
        \/ tasks'[t] = IdleTask
        \/ /\ tasks'[t] = [tasks[t] EXCEPT !.pc = "bump", !.seen = indexed.generation]
           /\ indexed # c /\ ~(indexed.generation < c.generation)
    BY Becomes DEF Register, indexed
  <2>2. /\ tasks[t] \in Task
        /\ Chained(tasks[t].obsolete)
        /\ Chained(tasks[t].candidate)
    BY DEF TypeOK, Sound, TaskSound
  <2>3. CASE tasks'[t] = [tasks[t] EXCEPT !.pc = "confirm"] /\ indexed = c
    <3>1. /\ tasks'[t].pc = "confirm"
          /\ tasks'[t].obsolete = tasks[t].obsolete
          /\ tasks'[t].candidate = c
      BY <2>2, <2>3 DEF Task
    <3> QED
      BY <1>2, <2>2, <2>3, <3>1 DEF TaskSound, Chained
  <2>4. CASE tasks'[t] = IdleTask
    BY <2>4 DEF TaskSound, IdleTask, Chained
  <2>5. CASE /\ tasks'[t] = [tasks[t] EXCEPT !.pc = "bump", !.seen = indexed.generation]
             /\ indexed # c /\ ~(indexed.generation < c.generation)
    <3>1. /\ tasks'[t].pc = "bump"
          /\ tasks'[t].obsolete = tasks[t].obsolete
          /\ tasks'[t].candidate = c
      BY <2>2, <2>5 DEF Task
    <3>2. c.binding_id < issued
      <4>1. /\ indexed.generation = indexed.binding_id /\ indexed.binding_id <= issued
            /\ c.generation = c.binding_id
        BY <1>1, <1>4, SessionAssumption DEF Chained
      <4>2. indexed.generation # c.generation
        BY <1>1, <1>4, <2>5, <4>1, EntryFields
      <4> QED
        BY <1>1, <1>4, <2>5, <4>1, <4>2, EntryFields, IssuedTyped
    <3> QED
      BY <1>2, <2>2, <3>1, <3>2 DEF TaskSound, Chained
  <2> QED
    BY <2>1, <2>3, <2>4, <2>5
<1>7. \A u \in Tasks : tasks'[u] = tasks[u] \/ TaskSound(tasks[u])'
  <2>1. PICK task : Become(t, task)
    BY DEF Register
  <2> QED
    BY <1>6, <2>1, Becomes
<1> QED
  BY <1>2, <1>3, <1>5, <1>7, OthersSound DEF Sound
LEMMA ConfirmSound ==
  ASSUME TypeOK, TypeOK', Sound, NEW t \in Tasks, Confirm(t)
  PROVE  Sound'
<1> DEFINE c == tasks[t].candidate
<1>1. UNCHANGED <<now, row, issued, requests>> /\ tasks[t] \in Task
  BY DEF Confirm, TypeOK
<1>2. /\ c \in IndexEntry /\ Chained(c) /\ Chained(tasks[t].obsolete)
      /\ Spent(c) \/ row = c
  BY DEF Confirm, TypeOK, Task, Sound, TaskSound
<1>3. CASE Holds(c)
  <2>1. record # NoRecord /\ record \in SessionAffinityRecord /\ Entry(record) = c
    BY <1>3 DEF Holds, TypeOK
  <2>2. record' = [record EXCEPT !.index_registered = TRUE] /\ Become(t, IdleTask)
    BY <1>3 DEF Confirm
  <2>3. /\ record'.binding_id = record.binding_id
        /\ record'.generation = record.generation
        /\ record'.updated_at = record.updated_at
        /\ record' \in SessionAffinityRecord
    BY <2>1, <2>2 DEF SessionAffinityRecord
  <2>4. record' # NoRecord /\ Entry(record') = Entry(record)
    BY <2>3, SessionAssumption DEF Entry
  <2>5. Active' <=> Active
    BY <1>1, <2>1, <2>3, <2>4 DEF Active, Expired
  <2>6. Kept
    BY <1>1, <2>1, <2>4, <2>5, StayKept
  <2>7. RecordSound'
    BY <1>1, <2>1, <2>3 DEF Sound, RecordSound
  <2>8. RowSound'
    BY <1>1, <1>2, <1>3, <2>1, <2>4, <2>5 DEF Sound, RowSound, Chained, Spent
  <2>9. \A u \in Tasks : tasks'[u] = tasks[u] \/ TaskSound(tasks[u])'
    BY <2>2, Becomes DEF TaskSound, IdleTask, Chained
  <2> QED
    BY <1>1, <2>6, <2>7, <2>8, <2>9, OthersSound DEF Sound
<1>4. CASE ~Holds(c)
  <2>1. UNCHANGED record /\ Become(t, [tasks[t] EXCEPT !.pc = "discard"])
    BY <1>4 DEF Confirm
  <2>2. Kept
    BY <1>1, <2>1, StayKept DEF Active, Expired, Entry
  <2>3. RecordSound' /\ RowSound'
    BY <1>1, <2>1, <2>2, RowKept
  <2>4. /\ tasks'[t].pc = "discard"
        /\ tasks'[t].candidate = c
        /\ tasks'[t].obsolete = tasks[t].obsolete
    BY <1>1, <2>1, Becomes DEF Task
  <2>5. TaskSound(tasks[t])'
    BY <1>1, <1>2, <1>4, <2>1, <2>4 DEF TaskSound, Chained, Spent, Holds
  <2>6. \A u \in Tasks : tasks'[u] = tasks[u] \/ TaskSound(tasks[u])'
    BY <2>1, <2>5, Becomes
  <2> QED
    BY <1>1, <2>2, <2>3, <2>6, OthersSound DEF Sound
<1> QED
  BY <1>3, <1>4

\* As long as generations count the bindings, a registration is refused only
\* for a binding that has been replaced, and the record is not touched.
LEMMA BumpSound ==
  ASSUME TypeOK, TypeOK', Sound, NEW t \in Tasks, Bump(t)
  PROVE  Sound'
<1> DEFINE c == tasks[t].candidate
<1>1. UNCHANGED <<now, row, issued, requests>> /\ tasks[t] \in Task
  BY DEF Bump, TypeOK
<1>2. c \in IndexEntry /\ c.binding_id < issued /\ Chained(c) /\ Chained(tasks[t].obsolete)
  BY DEF Bump, TypeOK, Task, Sound, TaskSound
<1>3. record # NoRecord => record.binding_id # c.binding_id
  BY <1>2, EntryFields, IssuedTyped DEF Sound, RecordSound
<1>4. UNCHANGED record /\ Become(t, [tasks[t] EXCEPT !.pc = "discard"])
  BY <1>3 DEF Bump
<1>5. ~Holds(c)
  BY <1>3 DEF Holds, Entry
<1>6. Kept
  BY <1>1, <1>4, StayKept DEF Active, Expired, Entry
<1>7. RecordSound' /\ RowSound'
  BY <1>1, <1>4, <1>6, RowKept
<1>8. /\ tasks'[t].pc = "discard"
      /\ tasks'[t].candidate = c
      /\ tasks'[t].obsolete = tasks[t].obsolete
  BY <1>1, <1>4, Becomes DEF Task
<1>9. TaskSound(tasks[t])'
  BY <1>1, <1>2, <1>4, <1>5, <1>8 DEF TaskSound, Chained, Spent, Holds
<1>10. \A u \in Tasks : tasks'[u] = tasks[u] \/ TaskSound(tasks[u])'
  BY <1>4, <1>9, Becomes
<1> QED
  BY <1>1, <1>6, <1>7, <1>10, OthersSound DEF Sound

LEMMA ArriveSound ==
  ASSUME TypeOK, TypeOK', Sound, NEW q \in Requests, List(q) \/ ClearAll(q) \/ ClearOne(q)
  PROVE  Sound'
<1>1. PICK pc \in {"status", "clear_page", "clear_one", "clear_managed"}, upto \in {0, issued} :
        Arrive(q, pc, row, upto)
  BY DEF List, ClearAll, ClearOne
<1>2. UNCHANGED <<now, record, row, issued, tasks>>
  BY <1>1 DEF Arrive, object
<1>3. Kept
  BY <1>2, StayKept DEF Active, Expired, Entry
<1>4. RecordSound' /\ RowSound'
  BY <1>2, <1>3, RowKept
<1>5. \A r \in Requests : requests'[r] = requests[r] \/ RequestSound(requests[r])'
  <2>1. \A r \in Requests :
          requests'[r] = IF r = q THEN [pc |-> pc, entry |-> row, upto |-> upto] ELSE requests[r]
    BY <1>1, Requested DEF Arrive
  <2> QED
    BY <1>2, <2>1 DEF RequestSound, Chained, Sound, RowSound
<1> QED
  BY <1>2, <1>3, <1>4, <1>5, OthersSound DEF Sound

\* A request that ends, and one that goes on to take a row out.
LEMMA ProceedSound ==
  ASSUME TypeOK, NEW q \in Requests,
         \/ EndRequest(q)
         \/ \E e \in IndexEntry : Chained(e)' /\ Spent(e)' /\ Proceed(q, e)
  PROVE  \A r \in Requests : requests'[r] = requests[r] \/ RequestSound(requests[r])'
<1>1. CASE EndRequest(q)
  BY <1>1, Requested DEF EndRequest, IdleRequest, RequestSound, Chained
<1>2. ASSUME NEW e \in IndexEntry, Chained(e)', Spent(e)', Proceed(q, e)
      PROVE  \A r \in Requests : requests'[r] = requests[r] \/ RequestSound(requests[r])'
  <2>1. \A r \in Requests :
          requests'[r] = IF r = q THEN [pc |-> "remove", entry |-> e, upto |-> 0]
                         ELSE requests[r]
    BY <1>2, Requested DEF Proceed
  <2> QED
    BY <1>2, <2>1 DEF RequestSound, Chained, Spent, Holds
<1> QED
  BY <1>1, <1>2

LEMMA RequestStepSound ==
  ASSUME TypeOK, TypeOK', Sound, NEW q \in Requests, RequestStep(q) \/ Abort(q)
  PROVE  Sound'
<1> DEFINE entry == requests[q].entry
<1>1. /\ Chained(entry)
      /\ requests[q].pc \in {"status", "clear_one", "clear_page", "remove"} => entry \in IndexEntry
      /\ requests[q].pc = "remove" => Spent(entry)
  BY DEF TypeOK, Request, Sound, RequestSound
<1>2. UNCHANGED <<now, tasks, issued>>
  BY DEF RequestStep, GetStatus, ClearIfBindingId, ClearManaged, RemoveRow, Abort, Delete, object
<1>3. CASE GetStatus(q) \/ Abort(q)
  <2>1. UNCHANGED <<record, row>>
    BY <1>3 DEF GetStatus, Abort, object
  <2>2. Kept
    BY <1>2, <2>1, StayKept DEF Active, Expired, Entry
  <2>3. RecordSound' /\ RowSound'
    BY <1>2, <2>1, <2>2, RowKept
  <2>4. EndRequest(q) \/ (entry \in IndexEntry /\ ~(Active /\ Holds(entry)) /\ Proceed(q, entry))
    BY <1>1, <1>3 DEF GetStatus, Abort
  <2>5. EndRequest(q) \/ \E e \in IndexEntry : Chained(e)' /\ Spent(e)' /\ Proceed(q, e)
    BY <1>1, <1>2, <2>1, <2>4 DEF Chained, Spent, Active, Expired, Holds
  <2> QED
    BY <1>2, <2>2, <2>3, <2>5, ProceedSound, OthersSound DEF Sound
<1>4. CASE ClearIfBindingId(q) \/ ClearManaged(q)
  <2>1. row' = row
    BY <1>4 DEF ClearIfBindingId, ClearManaged
  <2>2. record' = NoRecord \/ record' = record
    BY <1>4 DEF ClearIfBindingId, ClearManaged, Delete, object
  <2>3. Kept
    BY <1>2, <2>1, <2>2, GoneKept, StayKept DEF Active, Expired, Entry
  <2>4. RecordSound' /\ RowSound'
    BY <1>2, <2>1, <2>2 DEF Sound, RecordSound, RowSound, Chained, Active, Expired, Entry
  <2>5. EndRequest(q) \/ \E e \in IndexEntry : Chained(e)' /\ Spent(e)' /\ Proceed(q, e)
    <3>1. CASE ClearIfBindingId(q)
      <4>1. entry \in IndexEntry /\ Proceed(q, entry)
        BY <1>1, <3>1 DEF ClearIfBindingId
      <4>2. record' = NoRecord \/ (record' = record /\ ~Holds(entry))
        BY <3>1 DEF ClearIfBindingId, Named, Delete, object
      <4> QED
        BY <1>1, <1>2, <4>1, <4>2 DEF Chained, Spent, Active, Holds
    <3>2. CASE ClearManaged(q) /\ record # NoRecord
      <4>1. record' = NoRecord /\ Proceed(q, Entry(record))
        BY <3>2 DEF ClearManaged, Delete
      <4>2. PICK e : e = Entry(record)
        OBVIOUS
      <4>3. e \in IndexEntry /\ Chained(e)'
        BY <1>2, <3>2, <4>2, EntryTyped, IssuedTyped
           DEF TypeOK, Chained, Entry, Sound, RecordSound
      <4> QED
        BY <4>1, <4>2, <4>3 DEF Spent, Active
    <3>3. CASE ClearManaged(q) /\ record = NoRecord
      BY <3>3 DEF ClearManaged
    <3> QED
      BY <1>4, <3>1, <3>2, <3>3
  <2> QED
    BY <1>2, <2>3, <2>4, <2>5, ProceedSound, OthersSound DEF Sound
<1>5. CASE RemoveRow(q)
  <2>1. /\ UNCHANGED record /\ row' = Removed(entry) /\ EndRequest(q)
        /\ entry \in IndexEntry /\ Spent(entry)
    BY <1>1, <1>5 DEF RemoveRow, object
  <2>2. Kept
    BY <1>2, <2>1, RemovedKept
  <2>3. RecordSound' /\ RowSound'
    BY <1>2, <2>1, <2>2, RowKept DEF Removed
  <2> QED
    BY <1>2, <2>1, <2>2, <2>3, ProceedSound, OthersSound DEF Sound
<1> QED
  BY <1>3, <1>4, <1>5 DEF RequestStep

LEMMA TickSound ==
  ASSUME TypeOK, TypeOK', Sound, Tick
  PROVE  Sound'
<1>1. UNCHANGED <<record, row, tasks, requests, issued>> /\ now' = now + 1
  BY DEF Tick, object
<1>2. Active' => Active
  <2>1. record # NoRecord => record.updated_at + TTL \in Nat
    BY ShownBinding
  <2>2. now \in Nat
    BY DEF TypeOK
  <2> QED
    BY <1>1, <2>1, <2>2 DEF Active, Expired
<1>3. Kept
  BY <1>1, <1>2, StayKept DEF Entry
<1>4. RecordSound' /\ RowSound'
  BY <1>1, <1>2 DEF Sound, RecordSound, RowSound, Chained, Entry
<1> QED
  BY <1>1, <1>3, <1>4, OthersSound DEF Sound

LEMMA InitOrdered == Init => Ordered
BY DEF Init, Ordered, Sound, RecordSound, RowSound, TaskSound, RequestSound, Chained,
       IdleTask, IdleRequest, Active

LEMMA NextOrdered == TypeOK /\ Ordered /\ [Next]_vars => Ordered'
<1> SUFFICES ASSUME TypeOK, Ordered, [Next]_vars, ~restarted' PROVE Sound'
  BY DEF Ordered
<1>1. TypeOK'
  BY NextTyped
<1>2. Sound
  <2>1. restarted' = restarted \/ restarted' = (restarted \/ (record = NoRecord /\ issued > 0))
    BY DEF Next, Hit, Bind, Unroutable, Alarm, TaskStep, Unregister, Register, Confirm, Bump,
           Discard, Lose, List, ClearAll, ClearOne, Arrive, RequestStep, GetStatus,
           ClearIfBindingId, ClearManaged, RemoveRow, Abort, Delete, Tick, object, vars
  <2> QED
    BY <2>1 DEF Ordered
<1>3. ASSUME NEW cs \in Offers, NEW p \in Preferences(cs), NEW t \in Tasks,
             Hit(cs, p, t) \/ Bind(cs, p, t) \/ Unroutable(cs, p, t)
      PROVE  Sound'
  BY <1>1, <1>2, <1>3, HitSound, BindSound, UnroutableSound
<1>4. ASSUME NEW t \in Tasks, Alarm(t) \/ TaskStep(t) \/ Lose(t) PROVE Sound'
  BY <1>1, <1>2, <1>4, AlarmSound, UnregisterSound, RegisterSound, ConfirmSound, BumpSound,
     DiscardSound DEF TaskStep
<1>5. ASSUME NEW q \in Requests,
             List(q) \/ ClearAll(q) \/ ClearOne(q) \/ RequestStep(q) \/ Abort(q)
      PROVE  Sound'
  BY <1>1, <1>2, <1>5, ArriveSound, RequestStepSound
<1>6. CASE Tick
  BY <1>1, <1>2, <1>6, TickSound
<1>7. CASE UNCHANGED vars
  <2>1. UNCHANGED <<now, record, row, tasks, requests, issued>>
    BY <1>7 DEF vars
  <2>2. Kept
    BY <2>1, StayKept DEF Active, Expired, Entry
  <2>3. RecordSound' /\ RowSound'
    BY <1>2, <2>1, <2>2, RowKept
  <2> QED
    BY <1>1, <1>2, <2>1, <2>2, <2>3, OthersSound DEF Sound
<1> QED
  BY <1>3, <1>4, <1>5, <1>6, <1>7 DEF Next

\* The invariant behind the next two theorems: until a deletion restarts them,
\* generations number the bindings, and no index task or request is about to
\* remove or overtake the row of a live one (scheduleIndexSync, ensureIndexed).
THEOREM Order == Spec => []Ordered
<1>1. Init => TypeOK /\ Ordered
  BY InitTyped, InitOrdered
<1>2. TypeOK /\ Ordered /\ [Next]_vars => TypeOK' /\ Ordered'
  BY NextTyped, NextOrdered
<1> QED
  BY <1>1, <1>2, PTL DEF Spec

\* The row is never ahead of the record (register, nextBindingGeneration).
THEOREM NeverAhead == Spec => []IndexNeverAhead
<1>1. TypeOK /\ Ordered => IndexNeverAhead
  <2> SUFFICES ASSUME TypeOK, Ordered, ~restarted, row # None, record # NoRecord
               PROVE  row.generation < record.generation \/ row = Entry(record)
    BY DEF IndexNeverAhead
  <2>1. row \in IndexEntry /\ record \in SessionAffinityRecord
    BY DEF TypeOK
  <2>2. /\ row.generation = row.binding_id /\ row.binding_id <= issued
        /\ record.binding_id = issued /\ record.generation = issued
    BY DEF Ordered, Sound, RecordSound, RowSound, Chained
  <2>3. CASE row.generation = issued
    BY <2>1, <2>2, <2>3, EntryFields DEF Entry
  <2>4. CASE row.generation # issued
    BY <2>1, <2>2, <2>4, EntryFields, IssuedTyped
  <2> QED
    BY <2>3, <2>4
<1> QED
  BY <1>1, TypeCorrect, Order, PTL

\* A live binding marked as registered is in the index (ensureIndexed, remove).
THEOREM StaysListed == Spec => []ListedUntilRestarted
<1>1. Ordered => ListedUntilRestarted
  BY DEF Ordered, Sound, RowSound, ListedUntilRestarted
<1> QED
  BY <1>1, Order, PTL
-----------------------------------------------------------------------------
\* Every binding was issued, and a request that clears read its entry before it
\* noted how many had been.
Issued ==
  /\ record # NoRecord => record.binding_id <= issued
  /\ row # None => row.binding_id <= issued
  /\ \A t \in Tasks : tasks[t].candidate # None => tasks[t].candidate.binding_id <= issued
  /\ \A q \in Requests :
       requests[q].pc \in {"clear_one", "clear_page"} =>
         requests[q].entry.binding_id <= requests[q].upto

LEMMA NextIssued == TypeOK /\ Issued /\ [Next]_vars => Issued'
<1> SUFFICES ASSUME TypeOK, Issued, [Next]_vars PROVE Issued'
  OBVIOUS
<1> DEFINE Known(e) == e # None => e.binding_id <= issued
           KnownTasks == \A t \in Tasks : Known(tasks[t].candidate)
<1>1. /\ issued \in Nat
      /\ row \in IndexEntry \cup {None}
      /\ \A t \in Tasks : tasks[t] \in Task /\ tasks[t].candidate \in IndexEntry \cup {None}
  BY IssuedTyped DEF TypeOK, Task
<1>2. ASSUME NEW t \in Tasks, NEW o, NEW c, Schedule(t, o, c),
             c # None => c.binding_id <= issued', issued' \in Nat, issued <= issued'
      PROVE  KnownTasks'
  <2> SUFFICES ASSUME NEW u \in Tasks, tasks'[u].candidate # None
               PROVE  tasks'[u].candidate.binding_id <= issued'
    OBVIOUS
  <2>1. CASE tasks'[u] = tasks[u]
    <3>1. tasks[u].candidate \in IndexEntry /\ tasks[u].candidate.binding_id <= issued
      BY <1>1, <2>1 DEF Issued
    <3> QED
      BY <1>1, <1>2, <2>1, <3>1, EntryFields
  <2>2. CASE tasks'[u] = RegisterTask(c, 0) \/ tasks'[u] = UnregisterTask(o, c)
    BY <1>2, <2>2 DEF RegisterTask, UnregisterTask
  <2> QED
    BY <1>2, <2>1, <2>2, Scheduled
<1>3. ASSUME NEW cs \in Offers, NEW p \in Preferences(cs), NEW t \in Tasks, Hit(cs, p, t)
      PROVE  Issued'
  <2>1. record # NoRecord /\ record \in SessionAffinityRecord
    BY <1>3, Decisions DEF Hit, Active, TypeOK
  <2>2. record'.binding_id = record.binding_id /\ UNCHANGED <<row, issued, requests>>
    BY <1>3, <2>1 DEF Hit, SessionAffinityRecord
  <2>3. PICK c : c = IF record.index_registered THEN None ELSE Entry(record)
    OBVIOUS
  <2>4. Schedule(t, None, c) /\ (c # None => c.binding_id <= issued')
    BY <1>3, <2>1, <2>2, <2>3 DEF Hit, Issued, Entry
  <2>5. KnownTasks'
    BY <1>1, <1>2, <2>2, <2>4
  <2> QED
    BY <2>1, <2>2, <2>5 DEF Issued
<1>4. ASSUME NEW cs \in Offers, NEW p \in Preferences(cs), NEW t \in Tasks, Bind(cs, p, t)
      PROVE  Issued'
  <2>1. issued' = issued + 1 /\ record'.binding_id = issued' /\ UNCHANGED <<row, requests>>
    BY <1>4 DEF Bind
  <2>2. PICK o, c : o = Obsolete /\ c = Entry(record')
    OBVIOUS
  <2>3. Schedule(t, o, c) /\ c.binding_id <= issued'
    BY <1>1, <1>4, <2>1, <2>2 DEF Bind, Entry
  <2>4. KnownTasks'
    BY <1>1, <1>2, <2>1, <2>3
  <2>5. row # None => row.binding_id <= issued'
    BY <1>1, <2>1, EntryFields DEF Issued
  <2> QED
    BY <1>1, <2>1, <2>4, <2>5 DEF Issued
<1>5. ASSUME NEW t \in Tasks, UNCHANGED <<row, issued, requests>>, record' = NoRecord,
             Schedule(t, Obsolete, None)
      PROVE  Issued'
  <2>1. PICK o : o = Obsolete
    OBVIOUS
  <2>2. KnownTasks'
    BY <1>1, <1>2, <1>5, <2>1
  <2> QED
    BY <1>5, <2>2 DEF Issued
<1>6. ASSUME NEW cs \in Offers, NEW p \in Preferences(cs), NEW t \in Tasks, Unroutable(cs, p, t)
      PROVE  Issued'
  BY <1>5, <1>6 DEF Unroutable
<1>7. ASSUME NEW t \in Tasks, Alarm(t) PROVE Issued'
  <2>1. CASE record # NoRecord /\ ~Expired
    BY <1>7, <2>1 DEF Alarm, Issued
  <2>2. CASE ~(record # NoRecord /\ ~Expired)
    BY <1>5, <1>7, <2>2 DEF Alarm
  <2> QED
    BY <2>1, <2>2
<1>8. ASSUME NEW t \in Tasks, TaskStep(t) \/ Lose(t) PROVE Issued'
  <2>1. UNCHANGED <<issued, requests>>
    BY <1>8 DEF TaskStep, Unregister, Register, Confirm, Bump, Discard, Lose, object
  <2>2. row' \in {None, row, tasks[t].candidate}
    BY <1>8 DEF TaskStep, Unregister, Register, Confirm, Bump, Discard, Lose, Registered, Removed
  <2>3. Known(tasks[t].candidate) /\ Known(row)
    BY DEF Issued
  <2>4. record' = record \/ (record # NoRecord /\ record'.binding_id = record.binding_id)
    BY <1>8, RecordKept, SessionAssumption
       DEF TaskStep, Unregister, Register, Discard, Lose, object
  <2>5. \A u \in Tasks : tasks'[u].candidate # None =>
          tasks'[u].candidate.binding_id <= issued
    <3>1. ASSUME NEW task, Become(t, task), Known(task.candidate)
          PROVE  \A u \in Tasks : tasks'[u].candidate # None =>
                   tasks'[u].candidate.binding_id <= issued
      BY <3>1, Becomes DEF Issued
    <3>2. CASE Bump(t)
      <4> DEFINE next == [record EXCEPT !.generation = Bumped(tasks[t].seen) + 1,
                                        !.index_registered = FALSE]
      <4>1. \/ Become(t, [tasks[t] EXCEPT !.pc = "discard"])
            \/ Become(t, IdleTask)
            \/ record # NoRecord /\ Become(t, RegisterTask(Entry(next), tasks[t].attempt + 1))
        BY <3>2 DEF Bump
      <4>2. [tasks[t] EXCEPT !.pc = "discard"].candidate = tasks[t].candidate
        BY <1>1 DEF Task
      <4>3. record # NoRecord => Entry(next).binding_id = record.binding_id
        BY DEF TypeOK, SessionAffinityRecord, Entry
      <4> HIDE DEF next
      <4> QED
        BY <2>3, <3>1, <4>1, <4>2, <4>3 DEF IdleTask, RegisterTask, Issued
    <3>3. CASE ~Bump(t)
      <4>1. PICK task : Become(t, task) /\ task.candidate \in {None, tasks[t].candidate}
        <5>1. /\ [tasks[t] EXCEPT !.pc = "discard"].candidate = tasks[t].candidate
              /\ [tasks[t] EXCEPT !.pc = "confirm"].candidate = tasks[t].candidate
              /\ \A seen : [tasks[t] EXCEPT !.pc = "bump", !.seen = seen].candidate =
                             tasks[t].candidate
              /\ \A n : RegisterTask(tasks[t].candidate, n).candidate = tasks[t].candidate
              /\ IdleTask.candidate = None
          BY <1>1 DEF Task, RegisterTask, IdleTask
        <5> QED
          BY <1>8, <3>3, <5>1 DEF TaskStep, Unregister, Register, Confirm, Discard, Lose
      <4> QED
        BY <2>3, <3>1, <4>1
    <3> QED
      BY <3>2, <3>3
  <2> QED
    BY <2>1, <2>2, <2>3, <2>4, <2>5 DEF Issued
<1>9. ASSUME NEW q \in Requests, List(q) \/ ClearAll(q) \/ ClearOne(q) PROVE Issued'
  <2>1. PICK pc, upto : /\ Arrive(q, pc, row, upto)
                        /\ pc \in {"clear_one", "clear_page"} => row # None /\ upto = issued
    BY <1>9 DEF List, ClearAll, ClearOne
  <2>2. \A r \in Requests :
          requests'[r] = IF r = q THEN [pc |-> pc, entry |-> row, upto |-> upto] ELSE requests[r]
    BY <2>1, Requested DEF Arrive
  <2> QED
    BY <2>1, <2>2 DEF Issued, Arrive, object
<1>10. ASSUME NEW q \in Requests, RequestStep(q) \/ Abort(q) PROVE Issued'
  <2>1. UNCHANGED <<tasks, issued>> /\ row' \in {None, row} /\ record' \in {NoRecord, record}
    BY <1>10 DEF RequestStep, GetStatus, ClearIfBindingId, ClearManaged, RemoveRow, Abort,
                 Delete, object, Removed
  <2>2. PICK request : /\ requests' = [requests EXCEPT ![q] = request]
                       /\ request.pc \in {"remove", "idle"}
    <3>1. IdleRequest.pc = "idle"
      BY DEF IdleRequest
    <3>2. \A e, n : [pc |-> "remove", entry |-> e, upto |-> n].pc = "remove"
      OBVIOUS
    <3> QED
      BY <1>10, <3>1, <3>2 DEF RequestStep, GetStatus, ClearIfBindingId, ClearManaged, RemoveRow,
                               Abort, EndRequest, Proceed
  <2>3. \A r \in Requests : requests'[r] = IF r = q THEN request ELSE requests[r]
    BY <2>2, Requested
  <2> QED
    BY <2>1, <2>2, <2>3 DEF Issued
<1>11. CASE Tick \/ UNCHANGED vars
  BY <1>11 DEF Tick, vars, object, Issued
<1> QED
  BY <1>3, <1>4, <1>6, <1>7, <1>8, <1>9, <1>10, <1>11 DEF Next

\* A clear that names the row it read spares every binding issued after it read
\* (clearIfBindingId).  A clear-one that found no row is not meant: it deletes
\* whatever binding there is (clearManaged).
THEOREM SparesLater == Spec => ClearSparesLater
<1> DEFINE Spares(q) ==
             /\ requests[q].pc \in {"clear_one", "clear_page"}
             /\ requests'[q].pc = "remove"
             /\ record # NoRecord /\ record' = NoRecord
             => record.binding_id <= requests[q].upto
<1>1. Init => TypeOK /\ Issued
  BY InitTyped DEF Init, Issued, IdleTask, IdleRequest
<1>2. TypeOK /\ Issued /\ [Next]_vars => TypeOK' /\ Issued'
  BY NextTyped, NextIssued
<1>3. TypeOK /\ Issued /\ [Next]_vars => [\A q \in Requests : Spares(q)]_vars
  <2> SUFFICES ASSUME TypeOK, Issued, Next, NEW q \in Requests,
                      requests[q].pc \in {"clear_one", "clear_page"},
                      requests'[q].pc = "remove",
                      record # NoRecord, record' = NoRecord
               PROVE  record.binding_id <= requests[q].upto
    OBVIOUS
  <2>1. requests' # requests
    OBVIOUS
  <2>2. PICK r \in Requests : List(r) \/ ClearAll(r) \/ ClearOne(r) \/ RequestStep(r) \/ Abort(r)
    BY <2>1 DEF Next, Hit, Bind, Unroutable, Alarm, TaskStep, Unregister, Register, Confirm, Bump,
                Discard, Lose, Tick
  <2>3. PICK request : requests' = [requests EXCEPT ![r] = request]
    BY <2>2 DEF List, ClearAll, ClearOne, Arrive, RequestStep, GetStatus, ClearIfBindingId,
                ClearManaged, RemoveRow, Abort, EndRequest, Proceed
  <2>4. r = q
    BY <2>3, Requested
  <2>5. ClearIfBindingId(q) /\ Holds(requests[q].entry)
    BY <2>2, <2>4 DEF List, ClearAll, ClearOne, Arrive, RequestStep, GetStatus, ClearIfBindingId,
                ClearManaged, RemoveRow, Abort, Named, object
  <2> QED
    BY <2>5 DEF Holds, Entry, Issued
<1> QED
  BY <1>1, <1>2, <1>3, PTL DEF Spec, ClearSparesLater
-----------------------------------------------------------------------------
LEMMA NextCovered == TypeOK /\ AlarmCovers /\ [Next]_vars => AlarmCovers'
<1> SUFFICES ASSUME TypeOK, AlarmCovers, [Next]_vars, ~Faults
             PROVE  alarm' = IF record' = NoRecord THEN NoAlarm ELSE record'.updated_at + TTL
  BY DEF AlarmCovers
<1>1. alarm = IF record = NoRecord THEN NoAlarm ELSE record.updated_at + TTL
  BY DEF AlarmCovers
<1>2. ASSUME NEW cs \in Offers, NEW p \in Preferences(cs), NEW t \in Tasks,
             Hit(cs, p, t) \/ Bind(cs, p, t)
      PROVE  record' # NoRecord /\ record'.updated_at = now /\ alarm' = now + TTL
  <2>1. record' # NoRecord
    BY <1>2, HitTyped, BindTyped, SessionAssumption
  <2>2. CASE Hit(cs, p, t)
    <3>1. record \in SessionAffinityRecord
      BY <2>2, Decisions DEF Hit, Active, TypeOK
    <3> QED
      BY <2>1, <2>2, <3>1 DEF Hit, UpdateAlarm, SessionAffinityRecord
  <2>3. CASE Bind(cs, p, t)
    BY <2>1, <2>3 DEF Bind, UpdateAlarm
  <2> QED
    BY <1>2, <2>2, <2>3
<1>3. ASSUME NEW cs \in Offers, NEW p \in Preferences(cs), NEW t \in Tasks, Unroutable(cs, p, t)
      PROVE  record' = NoRecord /\ alarm' = NoAlarm
  BY <1>3 DEF Unroutable, UpdateAlarm
<1>4. ASSUME NEW t \in Tasks, Alarm(t)
      PROVE  \/ record' = NoRecord /\ alarm' = NoAlarm
             \/ record' = record /\ record # NoRecord /\ alarm' = record.updated_at + TTL
  BY <1>4 DEF Alarm
<1>5. ASSUME NEW t \in Tasks, TaskStep(t) \/ Lose(t)
      PROVE  /\ alarm' = alarm
             /\ \/ record' = record
                \/ /\ record # NoRecord /\ record' # NoRecord
                   /\ record'.updated_at = record.updated_at
  <2>1. alarm' = alarm
    BY <1>5 DEF TaskStep, Unregister, Register, Confirm, Bump, Discard, Lose, object
  <2>2. CASE Confirm(t) \/ Bump(t)
    BY <2>1, <2>2, RecordKept, SessionAssumption
  <2>3. CASE ~(Confirm(t) \/ Bump(t))
    BY <1>5, <2>1, <2>3 DEF TaskStep, Unregister, Register, Discard, Lose, object
  <2> QED
    BY <2>2, <2>3
<1>6. ASSUME NEW q \in Requests,
             List(q) \/ ClearAll(q) \/ ClearOne(q) \/ RequestStep(q) \/ Abort(q)
      PROVE  \/ UNCHANGED <<record, alarm>>
             \/ record' = NoRecord /\ alarm' = NoAlarm
  BY <1>6 DEF List, ClearAll, ClearOne, Arrive, RequestStep, GetStatus, ClearIfBindingId,
              ClearManaged, RemoveRow, Abort, Delete, object
<1>7. CASE Tick \/ UNCHANGED vars
  BY <1>1, <1>7 DEF Tick, vars, object
<1> QED
  BY <1>1, <1>2, <1>3, <1>4, <1>5, <1>6, <1>7 DEF Next

\* Unless setAlarm and deleteAlarm fail, an alarm waits at the expiry of the
\* record, and only then (resolve, alarm, clearIfBindingId, clearManaged).
THEOREM Covered == Spec => []AlarmCovers
<1>1. Init => TypeOK /\ AlarmCovers
  BY InitTyped DEF Init, AlarmCovers
<1>2. TypeOK /\ AlarmCovers /\ [Next]_vars => TypeOK' /\ AlarmCovers'
  BY NextTyped, NextCovered
<1> QED
  BY <1>1, <1>2, PTL DEF Spec
=============================================================================
