--------------------------- MODULE StickyRouting ----------------------------
(***************************************************************************)
(* Where the requests of one session are routed while priorities, health   *)
(* and configuration change between them: selectAvailableServiceWithDetails*)
(* of src/routing.ts offers a candidate list and its own random choice,    *)
(* SessionAffinity.resolve decides.  Only the target of the record is      *)
(* kept here; SessionAffinity.tla has the record's life and its index.     *)
(***************************************************************************)
EXTENDS Affinity

CONSTANT Offers  \* candidate lists a request may come with
                 \* (none is empty: routing answers those requests itself)

ASSUME OffersAssumption == \A cs \in Offers : IsCandidateList(cs) /\ Pairs(cs) # {}

VARIABLES
  bound,      \* target of the session's record, None when there is none
  candidates, \* arguments of the last resolve
  preferred,
  status      \* what the last step was: "start", "hit", "created", "rebound", "dropped"

vars == <<bound, candidates, preferred, status>>

Init ==
  /\ bound = None
  /\ candidates = <<>>
  /\ preferred = None
  /\ status = "start"

\* resolve(): the stored target decides when it is still active.  Nothing says
\* that the caller's preference is sound, or that there is one.
Resolve(cs, pref) ==
  LET d == IF bound = None
           THEN Decision(choosePreferredOrRandom(cs, pref), "created")
           ELSE resolveStoredAffinity(bound, cs, pref)
  IN /\ bound' = d.selection
     /\ status' = d.status
     /\ candidates' = cs
     /\ preferred' = pref

\* The record expires, or is cleared.
Drop ==
  /\ bound # None
  /\ bound' = None
  /\ status' = "dropped"
  /\ UNCHANGED <<candidates, preferred>>

Next ==
  \/ \E cs \in Offers : \E pref \in AffinitySelection \cup {None} : Resolve(cs, pref)
  \/ Drop

Spec == Init /\ [][Next]_vars
-----------------------------------------------------------------------------
TypeOK ==
  /\ bound \in IF status \in {"start", "dropped"} THEN {None} ELSE AffinitySelection
  /\ candidates \in Offers \cup {<<>>}
  /\ preferred \in AffinitySelection \cup {None}
  /\ status \in {"start", "hit", "created", "rebound", "dropped"}

\* Whatever was bound before and whatever the caller prefers, a request goes to
\* a pair no candidate outranks (README.md:152, "at the highest available
\* priority"), and so does every random choice of chooseAffinityCandidate.
RoutedToBest ==
  /\ status \in {"hit", "created", "rebound"} => bound \in Best(candidates)
  /\ Choices(candidates) = Best(candidates)

\* A session stays where it is as long as nothing outranks it: equal priorities
\* do not move a binding (README.md:152, resolveStoredAffinity).
StaysWhileBest ==
  [][bound # None /\ bound \in Best(candidates') => bound' \in {bound, None}]_vars

\* Where a session goes when it is rebound.  With its own target still on the list
\* and its service among the best, it changes to a best key of that service.  In
\* every other case it may go to any of the best targets: so a session that lost
\* its key may leave for a tied service although another key of its own service is
\* among the best.  Among the targets it may go to, the one the request would have
\* taken by itself comes first (README.md:152, resolveStoredAffinity,
\* choosePreferredOrRandomWithinService).
MovesLeast ==
  [][status' = "rebound" =>
       LET within == {p \in Best(candidates') : p.service_id = bound.service_id}
           lostKey == ~\E p \in Pairs(candidates') : Target(p.service, p.key) = bound
           allowed == IF lostKey \/ within = {} THEN Best(candidates') ELSE within
       IN /\ bound' \in allowed
          /\ preferred' \in allowed => bound' = preferred']_vars
=============================================================================
