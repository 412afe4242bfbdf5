-------------------------- MODULE MCStickyRouting ---------------------------
(* Two services, one with two keys and one with one, every priority 0 or 1 *)
(* and every set of keys available, listed as sortRoutedServices does.      *)
EXTENDS StickyRouting, FiniteSets

CONSTANTS s1, s2, k1, k2

Priority == {0, 1}

KeyLists(ids) ==
  {SelectSeq(all, LAMBDA k : k.key_id \in up) :
     all \in {[i \in DOMAIN ids |-> [key_id |-> ids[i], priority |-> p[i]]] :
                p \in [DOMAIN ids -> Priority]},
     up \in SUBSET {ids[i] : i \in DOMAIN ids}} \ {<<>>}

\* The lists that a service adds to: none when it is out, or one entry.
Entries(id, ids) ==
  {<<>>} \cup {<<[service_id |-> id, priority |-> p, keys |-> ks]>> :
                 p \in Priority, ks \in KeyLists(ids)}

MCOffers ==
  {cs \in {a \o b : a \in Entries(s1, <<k1, k2>>), b \in Entries(s2, <<k1>>)} \cup
          {b \o a : a \in Entries(s1, <<k1, k2>>), b \in Entries(s2, <<k1>>)} :
     /\ cs # <<>>
     /\ Len(cs) = 2 => \/ cs[1].priority > cs[2].priority
                       \/ cs[1].priority = cs[2].priority /\ cs[1].service_id = s1}
=============================================================================
