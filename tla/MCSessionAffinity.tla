------------------------- MODULE MCSessionAffinity --------------------------
(* One session of one client key, whose two targets are keys of a service.  *)
EXTENDS SessionAffinity, TLC

CONSTANTS s1, k1, k2

Offer(keys) == <<[service_id |-> s1, priority |-> 0, keys |-> keys]>>
Key(id, p) == [key_id |-> id, priority |-> p]

\* The second key is out, or it is back and outranks the first.
Routable == {Offer(<<Key(k1, 0)>>), Offer(<<Key(k1, 0), Key(k2, 1)>>)}

\* And no key is left, a list that resolve() answers though routing keeps it back.
MCOffers == Routable \cup {<<>>}

TaskSymmetry == Permutations(Tasks)
=============================================================================
