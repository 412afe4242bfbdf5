------------------------------- MODULE Binding -------------------------------
(***************************************************************************)
(* What a client may count on of the binding of one session: it names one  *)
(* target under one identifier, every use prolongs it by a lifetime, it is *)
(* replaced under a fresh identifier, while it is alive only to move to    *)
(* another target, and once it is gone it never comes back.                *)
(***************************************************************************)
EXTENDS Integers

CONSTANTS
  Ids,       \* identifiers of bindings
  Targets,   \* what a session is bound to
  Lifetime,  \* how long an unused binding lives
  Unbound    \* there is no binding

VARIABLES clock, binding, used

vars == <<clock, binding, used>>

Init ==
  /\ clock \in Nat
  /\ binding = Unbound
  /\ used = {}

Alive == binding # Unbound /\ clock < binding.until

Bind ==
  \E id \in Ids \ used : \E target \in Targets :
    /\ Alive => target # binding.target
    /\ binding' = [id |-> id, target |-> target, until |-> clock + Lifetime]
    /\ used' = used \cup {id}
    /\ UNCHANGED clock

Renew ==
  /\ Alive
  /\ binding' = [binding EXCEPT !.until = clock + Lifetime]
  /\ UNCHANGED <<clock, used>>

Drop ==
  /\ binding # Unbound
  /\ binding' = Unbound
  /\ UNCHANGED <<clock, used>>

Pass ==
  /\ clock' > clock
  /\ UNCHANGED <<binding, used>>

Next == Bind \/ Renew \/ Drop \/ Pass

Spec == Init /\ [][Next]_vars
=============================================================================
