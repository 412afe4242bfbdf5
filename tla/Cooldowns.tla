----------------------------- MODULE Cooldowns ------------------------------
(***************************************************************************)
(* What the health store promises a caller, with nothing of how it counts: *)
(* one action per event.  A target is out until a fixed instant, one       *)
(* cooldown after the failure that put it out.  A failure of a key always  *)
(* moves that instant, a failure of a service that is out never does; any  *)
(* success and any operator ends it early; no read changes it.             *)
(***************************************************************************)
EXTENDS Integers

CONSTANTS
  Services,   \* targets a streak of failures puts out
  Keys,       \* targets a single failure puts out
  Cooldown    \* how long a target stays out

VARIABLES
  clock,
  out         \* out[o]: the instant o comes back, 0 while it is in

vars == <<clock, out>>

Init ==
  /\ clock \in Nat
  /\ out = [o \in Services \cup Keys |-> 0]

Read(o) == UNCHANGED vars

PutOut(o) ==
  /\ out' = [out EXCEPT ![o] = clock + Cooldown]
  /\ clock' = clock

\* One more failure, or the one that fills the streak.
Failure(s) == UNCHANGED vars \/ (out[s] = 0 /\ PutOut(s))

KeyFailure(k) == PutOut(k)

BringBack(o) ==
  /\ out' = [out EXCEPT ![o] = 0]
  /\ clock' = clock

Success(s) == BringBack(s)

Clear(o) == BringBack(o)

\* Time passes; the targets whose instant is reached are in again.
Pass ==
  /\ clock' = clock + 1
  /\ out' = [o \in Services \cup Keys |-> IF out[o] <= clock' THEN 0 ELSE out[o]]

Next ==
  \/ \E o \in Services \cup Keys : Read(o) \/ Clear(o)
  \/ \E s \in Services : Success(s) \/ Failure(s)
  \/ \E k \in Keys : KeyFailure(k)
  \/ Pass

Spec == Init /\ [][Next]_vars
=============================================================================
