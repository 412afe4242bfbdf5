---------------------------- MODULE HealthRecord ----------------------------
(***************************************************************************)
(* The arithmetic of one health record: class ServiceHealthState of        *)
(* src/health.ts.  Every operator takes the record h and the time t the    *)
(* code reads from its clock, and returns the record the call leaves.      *)
(***************************************************************************)
EXTENDS Integers

CONSTANTS
  FAILURE_THRESHOLD,  \* failures of one window that start a cooldown (10)
  FAILURE_WINDOW_MS,  \* length of a failure window (5 minutes)
  COOLDOWN_MS,        \* length of a cooldown (30 minutes)
  Null                \* JavaScript's null

ASSUME HealthAssumption ==
  /\ FAILURE_THRESHOLD \in Nat \ {0}
  /\ FAILURE_WINDOW_MS \in Nat \ {0}
  /\ COOLDOWN_MS \in Nat \ {0}
  /\ Null \notin Nat

Time == Nat

HealthState == [failures : Nat,
                failure_window_started_at : Time \cup {Null},
                cooling_until : Time \cup {Null}]

\* The state of a constructor called with nothing stored, which getStoredState
\* turns into null and the Durable Object into an absent key.
Fresh == [failures |-> 0, failure_window_started_at |-> Null, cooling_until |-> Null]

\* The pair of fields that counts failures, set together.
WithFailures(h, n, started) ==
  [failures |-> n, failure_window_started_at |-> started, cooling_until |-> h.cooling_until]

ResetFailures(h) == WithFailures(h, 0, Null)

WindowOver(h, t) == t - h.failure_window_started_at >= FAILURE_WINDOW_MS

\* A cooldown that is over forgets its failures with it.
EndCooldown(h, t) ==
  IF h.cooling_until # Null /\ t >= h.cooling_until THEN Fresh ELSE h

EndWindow(h, t) ==
  IF h.cooling_until = Null /\ h.failure_window_started_at # Null /\ WindowOver(h, t)
  THEN ResetFailures(h)
  ELSE h

\* snapshot(now): every call goes through it, reads included.
Snapshot(h, t) == EndWindow(EndCooldown(h, t), t)

\* Wrong on purpose, as are all the definitions named Wrong...: the failures
\* survive a success.
WrongCleared(h, t) == Snapshot([h EXCEPT !.cooling_until = Null], t)

\* clear() and recordSuccess() forget the failures and the cooldown.
Cleared(h, t) == Snapshot([ResetFailures(h) EXCEPT !.cooling_until = Null], t)

\* The part recordFailure and recordImmediateFailure share: count one failure
\* in the open window, or open a window at t.
Counted(h, t) ==
  IF h.failure_window_started_at = Null \/ WindowOver(h, t)
  THEN WithFailures(h, 1, t)
  ELSE WithFailures(h, h.failures + 1, h.failure_window_started_at)

Cooled(h, t) == [h EXCEPT !.cooling_until = t + COOLDOWN_MS]

\* Wrong: one failure too many is needed.
WrongThreshold(h, t) ==
  LET s == Snapshot(h, t)
      c == Counted(s, t)
  IN Snapshot(IF s.cooling_until # Null THEN s
              ELSE IF c.failures > FAILURE_THRESHOLD THEN Cooled(c, t)
              ELSE c, t)

AfterFailure(h, t) ==
  LET s == Snapshot(h, t)
      c == Counted(s, t)
  IN Snapshot(IF s.cooling_until # Null THEN s
              ELSE IF c.failures >= FAILURE_THRESHOLD THEN Cooled(c, t)
              ELSE c, t)

\* Wrong: a key that is cooling already is left as it is.
WrongNoRefresh(h, t) ==
  LET s == Snapshot(h, t)
  IN Snapshot(IF s.cooling_until # Null THEN s ELSE Cooled(Counted(s, t), t), t)

AfterImmediateFailure(h, t) ==
  LET s == Snapshot(h, t)
  IN Snapshot(Cooled(IF s.cooling_until # Null THEN s ELSE Counted(s, t), t), t)
=============================================================================
