------------------------ MODULE ServiceHealthProofs -------------------------
(***************************************************************************)
(* Proofs about ServiceHealth, for every threshold, window, cooldown, set  *)
(* of services and set of keys.                                            *)
(***************************************************************************)
EXTENDS ServiceHealth, TLAPS

\* f is a record of times in order, none later than t.
Ordered(f, t) ==
  /\ \A i \in 1 .. Len(f) : f[i] <= t
  /\ \A i, j \in 1 .. Len(f) : i <= j => f[i] <= f[j]

\* The last failure tripped the cooldown at the end of a full window.
Earned(h, f) ==
  /\ Len(f) >= FAILURE_THRESHOLD
  /\ f[Len(f)] - f[Len(f) - FAILURE_THRESHOLD + 1] < FAILURE_WINDOW_MS
  /\ h.cooling_until = f[Len(f)] + COOLDOWN_MS

\* The failures counted in h are the last h.failures entries of f.
Anchored(h, f) ==
  /\ h.failures = 0 <=> h.failure_window_started_at = Null
  /\ h.failures < FAILURE_THRESHOLD
  /\ h.failures <= Len(f)
  /\ h.failures > 0 => h.failure_window_started_at = f[Len(f) - h.failures + 1]

\* A window that is no longer open left fewer than FAILURE_THRESHOLD entries,
\* the first of them a whole window before the next one could open, at a.
Spaced(h, f, t) ==
  LET open == Len(f) - h.failures + 1
      a == IF h.failures = 0 THEN t ELSE f[open]
  IN \A i \in 1 .. Len(f) :
       i <= open - (FAILURE_THRESHOLD - 1) /\ i < open => a - f[i] >= FAILURE_WINDOW_MS

NoBurst(f) ==
  \A i, j \in 1 .. Len(f) :
    j = i + 2 * FAILURE_THRESHOLD - 2 => f[j] - f[i] >= FAILURE_WINDOW_MS

ServiceInv(h, f, t) ==
  /\ Ordered(f, t)
  /\ h.cooling_until # Null => Earned(h, f)
  /\ h.cooling_until = Null => Anchored(h, f) /\ Spaced(h, f, t) /\ NoBurst(f)

KeyInv(h, c, t) ==
  IF h.cooling_until = Null
  THEN c = Null \/ t >= c + COOLDOWN_MS
  ELSE c # Null /\ h.cooling_until = c + COOLDOWN_MS

IInv ==
  /\ TypeOK
  /\ \A s \in Services : ServiceInv(Load(s), failedAt[s], now)
  /\ \A k \in Keys : KeyInv(Load(k), cooledAt[k], now)
-----------------------------------------------------------------------------
(* One record. *)

\* Every operation of ServiceHealthState returns a health state.
LEMMA RecordTypes ==
  ASSUME NEW h \in HealthState, NEW t \in Time
  PROVE  /\ Fresh \in HealthState
         /\ Snapshot(h, t) \in HealthState
         /\ Cleared(h, t) = Fresh
         /\ AfterFailure(h, t) \in HealthState
         /\ AfterImmediateFailure(h, t) \in HealthState
<1> USE HealthAssumption DEF HealthState, Time, ResetFailures, WithFailures
<1>1. ASSUME NEW g \in HealthState
      PROVE  Snapshot(g, t) \in HealthState
  BY DEF Snapshot, EndCooldown, EndWindow, Fresh
<1>2. ASSUME NEW g \in HealthState
      PROVE  Counted(g, t) \in HealthState /\ Cooled(g, t) \in HealthState
  BY DEF Counted, Cooled
<1>3. Fresh \in HealthState
  BY DEF Fresh
<1>4. Cleared(h, t) = Fresh
  BY DEF Cleared, Fresh, Snapshot, EndCooldown, EndWindow
<1>5. AfterFailure(h, t) \in HealthState
  BY <1>1, <1>2 DEF AfterFailure
<1>6. AfterImmediateFailure(h, t) \in HealthState
  BY <1>1, <1>2 DEF AfterImmediateFailure
<1> QED
  BY <1>1, <1>3, <1>4, <1>5, <1>6

\* A read returns a cooldown that is not over unchanged, and forgets one that is.
LEMMA SnapshotCooling ==
  ASSUME NEW h \in HealthState, NEW t \in Time, h.cooling_until # Null
  PROVE  Snapshot(h, t) = IF t >= h.cooling_until THEN Fresh ELSE h
BY HealthAssumption
   DEF HealthState, Time, ResetFailures, WithFailures, Fresh, WindowOver, Snapshot, EndCooldown, EndWindow

\* A read of a record that is not cooling leaves it, or closes its window.
LEMMA SnapshotClosed ==
  ASSUME NEW h \in HealthState, NEW t \in Time, h.cooling_until = Null
  PROVE  Snapshot(h, t) =
           IF h.failure_window_started_at # Null /\ WindowOver(h, t) THEN Fresh ELSE h
BY HealthAssumption
   DEF HealthState, Time, ResetFailures, WithFailures, Fresh, WindowOver, Snapshot, EndCooldown, EndWindow

\* What one failure does to a record, by the case the code distinguishes.
LEMMA FailureCases ==
  ASSUME NEW h \in HealthState, NEW t \in Time
  PROVE  LET s == Snapshot(h, t)
             c == Counted(s, t)
         IN /\ s.cooling_until # Null => AfterFailure(h, t) = s
            /\ s.cooling_until = Null =>
                 /\ s.failure_window_started_at # Null => ~ WindowOver(s, t)
                 /\ AfterFailure(h, t) =
                      IF c.failures >= FAILURE_THRESHOLD THEN Cooled(c, t) ELSE c
<1> DEFINE s == Snapshot(h, t)
           c == Counted(s, t)
<1>1. s \in HealthState
  BY RecordTypes
<1>2. s.cooling_until # Null => AfterFailure(h, t) = s
  BY SnapshotCooling, HealthAssumption
     DEF AfterFailure, HealthState, Time, Snapshot, EndCooldown, EndWindow, Fresh, ResetFailures, WithFailures
<1>3. ASSUME s.cooling_until = Null
      PROVE  /\ s.failure_window_started_at # Null => ~ WindowOver(s, t)
             /\ AfterFailure(h, t) =
                  IF c.failures >= FAILURE_THRESHOLD THEN Cooled(c, t) ELSE c
  <2>1. s.failure_window_started_at # Null => ~ WindowOver(s, t)
    BY <1>3, HealthAssumption
       DEF HealthState, Time, Snapshot, EndCooldown, EndWindow, Fresh, ResetFailures, WithFailures, WindowOver
  <2>2. /\ c \in HealthState
        /\ c.cooling_until = Null
        /\ c.failure_window_started_at # Null
        /\ ~ WindowOver(c, t)
    BY <1>1, <1>3, <2>1, HealthAssumption
       DEF Counted, HealthState, Time, ResetFailures, WithFailures, WindowOver
  <2>3. Snapshot(c, t) = c
    BY <2>2, SnapshotClosed
  <2>4. Cooled(c, t) \in HealthState /\ Cooled(c, t).cooling_until = t + COOLDOWN_MS
    BY <2>2, HealthAssumption DEF Cooled, HealthState, Time
  <2>5. Snapshot(Cooled(c, t), t) = Cooled(c, t)
    <3>1. t + COOLDOWN_MS # Null /\ ~ (t >= t + COOLDOWN_MS)
      BY HealthAssumption DEF Time
    <3> QED
      BY <2>4, <3>1, SnapshotCooling
  <2> QED
    BY <1>3, <2>1, <2>3, <2>5 DEF AfterFailure
<1> QED
  BY <1>2, <1>3
-----------------------------------------------------------------------------
(* One service record with the failures that count for it. *)

\* The entries that still count at time t.
SlateOf(h, f, t) ==
  IF h.cooling_until # Null /\ t >= h.cooling_until THEN <<>> ELSE f

\* The invariant of a record nothing was counted in.
LEMMA FreshInv ==
  ASSUME NEW t \in Time
  PROVE  ServiceInv(Fresh, <<>>, t)
BY HealthAssumption
   DEF Fresh, ServiceInv, Ordered, Anchored, Spaced, NoBurst, Time

\* The passing of time keeps the invariant.
LEMMA LaterInv ==
  ASSUME NEW h \in HealthState, NEW f \in Seq(Time), NEW t \in Time, NEW u \in Time,
         u >= t, ServiceInv(h, f, t)
  PROVE  ServiceInv(h, f, u)
<1> USE HealthAssumption DEF Time, HealthState
<1>1. \A i \in 1 .. Len(f) : f[i] \in Nat
  OBVIOUS
<1>2. Ordered(f, u)
  BY <1>1 DEF ServiceInv, Ordered
<1>3. h.cooling_until = Null => Spaced(h, f, u)
  <2> SUFFICES ASSUME h.cooling_until = Null, NEW i \in 1 .. Len(f),
                      i <= Len(f) - h.failures + 1 - (FAILURE_THRESHOLD - 1),
                      i < Len(f) - h.failures + 1
               PROVE  (IF h.failures = 0 THEN u ELSE f[Len(f) - h.failures + 1]) - f[i]
                        >= FAILURE_WINDOW_MS
    BY DEF Spaced
  <2>1. (IF h.failures = 0 THEN t ELSE f[Len(f) - h.failures + 1]) - f[i] >= FAILURE_WINDOW_MS
    BY DEF ServiceInv, Spaced
  <2> QED
    BY <1>1, <2>1
<1> QED
  BY <1>2, <1>3 DEF ServiceInv

\* A read keeps the invariant, with the entries that still count.
LEMMA SnapshotInv ==
  ASSUME NEW h \in HealthState, NEW f \in Seq(Time), NEW t \in Time,
         ServiceInv(h, f, t)
  PROVE  ServiceInv(Snapshot(h, t), SlateOf(h, f, t), t)
<1> USE HealthAssumption
<1>1. CASE h.cooling_until # Null
  BY <1>1, SnapshotCooling, FreshInv DEF SlateOf
<1>2. CASE h.cooling_until = Null /\ ~ (h.failure_window_started_at # Null /\ WindowOver(h, t))
  BY <1>2, SnapshotClosed DEF SlateOf
<1>3. CASE h.cooling_until = Null /\ h.failure_window_started_at # Null /\ WindowOver(h, t)
  <2> DEFINE open == Len(f) - h.failures + 1
  <2>1. Snapshot(h, t) = Fresh /\ SlateOf(h, f, t) = f
    BY <1>3, SnapshotClosed DEF SlateOf
  <2>2. /\ Ordered(f, t) /\ NoBurst(f) /\ Anchored(h, f)
        /\ h.failures \in Nat /\ h.failures > 0
        /\ open \in 1 .. Len(f) /\ h.failure_window_started_at = f[open]
    BY <1>3 DEF ServiceInv, Anchored, HealthState
  <2>3. t - f[open] >= FAILURE_WINDOW_MS
    BY <1>3, <2>2 DEF WindowOver
  <2>4. ASSUME NEW i \in 1 .. Len(f), i <= Len(f) + 1 - (FAILURE_THRESHOLD - 1)
        PROVE  t - f[i] >= FAILURE_WINDOW_MS
    <3>1. i <= open
      BY <2>2, <2>4 DEF Anchored
    <3>2. f[i] <= f[open] /\ f[i] \in Nat /\ f[open] \in Nat
      BY <2>2, <3>1 DEF Ordered, Time
    <3> QED
      BY <2>3, <3>2 DEF Time
  <2>5. Spaced(Fresh, f, t) /\ Anchored(Fresh, f)
    BY <2>4 DEF Spaced, Anchored, Fresh
  <2> QED
    BY <2>1, <2>2, <2>5 DEF ServiceInv, Fresh
<1> QED
  BY <1>1, <1>2, <1>3

\* Counting a failure in a record that is not cooling: the new entry extends
\* the open window, or opens one, and the FAILURE_THRESHOLD-th trips it.
LEMMA CountedInv ==
  ASSUME NEW s \in HealthState, NEW f \in Seq(Time), NEW t \in Time,
         s.cooling_until = Null, ServiceInv(s, f, t),
         s.failure_window_started_at # Null => ~ WindowOver(s, t)
  PROVE  LET c == Counted(s, t)
         IN ServiceInv(IF c.failures >= FAILURE_THRESHOLD THEN Cooled(c, t) ELSE c,
                       Append(f, t), t)
<1> DEFINE c == Counted(s, t)
           g == Append(f, t)
           n == Len(f)
           open == n - s.failures + 1
<1> SUFFICES ServiceInv(IF c.failures >= FAILURE_THRESHOLD THEN Cooled(c, t) ELSE c, g, t)
  OBVIOUS
<1> USE HealthAssumption
<1>1. /\ Ordered(f, t) /\ Anchored(s, f) /\ Spaced(s, f, t) /\ NoBurst(f)
      /\ s.failures \in Nat /\ n \in Nat /\ t \in Nat
      /\ \A i \in 1 .. n : f[i] \in Nat
  BY DEF ServiceInv, HealthState, Time
<1>2. /\ g \in Seq(Time) /\ Len(g) = n + 1 /\ g[n + 1] = t
      /\ \A i \in 1 .. n : g[i] = f[i]
      /\ \A i \in 1 .. n + 1 : g[i] \in Nat
  BY DEF Time
<1>3. /\ c \in HealthState
      /\ c.cooling_until = Null
      /\ c.failures = s.failures + 1
      /\ c.failure_window_started_at = g[open]
      /\ open \in 1 .. n + 1
      /\ t - g[open] < FAILURE_WINDOW_MS
      /\ g[open] \in Nat
  <2>1. CASE s.failure_window_started_at = Null
    <3>1. s.failures = 0 /\ c = WithFailures(s, 1, t)
      BY <2>1, <1>1 DEF Anchored, Counted
    <3> QED
      BY <3>1, <1>1, <1>2 DEF WithFailures, HealthState, Time
  <2>2. CASE s.failure_window_started_at # Null
    <3>1. /\ s.failures > 0 /\ ~ WindowOver(s, t)
          /\ c = WithFailures(s, s.failures + 1, s.failure_window_started_at)
      BY <2>2, <1>1 DEF Anchored, Counted
    <3>2. open \in 1 .. n /\ s.failure_window_started_at = f[open]
      BY <3>1, <1>1 DEF Anchored
    <3> QED
      BY <3>1, <3>2, <1>1, <1>2 DEF WithFailures, HealthState, Time, WindowOver
  <2> QED
    BY <2>1, <2>2
<1> HIDE DEF c, g
<1>4. Ordered(g, t)
  <2>1. \A i \in 1 .. n : g[i] <= t
    BY <1>1, <1>2 DEF Ordered
  <2>2. \A i \in 1 .. n + 1 : i = n + 1 \/ i \in 1 .. n
    BY <1>1
  <2>3. ASSUME NEW i \in 1 .. n + 1, NEW j \in 1 .. n + 1, i <= j
        PROVE  g[i] <= g[j]
    <3>1. CASE j \in 1 .. n
      BY <1>1, <1>2, <2>3, <3>1 DEF Ordered
    <3>2. CASE j = n + 1
      BY <1>1, <1>2, <2>1, <2>2, <3>2
    <3> QED
      BY <2>2, <3>1, <3>2
  <2> QED
    BY <1>1, <1>2, <2>1, <2>2, <2>3 DEF Ordered
<1>5. CASE c.failures >= FAILURE_THRESHOLD
  <2>1. s.failures + 1 = FAILURE_THRESHOLD
    BY <1>1, <1>3, <1>5 DEF Anchored
  <2>2. n + 1 - FAILURE_THRESHOLD + 1 = open
    BY <2>1, <1>1
  <2>3. Cooled(c, t).cooling_until = t + COOLDOWN_MS
    BY <1>3 DEF Cooled, HealthState
  <2>4. Earned(Cooled(c, t), g)
    BY <1>1, <1>2, <1>3, <2>1, <2>2, <2>3 DEF Earned
  <2>5. t + COOLDOWN_MS # Null
    BY DEF Time
  <2> QED
    BY <1>4, <1>5, <2>3, <2>4, <2>5 DEF ServiceInv
<1>6. CASE ~ (c.failures >= FAILURE_THRESHOLD)
  <2>1. c.failures < FAILURE_THRESHOLD
    BY <1>1, <1>3, <1>6
  <2>2. Anchored(c, g)
    <3>1. g[open] \in Nat /\ Len(g) - c.failures + 1 = open
      BY <1>1, <1>2, <1>3
    <3>2. c.failures > 0 /\ c.failures <= Len(g) /\ c.failure_window_started_at # Null
      BY <1>1, <1>2, <1>3, <3>1 DEF Anchored
    <3> QED
      BY <1>3, <2>1, <3>1, <3>2 DEF Anchored
  <2>3. ASSUME NEW i \in 1 .. n + 1, i <= open - (FAILURE_THRESHOLD - 1), i < open
        PROVE  g[open] - g[i] >= FAILURE_WINDOW_MS
    <3>1. i \in 1 .. n /\ g[i] = f[i]
      BY <1>1, <1>2, <1>3, <2>3
    <3>2. (IF s.failures = 0 THEN t ELSE f[open]) - f[i] >= FAILURE_WINDOW_MS
      BY <1>1, <2>3, <3>1 DEF Spaced
    <3>3. (IF s.failures = 0 THEN t ELSE f[open]) = g[open]
      <4>1. CASE s.failures = 0
        <5>1. open = n + 1
          BY <1>1, <4>1
        <5> QED
          BY <5>1, <4>1, <1>2
      <4>2. CASE s.failures # 0
        <5>1. open \in 1 .. n
          BY <1>1, <4>2 DEF Anchored
        <5> QED
          BY <5>1, <4>2, <1>2
      <4> QED
        BY <4>1, <4>2
    <3> QED
      BY <3>1, <3>2, <3>3
  <2>4. Spaced(c, g, t)
    BY <1>1, <1>2, <1>3, <2>3 DEF Spaced
  <2>5. NoBurst(g)
    <3> SUFFICES ASSUME NEW i \in 1 .. n + 1, NEW j \in 1 .. n + 1,
                        j = i + 2 * FAILURE_THRESHOLD - 2
                 PROVE  g[j] - g[i] >= FAILURE_WINDOW_MS
      BY <1>2 DEF NoBurst
    <3>1. CASE j \in 1 .. n
      BY <3>1, <1>1, <1>2 DEF NoBurst
    <3>2. CASE j = n + 1
      <4>1. i <= open - (FAILURE_THRESHOLD - 1) /\ i < open
        BY <1>1, <1>3, <2>1, <3>2
      <4>2. g[open] - g[i] >= FAILURE_WINDOW_MS
        BY <2>3, <4>1
      <4>3. g[open] <= g[j] /\ g[open] \in Nat /\ g[j] \in Nat /\ g[i] \in Nat
        BY <1>1, <1>2, <1>3, <1>4, <3>2 DEF Ordered
      <4> QED
        BY <4>2, <4>3
    <3> QED
      BY <3>1, <3>2, <1>1
  <2> QED
    BY <1>3, <1>4, <1>6, <2>2, <2>4, <2>5 DEF ServiceInv
<1> QED
  BY <1>5, <1>6

\* recordFailure keeps the invariant.
LEMMA FailureInv ==
  ASSUME NEW h \in HealthState, NEW f \in Seq(Time), NEW t \in Time,
         ServiceInv(h, f, t)
  PROVE  LET s == Snapshot(h, t)
             g == SlateOf(h, f, t)
         IN ServiceInv(AfterFailure(h, t),
                       IF s.cooling_until = Null \/ s.cooling_until <= t
                       THEN Append(g, t) ELSE f, t)
<1> DEFINE s == Snapshot(h, t)
           g == SlateOf(h, f, t)
<1>1. s \in HealthState /\ g \in Seq(Time) /\ ServiceInv(s, g, t)
  BY RecordTypes, SnapshotInv DEF SlateOf
<1>2. CASE s.cooling_until = Null
  BY <1>1, <1>2, FailureCases, CountedInv
<1>3. CASE s.cooling_until # Null
  <2>1. h.cooling_until # Null
    BY <1>3, SnapshotClosed, HealthAssumption DEF Fresh
  <2>2. s = h /\ ~ (t >= h.cooling_until) /\ g = f
    BY <1>3, <2>1, SnapshotCooling DEF SlateOf, Fresh
  <2>3. ~ (s.cooling_until <= t)
    BY <2>1, <2>2 DEF HealthState, Time
  <2> QED
    BY <1>1, <1>3, <2>2, <2>3, FailureCases
<1> QED
  BY <1>2, <1>3

-----------------------------------------------------------------------------
(* One key record with the time of its last failure. *)

\* A read keeps the invariant of a key, and tells exactly whether its last
\* failure is younger than a cooldown.
LEMMA KeySnapshotInv ==
  ASSUME NEW h \in HealthState, NEW c \in Time \cup {Null}, NEW t \in Time,
         KeyInv(h, c, t)
  PROVE  /\ KeyInv(Snapshot(h, t), c, t)
         /\ LET s == Snapshot(h, t)
            IN (s.cooling_until = Null \/ s.cooling_until <= t)
                 <=> (c = Null \/ t >= c + COOLDOWN_MS)
<1>1. CASE h.cooling_until # Null
  BY <1>1, SnapshotCooling, HealthAssumption DEF KeyInv, Fresh, HealthState, Time
<1>2. CASE h.cooling_until = Null
  BY <1>2, SnapshotClosed, HealthAssumption DEF KeyInv, Fresh, HealthState, Time
<1> QED
  BY <1>1, <1>2

\* recordImmediateFailure leaves the key out for one cooldown from now.
LEMMA KeyFailureInv ==
  ASSUME NEW h \in HealthState, NEW t \in Time
  PROVE  KeyInv(AfterImmediateFailure(h, t), t, t)
<1> DEFINE s == Snapshot(h, t)
           c == IF s.cooling_until # Null THEN s ELSE Counted(s, t)
<1>1. s \in HealthState
  BY RecordTypes
<1>2. c \in HealthState
  BY <1>1, HealthAssumption DEF Counted, WithFailures, HealthState, Time
<1>3. /\ Cooled(c, t) \in HealthState
      /\ Cooled(c, t).cooling_until = t + COOLDOWN_MS
      /\ t + COOLDOWN_MS # Null /\ ~ (t >= t + COOLDOWN_MS)
  BY <1>2, HealthAssumption DEF Cooled, HealthState, Time
<1>4. Snapshot(Cooled(c, t), t) = Cooled(c, t)
  BY <1>3, SnapshotCooling
<1> QED
  BY <1>3, <1>4, HealthAssumption DEF AfterImmediateFailure, KeyInv, Time

-----------------------------------------------------------------------------
(* The store. *)

\* What is read back is what was written, and no other object changes.
LEMMA PersistThenLoad ==
  ASSUME TypeOK, NEW o \in Objects, NEW h \in HealthState, Persist(o, h)
  PROVE  /\ stored' \in [Objects -> HealthState \cup {Absent}]
         /\ Load(o)' = h
         /\ \A p \in Objects : p # o => Load(p)' = Load(p)
BY ObjectsAssumption DEF TypeOK, Persist, Load

LEMMA LoadType ==
  ASSUME TypeOK, NEW o \in Objects
  PROVE  Load(o) \in HealthState
BY RecordTypes DEF TypeOK, Load, Fresh, HealthState

\* The invariant of every object but o is untouched by a step that persists o
\* and changes no other object's history.
LEMMA OthersInv ==
  ASSUME IInv, NEW o \in Objects, NEW h \in HealthState, Persist(o, h), now' = now,
         \A s \in Services : s # o => failedAt'[s] = failedAt[s],
         \A k \in Keys : k # o => cooledAt'[k] = cooledAt[k]
  PROVE  /\ \A s \in Services : s # o => ServiceInv(Load(s)', failedAt'[s], now')
         /\ \A k \in Keys : k # o => KeyInv(Load(k)', cooledAt'[k], now')
<1>1. \A p \in Objects : p # o => Load(p)' = Load(p)
  BY PersistThenLoad DEF IInv
<1> QED
  BY <1>1 DEF IInv, Objects

\* The strengthened invariant: what is counted in each record is exactly the
\* tail of the failures that count, and each key remembers its last failure.
THEOREM Invariance == Spec => []IInv
<1>1. Init => IInv
  <2> SUFFICES ASSUME Init PROVE IInv
    OBVIOUS
  <2>1. TypeOK
    BY DEF Init, TypeOK, Time, Objects
  <2>2. \A o \in Objects : Load(o) = Fresh
    BY DEF Init, Load
  <2>3. ASSUME NEW s \in Services PROVE ServiceInv(Load(s), failedAt[s], now)
    BY <2>2, FreshInv DEF Init, Objects, Time
  <2>4. ASSUME NEW k \in Keys PROVE KeyInv(Load(k), cooledAt[k], now)
    BY <2>2 DEF Init, Objects, KeyInv, Fresh
  <2> QED
    BY <2>1, <2>3, <2>4 DEF IInv
<1>2. IInv /\ [Next]_vars => IInv'
  <2> SUFFICES ASSUME IInv, [Next]_vars PROVE IInv'
    OBVIOUS
  <2> USE DEF Objects
  <2>0. /\ TypeOK /\ now \in Time
        /\ \A o \in Objects : Load(o) \in HealthState
        /\ \A s \in Services : failedAt[s] \in Seq(Time) /\ ServiceInv(Load(s), failedAt[s], now)
        /\ \A k \in Keys : cooledAt[k] \in Time \cup {Null} /\ KeyInv(Load(k), cooledAt[k], now)
    BY LoadType DEF IInv, TypeOK
  <2>1. ASSUME NEW o \in Objects, GetStatus(o) PROVE IInv'
    <3> DEFINE h == Snapshot(Load(o), now)
    <3>1. h \in HealthState /\ Persist(o, h)
      BY <2>0, <2>1, RecordTypes DEF GetStatus
    <3>2. /\ Load(o)' = h
          /\ stored' \in [Objects -> HealthState \cup {Absent}]
      BY <2>0, <3>1, PersistThenLoad
    <3>3. /\ now' = now /\ cooledAt' = cooledAt
          /\ \A s \in Services : failedAt'[s] = IF s = o THEN Slate(s) ELSE failedAt[s]
          /\ failedAt' \in [Services -> Seq(Time)]
      BY <2>0, <2>1 DEF GetStatus, Slate
    <3>4. /\ \A s \in Services : s # o => ServiceInv(Load(s)', failedAt'[s], now')
          /\ \A k \in Keys : k # o => KeyInv(Load(k)', cooledAt'[k], now')
      BY <3>1, <3>3, OthersInv
    <3>5. ASSUME o \in Services PROVE ServiceInv(Load(o)', failedAt'[o], now')
      BY <2>0, <3>2, <3>3, <3>5, SnapshotInv DEF Slate, SlateOf, CooldownServed
    <3>6. ASSUME o \in Keys PROVE KeyInv(Load(o)', cooledAt'[o], now')
      BY <2>0, <3>2, <3>3, <3>6, KeySnapshotInv
    <3>7. TypeOK'
      BY <2>0, <3>2, <3>3 DEF TypeOK
    <3> QED
      BY <3>4, <3>5, <3>6, <3>7 DEF IInv
  <2>2. ASSUME NEW o \in Objects, Clear(o) PROVE IInv'
    <3>1. Fresh \in HealthState /\ Persist(o, Fresh)
      BY <2>0, <2>2, RecordTypes DEF Clear
    <3>2. /\ Load(o)' = Fresh
          /\ stored' \in [Objects -> HealthState \cup {Absent}]
      BY <2>0, <3>1, PersistThenLoad
    <3>3. /\ now' = now
          /\ \A s \in Services : failedAt'[s] = IF s = o THEN <<>> ELSE failedAt[s]
          /\ \A k \in Keys : cooledAt'[k] = IF k = o THEN Null ELSE cooledAt[k]
          /\ failedAt' \in [Services -> Seq(Time)]
          /\ cooledAt' \in [Keys -> Time \cup {Null}]
      BY <2>0, <2>2 DEF Clear
    <3>4. /\ \A s \in Services : s # o => ServiceInv(Load(s)', failedAt'[s], now')
          /\ \A k \in Keys : k # o => KeyInv(Load(k)', cooledAt'[k], now')
      BY <3>1, <3>3, OthersInv
    <3>5. ASSUME o \in Services PROVE ServiceInv(Load(o)', failedAt'[o], now')
      BY <2>0, <3>2, <3>3, <3>5, FreshInv
    <3>6. ASSUME o \in Keys PROVE KeyInv(Load(o)', cooledAt'[o], now')
      BY <3>2, <3>3, <3>6 DEF KeyInv, Fresh
    <3>7. TypeOK'
      BY <2>0, <3>2, <3>3 DEF TypeOK
    <3> QED
      BY <3>4, <3>5, <3>6, <3>7 DEF IInv
  <2>3. ASSUME NEW s \in Services, RecordSuccess(s) PROVE IInv'
    <3>1. Fresh \in HealthState /\ Persist(s, Fresh)
      BY <2>0, <2>3, RecordTypes DEF RecordSuccess
    <3>2. /\ Load(s)' = Fresh
          /\ stored' \in [Objects -> HealthState \cup {Absent}]
      BY <2>0, <3>1, PersistThenLoad
    <3>3. /\ now' = now /\ cooledAt' = cooledAt
          /\ failedAt' = [failedAt EXCEPT ![s] = <<>>]
          /\ failedAt' \in [Services -> Seq(Time)]
      BY <2>0, <2>3 DEF RecordSuccess, TypeOK
    <3>4. /\ \A r \in Services : r # s => ServiceInv(Load(r)', failedAt'[r], now')
          /\ \A k \in Keys : k # s => KeyInv(Load(k)', cooledAt'[k], now')
      BY <2>0, <3>1, <3>3, OthersInv DEF TypeOK
    <3>5. ServiceInv(Load(s)', failedAt'[s], now')
      BY <2>0, <3>2, <3>3, FreshInv DEF TypeOK
    <3>6. s \notin Keys
      BY ObjectsAssumption
    <3>7. TypeOK'
      BY <2>0, <3>2, <3>3 DEF TypeOK
    <3> QED
      BY <3>4, <3>5, <3>6, <3>7 DEF IInv
  <2>4. ASSUME NEW s \in Services, RecordFailure(s) PROVE IInv'
    <3> DEFINE h == AfterFailure(Load(s), now)
               f == IF Available(s) THEN Append(Slate(s), now) ELSE failedAt[s]
    <3>1. h \in HealthState /\ Persist(s, h)
      BY <2>0, <2>4, RecordTypes DEF RecordFailure
    <3>2. /\ Load(s)' = h
          /\ stored' \in [Objects -> HealthState \cup {Absent}]
      BY <2>0, <3>1, PersistThenLoad
    <3>3. f \in Seq(Time)
      BY <2>0 DEF Slate
    <3>4. /\ now' = now /\ cooledAt' = cooledAt
          /\ failedAt' = [failedAt EXCEPT ![s] = f]
          /\ failedAt' \in [Services -> Seq(Time)]
      BY <2>0, <2>4, <3>3 DEF RecordFailure, TypeOK
    <3>5. /\ \A r \in Services : r # s => ServiceInv(Load(r)', failedAt'[r], now')
          /\ \A k \in Keys : k # s => KeyInv(Load(k)', cooledAt'[k], now')
      BY <2>0, <3>1, <3>4, OthersInv DEF TypeOK
    <3>6. ServiceInv(h, f, now)
      BY <2>0, FailureInv DEF Available, IsAvailable, Slate, SlateOf, CooldownServed
    <3>7. ServiceInv(Load(s)', failedAt'[s], now')
      BY <2>0, <3>2, <3>4, <3>6 DEF TypeOK
    <3>8. s \notin Keys
      BY ObjectsAssumption
    <3>9. TypeOK'
      BY <2>0, <3>2, <3>4 DEF TypeOK
    <3> QED
      BY <3>5, <3>7, <3>8, <3>9 DEF IInv
  <2>5. ASSUME NEW k \in Keys, RecordImmediateFailure(k) PROVE IInv'
    <3> DEFINE h == AfterImmediateFailure(Load(k), now)
    <3>1. h \in HealthState /\ Persist(k, h)
      BY <2>0, <2>5, RecordTypes DEF RecordImmediateFailure
    <3>2. /\ Load(k)' = h
          /\ stored' \in [Objects -> HealthState \cup {Absent}]
      BY <2>0, <3>1, PersistThenLoad
    <3>3. /\ now' = now /\ failedAt' = failedAt
          /\ cooledAt' = [cooledAt EXCEPT ![k] = now]
          /\ cooledAt' \in [Keys -> Time \cup {Null}]
      BY <2>0, <2>5 DEF RecordImmediateFailure, TypeOK
    <3>4. /\ \A s \in Services : s # k => ServiceInv(Load(s)', failedAt'[s], now')
          /\ \A j \in Keys : j # k => KeyInv(Load(j)', cooledAt'[j], now')
      BY <2>0, <3>1, <3>3, OthersInv DEF TypeOK
    <3>5. KeyInv(Load(k)', cooledAt'[k], now')
      BY <2>0, <3>2, <3>3, KeyFailureInv DEF TypeOK
    <3>6. k \notin Services
      BY ObjectsAssumption
    <3>7. TypeOK'
      BY <2>0, <3>2, <3>3 DEF TypeOK
    <3> QED
      BY <3>4, <3>5, <3>6, <3>7 DEF IInv
  <2>6. ASSUME Tick PROVE IInv'
    <3>1. now' \in Time /\ now' >= now /\ UNCHANGED <<stored, failedAt, cooledAt>>
      BY <2>0, <2>6 DEF Tick, Time
    <3>2. \A o \in Objects : Load(o)' = Load(o)
      BY <3>1 DEF Load
    <3>3. \A s \in Services : ServiceInv(Load(s)', failedAt'[s], now')
      BY <2>0, <3>1, <3>2, LaterInv
    <3>4. \A k \in Keys : KeyInv(Load(k)', cooledAt'[k], now')
      BY <2>0, <3>1, <3>2, HealthAssumption DEF KeyInv, Time
    <3>5. TypeOK'
      BY <2>0, <3>1 DEF TypeOK
    <3> QED
      BY <3>3, <3>4, <3>5 DEF IInv
  <2>7. CASE UNCHANGED vars
    BY <2>0, <2>7 DEF vars, IInv, TypeOK, Load
  <2> QED
    BY <2>1, <2>2, <2>3, <2>4, <2>5, <2>6, <2>7 DEF Next
<1> QED
  BY <1>1, <1>2, PTL DEF Spec

\* Every variable keeps its type.
THEOREM TypeCorrect == Spec => []TypeOK
BY Invariance, PTL DEF IInv

\* A cooling service had FAILURE_THRESHOLD failures within one window, with no
\* success, clear or served cooldown between them (recordFailure, snapshot).
THEOREM CoolingEarned == Spec => []CoolingIsEarned
<1>1. IInv => CoolingIsEarned
  BY DEF IInv, ServiceInv, Earned, CoolingIsEarned
<1> QED
  BY <1>1, Invariance, PTL

\* 2 * FAILURE_THRESHOLD - 1 failures closer together than one window never
\* leave a service available, wherever its windows begin (recordFailure).
THEOREM BurstsCool == Spec => []BurstCools
<1>1. IInv => BurstCools
  BY DEF IInv, ServiceInv, NoBurst, BurstCools
<1> QED
  BY <1>1, Invariance, PTL

\* A key is out exactly while its last failure is younger than a cooldown
\* (recordImmediateFailure, clear, snapshot).
THEOREM KeysCoolFromLastFailure == Spec => []KeyCoolsFromLastFailure
<1>1. IInv => KeyCoolsFromLastFailure
  <2> SUFFICES ASSUME IInv, NEW k \in Keys
               PROVE  Available(k) <=> (cooledAt[k] = Null \/ now >= cooledAt[k] + COOLDOWN_MS)
    BY DEF KeyCoolsFromLastFailure
  <2>1. /\ Load(k) \in HealthState /\ now \in Time
        /\ cooledAt[k] \in Time \cup {Null} /\ KeyInv(Load(k), cooledAt[k], now)
    BY LoadType DEF IInv, TypeOK, Objects
  <2> QED
    BY <2>1, KeySnapshotInv DEF Available, IsAvailable
<1> QED
  BY <1>1, Invariance, PTL

-----------------------------------------------------------------------------
(* The store implements the abstract cooldowns. *)

\* The instant a record's target comes back, 0 when it is in.
BackAt(h, t) == IF h.cooling_until # Null /\ t < h.cooling_until THEN h.cooling_until ELSE 0

OutByRecord ==
  /\ Out = [o \in Objects |-> BackAt(Load(o), now)]
  /\ \A o \in Objects : Available(o) <=> BackAt(Load(o), now) = 0

\* The caller's verdict is the record's cooldown compared with the clock.
LEMMA OutIsBackAt == TypeOK => OutByRecord
<1> SUFFICES ASSUME TypeOK PROVE OutByRecord
  OBVIOUS
<1>1. ASSUME NEW o \in Objects
      PROVE  /\ Available(o) <=> ~ (Load(o).cooling_until # Null /\ now < Load(o).cooling_until)
             /\ now < Load(o).cooling_until /\ Load(o).cooling_until # Null
                  => Load(o).cooling_until # 0
  <2> DEFINE h == Load(o)
  <2>1. h \in HealthState /\ now \in Nat
    BY LoadType DEF TypeOK, Time
  <2>2. CASE h.cooling_until # Null
    BY <2>1, <2>2, SnapshotCooling, HealthAssumption
       DEF Available, IsAvailable, Fresh, HealthState, Time
  <2>3. CASE h.cooling_until = Null
    BY <2>1, <2>3, SnapshotClosed, HealthAssumption
       DEF Available, IsAvailable, Fresh, HealthState, Time
  <2> QED
    BY <2>2, <2>3
<1> QED
  BY <1>1 DEF Out, BackAt, OutByRecord

\* What each operation does to the instant a record's target comes back.
LEMMA BackAtAfter ==
  ASSUME NEW h \in HealthState, NEW t \in Time
  PROVE  /\ BackAt(Fresh, t) = 0
         /\ BackAt(Snapshot(h, t), t) = BackAt(h, t)
         /\ BackAt(AfterImmediateFailure(h, t), t) = t + COOLDOWN_MS
         /\ \/ BackAt(AfterFailure(h, t), t) = BackAt(h, t)
            \/ /\ BackAt(h, t) = 0
               /\ BackAt(AfterFailure(h, t), t) = t + COOLDOWN_MS
<1> DEFINE s == Snapshot(h, t)
           c == Counted(s, t)
<1> USE HealthAssumption DEF BackAt, HealthState, Time
<1>1. BackAt(Fresh, t) = 0
  BY DEF Fresh
<1>2. BackAt(s, t) = BackAt(h, t)
  BY SnapshotCooling, SnapshotClosed DEF Fresh
<1>3. BackAt(AfterImmediateFailure(h, t), t) = t + COOLDOWN_MS
  <2> DEFINE x == AfterImmediateFailure(h, t)
  <2>1. KeyInv(x, t, t)
    BY KeyFailureInv
  <2>2. t # Null /\ ~ (t >= t + COOLDOWN_MS) /\ t < t + COOLDOWN_MS
    OBVIOUS
  <2> HIDE DEF x
  <2>3. BackAt(x, t) = t + COOLDOWN_MS
    BY <2>1, <2>2 DEF KeyInv
  <2> QED
    BY <2>3 DEF x
<1>4. CASE s.cooling_until # Null
  BY <1>1, <1>2, <1>3, <1>4, FailureCases
<1>5. CASE s.cooling_until = Null
  <2>1. s \in HealthState /\ BackAt(h, t) = 0
    BY <1>2, <1>5, RecordTypes
  <2>2. c \in HealthState /\ c.cooling_until = Null
    BY <1>5, <2>1 DEF Counted, WithFailures
  <2>3. BackAt(c, t) = 0 /\ BackAt(Cooled(c, t), t) = t + COOLDOWN_MS
    BY <2>2 DEF Cooled
  <2> QED
    BY <1>1, <1>2, <1>3, <1>5, <2>1, <2>3, FailureCases
<1> QED
  BY <1>1, <1>2, <1>3, <1>4, <1>5

\* The health objects implement the abstract cooldowns call by call: a read
\* changes no verdict, a failure of a service never extends its cooldown and a
\* failure of a key always does, a success or a clear ends any cooldown, and time
\* ends those whose instant it reaches.
THEOREM Implementation == Spec => ImplementsCooldowns
<1> DEFINE Labelled ==
       /\ \A o \in Objects : /\ GetStatus(o) => CooldownsSpec!Read(o)
                             /\ Clear(o) => CooldownsSpec!Clear(o)
       /\ \A s \in Services : /\ RecordSuccess(s) => CooldownsSpec!Success(s)
                              /\ RecordFailure(s) => CooldownsSpec!Failure(s)
       /\ \A k \in Keys : RecordImmediateFailure(k) => CooldownsSpec!KeyFailure(k)
       /\ Tick => CooldownsSpec!Pass
<1>1. Init => CooldownsSpec!Init
  <2> SUFFICES ASSUME Init PROVE CooldownsSpec!Init
    OBVIOUS
  <2>1. TypeOK
    BY DEF Init, TypeOK, Time, Objects
  <2>2. \A o \in Objects : BackAt(Load(o), now) = 0
    BY DEF Init, Load, BackAt, Fresh
  <2> QED
    BY <2>1, <2>2, OutIsBackAt DEF OutByRecord, Init, CooldownsSpec!Init, Objects
<1>2. TypeOK /\ TypeOK' => Labelled
  <2> SUFFICES ASSUME TypeOK, OutByRecord, OutByRecord' PROVE Labelled
    <3>1. TypeOK' => OutByRecord'
      BY OutIsBackAt, PTL
    <3> QED
      BY <3>1, OutIsBackAt
  <2> DEFINE B(o) == BackAt(Load(o), now)
  <2>1. /\ Out = [o \in Objects |-> B(o)]
        /\ Out' = [o \in Objects |-> B(o)']
        /\ \A o \in Objects : Load(o) \in HealthState
        /\ now \in Time
    BY LoadType DEF OutByRecord, TypeOK
  <2>2. ASSUME NEW o \in Objects, NEW h \in HealthState, Persist(o, h), now' = now
        PROVE  Out' = [Out EXCEPT ![o] = BackAt(h, now)]
    <3>1. B(o)' = BackAt(h, now) /\ \A p \in Objects : p # o => B(p)' = B(p)
      BY <2>2, PersistThenLoad DEF BackAt
    <3> HIDE DEF B
    <3> QED
      BY <2>1, <3>1
  <2>3. ASSUME NEW o \in Objects, GetStatus(o) PROVE CooldownsSpec!Read(o)
    <3>1. /\ Snapshot(Load(o), now) \in HealthState
          /\ BackAt(Snapshot(Load(o), now), now) = Out[o]
      BY <2>1, RecordTypes, BackAtAfter
    <3>2. Out' = [Out EXCEPT ![o] = Out[o]]
      BY <2>2, <2>3, <3>1 DEF GetStatus
    <3> QED
      BY <2>1, <2>3, <3>2 DEF GetStatus, CooldownsSpec!Read, CooldownsSpec!vars
  <2>4. ASSUME NEW o \in Objects, Persist(o, Cleared(Load(o), now)), now' = now
        PROVE  CooldownsSpec!BringBack(o)
    <3>1. Cleared(Load(o), now) = Fresh /\ Fresh \in HealthState /\ BackAt(Fresh, now) = 0
      BY <2>1, RecordTypes, BackAtAfter
    <3> QED
      BY <2>2, <2>4, <3>1 DEF CooldownsSpec!BringBack
  <2>5. ASSUME NEW s \in Services, RecordFailure(s) PROVE CooldownsSpec!Failure(s)
    <3> DEFINE h == AfterFailure(Load(s), now)
    <3>1. h \in HealthState /\ s \in Objects
      BY <2>1, RecordTypes DEF Objects
    <3>2. Out' = [Out EXCEPT ![s] = BackAt(h, now)]
      BY <2>2, <2>5, <3>1 DEF RecordFailure
    <3>3. \/ BackAt(h, now) = Out[s]
          \/ Out[s] = 0 /\ BackAt(h, now) = now + COOLDOWN_MS
      BY <2>1, <3>1, BackAtAfter
    <3>4. now' = now
      BY <2>5 DEF RecordFailure
    <3> HIDE DEF h
    <3> QED
      BY <2>1, <3>1, <3>2, <3>3, <3>4
         DEF CooldownsSpec!Failure, CooldownsSpec!PutOut, CooldownsSpec!vars
  <2>6. ASSUME NEW k \in Keys, RecordImmediateFailure(k) PROVE CooldownsSpec!KeyFailure(k)
    <3> DEFINE h == AfterImmediateFailure(Load(k), now)
    <3>1. h \in HealthState /\ k \in Objects /\ BackAt(h, now) = now + COOLDOWN_MS
      BY <2>1, RecordTypes, BackAtAfter DEF Objects
    <3> QED
      BY <2>2, <2>6, <3>1
         DEF CooldownsSpec!KeyFailure, CooldownsSpec!PutOut, RecordImmediateFailure
  <2>7. ASSUME Tick PROVE CooldownsSpec!Pass
    <3>1. now' = now + 1 /\ now' \in Nat /\ \A o \in Objects : Load(o)' = Load(o)
      BY <2>1, <2>7 DEF Tick, Load, Time
    <3>2. \A o \in Objects : B(o)' = IF Out[o] <= now' THEN 0 ELSE Out[o]
      BY <2>1, <3>1 DEF BackAt, HealthState, Time
    <3> HIDE DEF B
    <3> QED
      BY <2>1, <3>1, <3>2 DEF CooldownsSpec!Pass, Objects
  <2>8. ASSUME NEW o \in Objects, Clear(o) PROVE CooldownsSpec!Clear(o)
    BY <2>4, <2>8 DEF Clear, CooldownsSpec!Clear
  <2>9. ASSUME NEW s \in Services, RecordSuccess(s) PROVE CooldownsSpec!Success(s)
    BY <2>4, <2>9 DEF RecordSuccess, CooldownsSpec!Success, Objects
  <2> QED
    BY <2>3, <2>5, <2>6, <2>7, <2>8, <2>9
<1>3. Labelled /\ [Next]_vars => [CooldownsSpec!Next]_(CooldownsSpec!vars)
  <2>1. UNCHANGED vars => UNCHANGED CooldownsSpec!vars
    BY DEF vars, CooldownsSpec!vars, Out, Available, Load
  <2> QED
    BY <2>1 DEF Next, Objects, CooldownsSpec!Next
<1>4. Labelled => [Labelled]_vars
  OBVIOUS
<1> HIDE DEF Labelled
<1>5. Spec => [][TypeOK /\ TypeOK' /\ [Next]_vars]_vars
  BY TypeCorrect, PTL DEF Spec
<1>6. Spec => [][Labelled]_vars
  BY <1>2, <1>5, PTL
<1>7. Spec => CooldownsSpec!Spec
  BY <1>1, <1>2, <1>3, TypeCorrect, PTL DEF Spec, CooldownsSpec!Spec
<1> QED
  BY <1>6, <1>7 DEF ImplementsCooldowns, Labelled
=============================================================================
