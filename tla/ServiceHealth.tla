--------------------------- MODULE ServiceHealth ----------------------------
(***************************************************************************)
(* The HEALTH Durable Objects of src/service-health.ts: one stored record  *)
(* per service and per key (and per scope: an "inference" record and a     *)
(* "catalog" record are two objects).  Every method loads the record,      *)
(* applies one operation of ServiceHealthState and writes the result back. *)
(* A method runs as one step: the object takes no other event while its    *)
(* storage is busy, and nothing is awaited between the read and the write. *)
(* An eviction between two steps loses nothing, every step reloads.        *)
(***************************************************************************)
EXTENDS HealthRecord, Sequences

CONSTANTS
  Services,  \* health objects of services
  Keys,      \* health objects of keys
  Absent,    \* an object whose storage holds no record
  MaxTime    \* bound of the clock

Objects == Services \cup Keys

ASSUME ObjectsAssumption ==
  /\ Services \cap Keys = {}
  /\ Absent \notin HealthState
  /\ MaxTime \in Nat

VARIABLES
  now,       \* Date.now()
  stored,    \* stored[o]: the value under the key "health" of object o
  failedAt,  \* history: times of the failures of service s that reached it while
             \* it was available, since a success, a clear or a served cooldown
  cooledAt   \* history: time of the last failure of key k since a clear

vars == <<now, stored, failedAt, cooledAt>>

\* load() and persist(): a Fresh state is stored as no record at all.
Load(o) == IF stored[o] = Absent THEN Fresh ELSE stored[o]

Persist(o, h) ==
  stored' = [stored EXCEPT ![o] = IF h = Fresh THEN Absent ELSE h]

\* What getServiceAvailability and getKeyAvailability make of a snapshot whose
\* cooldown ends at cooling_until, when their clock shows t.
IsAvailable(cooling_until, t) == cooling_until = Null \/ cooling_until <= t

\* Whether object o is in: the verdict of a caller that reads it and looks at its
\* clock at this very moment.  A caller whose answer is still on its way may find
\* otherwise (Read and Judge of Inference.tla).
Available(o) == IsAvailable(Snapshot(Load(o), now).cooling_until, now)

CooldownServed(o) ==
  Load(o).cooling_until # Null /\ now >= Load(o).cooling_until

\* The failures that still count for service s: a served cooldown wipes them.
Slate(s) == IF CooldownServed(s) THEN <<>> ELSE failedAt[s]

Init ==
  /\ now = 0
  /\ stored = [o \in Objects |-> Absent]
  /\ failedAt = [s \in Services |-> <<>>]
  /\ cooledAt = [k \in Keys |-> Null]

GetStatus(o) ==
  /\ Persist(o, Snapshot(Load(o), now))
  /\ failedAt' = [s \in Services |-> IF s = o THEN Slate(s) ELSE failedAt[s]]
  /\ UNCHANGED <<now, cooledAt>>

RecordSuccess(s) ==
  /\ Persist(s, Cleared(Load(s), now))
  /\ failedAt' = [failedAt EXCEPT ![s] = <<>>]
  /\ UNCHANGED <<now, cooledAt>>

RecordFailure(s) ==
  /\ Persist(s, AfterFailure(Load(s), now))
  /\ failedAt' = [failedAt EXCEPT ![s] =
                    IF Available(s) THEN Append(Slate(s), now) ELSE @]
  /\ UNCHANGED <<now, cooledAt>>

RecordImmediateFailure(k) ==
  /\ Persist(k, AfterImmediateFailure(Load(k), now))
  /\ cooledAt' = [cooledAt EXCEPT ![k] = now]
  /\ UNCHANGED <<now, failedAt>>

\* DELETE /health/{service_id} and DELETE /health/{service_id}/{key_id}.
Clear(o) ==
  /\ Persist(o, Cleared(Load(o), now))
  /\ failedAt' = [s \in Services |-> IF s = o THEN <<>> ELSE failedAt[s]]
  /\ cooledAt' = [k \in Keys |-> IF k = o THEN Null ELSE cooledAt[k]]
  /\ UNCHANGED now

Tick ==
  /\ now < MaxTime
  /\ now' = now + 1
  /\ UNCHANGED <<stored, failedAt, cooledAt>>

Next ==
  \/ \E o \in Objects : GetStatus(o) \/ Clear(o)
  \/ \E s \in Services : RecordSuccess(s) \/ RecordFailure(s)
  \/ \E k \in Keys : RecordImmediateFailure(k)
  \/ Tick

Spec == Init /\ [][Next]_vars
-----------------------------------------------------------------------------
TypeOK ==
  /\ now \in Time
  /\ stored \in [Objects -> HealthState \cup {Absent}]
  /\ failedAt \in [Services -> Seq(Time)]
  /\ cooledAt \in [Keys -> Time \cup {Null}]

\* A service that is cooling earned it: its last FAILURE_THRESHOLD failures
\* while it was available, with no success, clear or served cooldown between
\* them, lie within one window, and the cooldown runs from the last of them
\* (recordFailure and snapshot of src/health.ts).
CoolingIsEarned ==
  \A s \in Services :
    Load(s).cooling_until # Null =>
      LET n == Len(failedAt[s])
      IN /\ n >= FAILURE_THRESHOLD
         /\ failedAt[s][n] - failedAt[s][n - FAILURE_THRESHOLD + 1] < FAILURE_WINDOW_MS
         /\ Load(s).cooling_until = failedAt[s][n] + COOLDOWN_MS

\* The window is anchored at its first failure, so FAILURE_THRESHOLD failures
\* that straddle two windows may go unnoticed; 2 * FAILURE_THRESHOLD - 1 of
\* them closer together than one window never do (recordFailure).
BurstCools ==
  \A s \in Services :
    Load(s).cooling_until = Null =>
      \A i, j \in 1 .. Len(failedAt[s]) :
        j = i + 2 * FAILURE_THRESHOLD - 2 =>
          failedAt[s][j] - failedAt[s][i] >= FAILURE_WINDOW_MS

\* A key is out exactly while its last failure is younger than a cooldown,
\* whatever was read, cleared or failed before it (recordImmediateFailure); so
\* finds every caller that reads it and looks at its clock in one moment.
KeyCoolsFromLastFailure ==
  \A k \in Keys :
    Available(k) <=> (cooledAt[k] = Null \/ now >= cooledAt[k] + COOLDOWN_MS)

\* The instant a target comes back, to a caller that reads its record now.
Out == [o \in Objects |-> IF Available(o) THEN 0 ELSE Load(o).cooling_until]

CooldownsSpec == INSTANCE Cooldowns WITH
  clock <- now, out <- Out, Cooldown <- COOLDOWN_MS

\* The stored records implement the abstract cooldowns call by call: a read
\* changes no verdict, a failure of a service never extends its cooldown and a
\* failure of a key always does, a success or a clear ends any cooldown, however
\* long ago the request began that succeeded, and time ends those whose instant
\* it reaches (ServiceHealthState of src/health.ts).
ImplementsCooldowns ==
  /\ CooldownsSpec!Spec
  /\ [][/\ \A o \in Objects : /\ GetStatus(o) => CooldownsSpec!Read(o)
                              /\ Clear(o) => CooldownsSpec!Clear(o)
        /\ \A s \in Services : /\ RecordSuccess(s) => CooldownsSpec!Success(s)
                               /\ RecordFailure(s) => CooldownsSpec!Failure(s)
        /\ \A k \in Keys : RecordImmediateFailure(k) => CooldownsSpec!KeyFailure(k)
        /\ Tick => CooldownsSpec!Pass]_vars
=============================================================================
