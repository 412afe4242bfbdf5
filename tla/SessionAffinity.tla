--------------------------- MODULE SessionAffinity --------------------------
(***************************************************************************)
(* One session: its SESSION_AFFINITY Durable Object (session-affinity.ts), *)
(* its row of the SESSION_AFFINITY_INDEX object of the client key          *)
(* (session-affinity-index.ts), the index tasks the first runs after its   *)
(* answer (waitUntil), and the management requests that read both          *)
(* (session-bindings.ts).  A storage transaction is one step, and so is a  *)
(* call to the index at the moment the index executes it; anything may     *)
(* happen between two steps of a task or of a request.                     *)
(***************************************************************************)
EXTENDS Affinity, FiniteSets

CONSTANTS
  Offers,        \* candidate lists of the session's requests
  Tasks,         \* slots for the index tasks under way
  Requests,      \* slots for the management requests under way
  Operations,    \* what they may be: "list", "clear_all", "clear_one"
  TTL,           \* SESSION_AFFINITY_TTL_MS
  MaxGeneration, \* Number.MAX_SAFE_INTEGER
  Attempts,      \* registrations one task tries (4)
  MaxTime,       \* bound of the clock
  MaxBindings,   \* bound of the binding ids issued
  Faults,        \* whether calls and tasks may fail
  NoRecord, NoAlarm

Bindings == 1 .. MaxBindings
Generations == 1 .. MaxGeneration
IndexEntry == [binding_id : Bindings, generation : Generations]

\* The identity fields (registry_name, session_digest, session_id) are those of
\* the object's name, and created_at never differs where binding_id does not.
SessionAffinityRecord ==
  [target : AffinitySelection, updated_at : Nat, binding_id : Bindings,
   generation : Generations, index_registered : BOOLEAN]

ASSUME SessionAssumption ==
  /\ \A cs \in Offers : IsCandidateList(cs)
  /\ TTL \in Nat \ {0}
  /\ MaxGeneration \in Nat \ {0}
  /\ Attempts \in Nat \ {0}
  /\ MaxTime \in Nat
  /\ MaxBindings \in Nat
  /\ Faults \in BOOLEAN
  /\ None \notin IndexEntry
  /\ NoAlarm \notin Nat
  /\ NoRecord \notin SessionAffinityRecord
                   \cup [id : Bindings, target : AffinitySelection, until : Nat]

VARIABLES
  now,       \* Date.now()
  record,    \* the value under the key "affinity"
  alarm,     \* the object's alarm
  row,       \* the session's row in the index
  tasks,     \* the index tasks under way
  requests,  \* the management requests under way
  issued,    \* how many binding ids crypto.randomUUID() has given out, 1 .. issued
  restarted  \* history: a binding was created where an earlier one had been deleted

object == <<record, alarm, issued, restarted>>
vars == <<now, record, alarm, row, tasks, requests, issued, restarted>>
-----------------------------------------------------------------------------
Entry(r) == [binding_id |-> r.binding_id, generation |-> r.generation]

\* Wrong on purpose, as are all the definitions named Wrong...: a record lives
\* one millisecond longer for resolve than for its readers.
WrongActive == record # NoRecord /\ record.updated_at + TTL >= now

Expired == record.updated_at + TTL <= now

Active == record # NoRecord /\ ~Expired

\* The transactions compare the record with an entry read earlier.
Holds(entry) == record # NoRecord /\ Entry(record) = entry

\* Wrong: a replaced binding keeps its generation.
WrongNextGeneration == IF record = NoRecord THEN 1 ELSE record.generation

NextGeneration == IF record = NoRecord THEN 1 ELSE record.generation + 1

\* Wrong: the last safe integer has a successor.
WrongExhausted(generation) == generation > MaxGeneration

Exhausted(generation) == generation >= MaxGeneration

\* The row that register(entry) leaves and returns.
Registered(entry) ==
  IF \/ row = None
     \/ entry.generation > row.generation
     \/ entry = row
  THEN entry
  ELSE row

\* Wrong: the row goes whatever it names.
WrongRemoved(entry) == None

\* The row that remove(entry) leaves.
Removed(entry) == IF row = entry THEN None ELSE row

IdleTask == [pc |-> "idle", obsolete |-> None, candidate |-> None, attempt |-> 0, seen |-> 0]

IdleRequest == [pc |-> "idle", entry |-> None, upto |-> 0]

RegisterTask(candidate, attempt) ==
  [pc |-> "register", obsolete |-> None, candidate |-> candidate, attempt |-> attempt, seen |-> 0]

UnregisterTask(obsolete, candidate) ==
  [pc |-> "unregister", obsolete |-> obsolete, candidate |-> candidate, attempt |-> 0, seen |-> 0]

\* Wrong: no task runs when there is nothing to register.
WrongForget(t, obsolete, candidate) ==
  IF candidate = None
  THEN UNCHANGED tasks
  ELSE tasks[t] = IdleTask /\ tasks' = [tasks EXCEPT ![t] = RegisterTask(candidate, 0)]

\* scheduleIndexSync: first unregister what was replaced, then register.
Schedule(t, obsolete, candidate) ==
  IF obsolete = None /\ candidate = None
  THEN UNCHANGED tasks
  ELSE /\ tasks[t] = IdleTask
       /\ tasks' = [tasks EXCEPT ![t] =
                      IF obsolete = None THEN RegisterTask(candidate, 0)
                      ELSE UnregisterTask(obsolete, candidate)]

Become(t, task) == tasks' = [tasks EXCEPT ![t] = task]

Obsolete == IF record = NoRecord THEN None ELSE Entry(record)

\* Wrong: an alarm that is set already is left as it is.
WrongKeepAlarm(at) == alarm' = IF alarm = NoAlarm THEN at ELSE alarm

\* setAlarm and deleteAlarm after the transaction: a failure is logged.
UpdateAlarm(at) == alarm' = at \/ (Faults /\ UNCHANGED alarm)
-----------------------------------------------------------------------------
Init ==
  /\ now = 0
  /\ record = NoRecord
  /\ alarm = NoAlarm
  /\ row = None
  /\ tasks = [t \in Tasks |-> IdleTask]
  /\ requests = [q \in Requests |-> IdleRequest]
  /\ issued = 0
  /\ restarted = FALSE

\* The decision of resolve().
Decided(cs, preferred) ==
  IF Active
  THEN resolveStoredAffinity(record.target, cs, preferred)
  ELSE Decision(choosePreferredOrRandom(cs, preferred), "created")

\* resolve(): the stored target is kept.
Hit(cs, preferred, t) ==
  /\ Decided(cs, preferred).status = "hit"
  /\ record' = [record EXCEPT !.target = Decided(cs, preferred).selection, !.updated_at = now]
  /\ UpdateAlarm(now + TTL)
  /\ Schedule(t, None, IF record.index_registered THEN None ELSE Entry(record))
  /\ UNCHANGED <<now, row, requests, issued, restarted>>

\* resolve(): a binding is created, or moves.  When the generations are
\* exhausted the transaction throws, and nothing happens.
Bind(cs, preferred, t) ==
  LET d == Decided(cs, preferred)
  IN /\ d.status # "hit"
     /\ d.selection # None
     /\ ~Exhausted(NextGeneration - 1)
     /\ issued < MaxBindings
     /\ record' = [target |-> d.selection, updated_at |-> now,
                   binding_id |-> issued + 1, generation |-> NextGeneration,
                   index_registered |-> FALSE]
     /\ issued' = issued + 1
     /\ restarted' = (restarted \/ (record = NoRecord /\ issued > 0))
     /\ UpdateAlarm(now + TTL)
     /\ Schedule(t, Obsolete, Entry(record'))
     /\ UNCHANGED <<now, row, requests>>

\* resolve(): no candidate has a key.
Unroutable(cs, preferred, t) ==
  /\ Decided(cs, preferred).selection = None
  /\ record' = NoRecord
  /\ UpdateAlarm(NoAlarm)
  /\ Schedule(t, Obsolete, None)
  /\ UNCHANGED <<now, row, requests, issued, restarted>>

\* alarm()
Alarm(t) ==
  /\ alarm # NoAlarm
  /\ now >= alarm
  /\ IF record # NoRecord /\ ~Expired
     THEN /\ alarm' = record.updated_at + TTL
          /\ UNCHANGED <<record, tasks>>
     ELSE /\ alarm' = NoAlarm
          /\ record' = NoRecord
          /\ Schedule(t, Obsolete, None)
  /\ UNCHANGED <<now, row, requests, issued, restarted>>
-----------------------------------------------------------------------------
\* unregister(): a failure is caught, and the task goes on.
Unregister(t) ==
  LET task == tasks[t]
  IN /\ task.pc = "unregister"
     /\ row' = Removed(task.obsolete) \/ (Faults /\ UNCHANGED row)
     /\ Become(t, IF task.candidate = None THEN IdleTask ELSE RegisterTask(task.candidate, 0))
     /\ UNCHANGED <<now, object, requests>>

\* ensureIndexed: index.register(candidate) and the look at what it returns.
Register(t) ==
  LET task == tasks[t]
      indexed == Registered(task.candidate)
  IN /\ task.pc = "register"
     /\ row' = indexed
     /\ Become(t, IF indexed = task.candidate
                  THEN [task EXCEPT !.pc = "confirm"]
                  ELSE IF indexed.generation < task.candidate.generation
                  THEN IdleTask
                  ELSE [task EXCEPT !.pc = "bump", !.seen = indexed.generation])
     /\ UNCHANGED <<now, object, requests>>

\* ensureIndexed: the transaction that marks the record.
Confirm(t) ==
  LET task == tasks[t]
  IN /\ task.pc = "confirm"
     /\ IF Holds(task.candidate)
        THEN /\ record' = [record EXCEPT !.index_registered = TRUE]
             /\ Become(t, IdleTask)
        ELSE /\ Become(t, [task EXCEPT !.pc = "discard"])
             /\ UNCHANGED record
     /\ UNCHANGED <<now, alarm, row, requests, issued, restarted>>

Bumped(seen) == IF record.generation > seen THEN record.generation ELSE seen

\* ensureIndexed: the index holds another binding, not older: the transaction
\* that moves the record past it.
Bump(t) ==
  LET task == tasks[t]
      next == [record EXCEPT !.generation = Bumped(task.seen) + 1, !.index_registered = FALSE]
  IN /\ task.pc = "bump"
     /\ IF /\ record # NoRecord
           /\ record.binding_id = task.candidate.binding_id
           /\ ~Exhausted(Bumped(task.seen))
        THEN /\ record' = next
             /\ Become(t, IF task.attempt + 1 = Attempts THEN IdleTask
                          ELSE RegisterTask(Entry(next), task.attempt + 1))
        ELSE /\ Become(t, [task EXCEPT !.pc = "discard"])
             /\ UNCHANGED record
     /\ UNCHANGED <<now, alarm, row, requests, issued, restarted>>

\* ensureIndexed: the registration of a binding that is gone is taken back.
Discard(t) ==
  /\ tasks[t].pc = "discard"
  /\ row' = Removed(tasks[t].candidate)
  /\ Become(t, IdleTask)
  /\ UNCHANGED <<now, object, requests>>

\* A call that fails, or an eviction, ends the task where it is.
Lose(t) ==
  /\ Faults
  /\ tasks[t].pc # "idle"
  /\ Become(t, IdleTask)
  /\ UNCHANGED <<now, object, row, requests>>

TaskStep(t) == Unregister(t) \/ Register(t) \/ Confirm(t) \/ Bump(t) \/ Discard(t)
-----------------------------------------------------------------------------
\* The row that was looked into is taken out of the index next.
Proceed(q, entry) ==
  requests' = [requests EXCEPT ![q] = [pc |-> "remove", entry |-> entry, upto |-> 0]]

EndRequest(q) == requests' = [requests EXCEPT ![q] = IdleRequest]

\* What a clear has read the index up to is kept for the properties.
Arrive(q, pc, entry, upto) ==
  /\ requests[q].pc = "idle"
  /\ requests' = [requests EXCEPT ![q] = [pc |-> pc, entry |-> entry, upto |-> upto]]
  /\ UNCHANGED <<now, object, row, tasks>>

\* GET /sessions: the page that holds the session's row.
List(q) == "list" \in Operations /\ row # None /\ Arrive(q, "status", row, 0)

\* DELETE /sessions: the page that holds the session's row.
ClearAll(q) == "clear_all" \in Operations /\ row # None /\ Arrive(q, "clear_page", row, issued)

\* DELETE /sessions/{session_id}
ClearOne(q) ==
  /\ "clear_one" \in Operations
  /\ Arrive(q, IF row = None THEN "clear_managed" ELSE "clear_one", row, issued)

\* getStatus() and sessionView(): a row that shows no live binding is removed.
GetStatus(q) ==
  /\ requests[q].pc = "status"
  /\ IF Active /\ Holds(requests[q].entry)
     THEN EndRequest(q)
     ELSE Proceed(q, requests[q].entry)
  /\ UNCHANGED <<now, object, row, tasks>>

\* Wrong: any binding will do.
WrongNamed(entry) == record # NoRecord

\* The test of clearIfBindingId.
Named(entry) == Holds(entry)

Delete ==
  /\ record' = NoRecord
  /\ alarm' = NoAlarm
  /\ UNCHANGED <<issued, restarted>>

\* clearIndexedEntry: the binding goes if the row names it.
ClearIfBindingId(q) ==
  /\ requests[q].pc \in {"clear_one", "clear_page"}
  /\ IF Named(requests[q].entry) THEN Delete ELSE UNCHANGED object
  /\ Proceed(q, requests[q].entry)
  /\ UNCHANGED <<now, row, tasks>>

\* clearManagedByIdentity: whatever binding there is goes.
ClearManaged(q) ==
  /\ requests[q].pc = "clear_managed"
  /\ IF record = NoRecord
     THEN UNCHANGED object /\ EndRequest(q)
     ELSE Delete /\ Proceed(q, Entry(record))
  /\ UNCHANGED <<now, row, tasks>>

RemoveRow(q) ==
  /\ requests[q].pc = "remove"
  /\ row' = Removed(requests[q].entry)
  /\ EndRequest(q)
  /\ UNCHANGED <<now, object, tasks>>

\* A call that fails ends the request where it is.
Abort(q) ==
  /\ Faults
  /\ requests[q].pc # "idle"
  /\ EndRequest(q)
  /\ UNCHANGED <<now, object, row, tasks>>

RequestStep(q) == GetStatus(q) \/ ClearIfBindingId(q) \/ ClearManaged(q) \/ RemoveRow(q)

Tick ==
  /\ now < MaxTime
  /\ now' = now + 1
  /\ UNCHANGED <<object, row, tasks, requests>>

\* Routing prefers one of the best targets of the list it offers.
Preferences(cs) == IF Choices(cs) = {} THEN {None} ELSE Choices(cs)

Next ==
  \/ \E cs \in Offers : \E p \in Preferences(cs), t \in Tasks :
       Hit(cs, p, t) \/ Bind(cs, p, t) \/ Unroutable(cs, p, t)
  \/ \E t \in Tasks : Alarm(t) \/ TaskStep(t) \/ Lose(t)
  \/ \E q \in Requests : List(q) \/ ClearAll(q) \/ ClearOne(q) \/ RequestStep(q) \/ Abort(q)
  \/ Tick

Spec == Init /\ [][Next]_vars

\* waitUntil keeps a task running, the runtime delivers alarms, and a request
\* runs to its end.
Fairness ==
  /\ \A t \in Tasks : WF_vars(TaskStep(t))
  /\ WF_vars(\E t \in Tasks : Alarm(t))
  /\ \A q \in Requests : WF_vars(RequestStep(q))

FairSpec == Spec /\ Fairness
-----------------------------------------------------------------------------
Task ==
  {task \in [pc : {"idle", "unregister", "register", "confirm", "bump", "discard"},
             obsolete : IndexEntry \cup {None}, candidate : IndexEntry \cup {None},
             attempt : 0 .. Attempts - 1, seen : {0} \cup Generations] :
     /\ task.pc = "unregister" => task.obsolete # None
     /\ task.pc \in {"register", "confirm", "bump", "discard"} => task.candidate # None}

Request ==
  {request \in [pc : {"idle", "status", "clear_one", "clear_page", "clear_managed", "remove"},
                entry : IndexEntry \cup {None}, upto : {0} \cup Bindings] :
     request.pc \in {"status", "clear_one", "clear_page", "remove"} => request.entry # None}

TypeOK ==
  /\ now \in Nat
  /\ record \in SessionAffinityRecord \cup {NoRecord}
  /\ alarm \in Nat \cup {NoAlarm}
  /\ row \in IndexEntry \cup {None}
  /\ tasks \in [Tasks -> Task]
  /\ requests \in [Requests -> Request]
  /\ issued \in {0} \cup Bindings
  /\ restarted \in BOOLEAN

Shown == IF record = NoRecord THEN NoRecord
         ELSE [id |-> record.binding_id, target |-> record.target,
               until |-> record.updated_at + TTL]

BindingSpec == INSTANCE Binding WITH
  Targets <- AffinitySelection, Ids <- Bindings, Lifetime <- TTL, Unbound <- NoRecord,
  clock <- now, binding <- Shown, used <- 1 .. issued

\* Through every race of resolves, index tasks, alarms and clears, the session
\* has the life of one binding: no late task or request brings back a binding
\* that is gone, moves one in place, or shortens the life of one in use
\* (the transactions of src/session-affinity.ts).
ImplementsBinding == BindingSpec!Spec

\* The index is never ahead of the object: until a deleted record starts the
\* generations anew, a row is of an earlier generation than the record, or names
\* the record's own binding (nextBindingGeneration, register, ensureIndexed).
IndexNeverAhead ==
  ~restarted /\ row # None /\ record # NoRecord =>
    \/ row.generation < record.generation
    \/ row = Entry(record)

\* Until then a binding marked as registered is in the index for as long as it
\* lives, whatever older tasks, lists and clears still do to the row
\* (ensureIndexed, remove).
ListedUntilRestarted ==
  ~restarted /\ Active /\ record.index_registered => row = Entry(record)

\* A clear that names the row it read, of a page or of its one session, never
\* deletes a binding issued after it read (clearIfBindingId).  A clear-one that
\* found no row names nothing: it deletes whatever binding there is by then, a
\* later one too (clearManaged), and nothing is claimed of it.
ClearSparesLater ==
  [][\A q \in Requests :
       /\ requests[q].pc \in {"clear_one", "clear_page"}
       /\ requests'[q].pc = "remove"
       /\ record # NoRecord /\ record' = NoRecord
       => record.binding_id <= requests[q].upto]_vars

\* Without failures every record is covered by an alarm at its expiry (resolve,
\* alarm, clearIfBindingId, clearManaged).
AlarmCovers ==
  ~Faults => alarm = IF record = NoRecord THEN NoAlarm ELSE record.updated_at + TTL

\* Without failures the index follows the object: a live binding is registered
\* in the end, unless it is replaced or deleted first, and a row that names no
\* binding of the object goes away, with nobody listing the sessions
\* (scheduleIndexSync, unregister, ensureIndexed).
IndexConverges ==
  /\ \A b \in Bindings :
       Active /\ record.binding_id = b ~>
         (Active /\ record.binding_id = b => record.index_registered)
  /\ row # None /\ ~Holds(row) ~> row = None \/ Holds(row)

\* src/README.md:204, "GET /sessions lists bindings": a binding that is marked
\* as registered, with nothing under way, is in the index.
RegisteredIsListed ==
  /\ Active /\ record.index_registered
  /\ \A t \in Tasks : tasks[t] = IdleTask
  /\ \A q \in Requests : requests[q] = IdleRequest
  => row = Entry(record)

\* src/README.md:206, "DELETE /sessions/{session_id} clears one URL-encoded
\* session ID": a binding that existed when the request read the index is gone
\* after its clearing step.
ClearOneClears ==
  [][\A q \in Requests :
       /\ requests[q].pc = "clear_one"
       /\ requests'[q].pc = "remove"
       /\ record # NoRecord
       /\ record.binding_id <= requests[q].upto
       => record' = NoRecord]_vars
=============================================================================
