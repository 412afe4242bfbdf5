----------------------------- MODULE Inference ------------------------------
(***************************************************************************)
(* The HTTP inference requests of the gateway: handleInference and         *)
(* fetchWithConfiguredRetries of src/proxy.ts over evaluateAvailability    *)
(* and selectAvailableServiceWithDetails of src/routing.ts, with the       *)
(* health objects of ServiceHealth.tla behind them.  A request reads the   *)
(* health of every service, then of the keys of those that are in, a few   *)
(* calls at a time and in any order.  An object answers with a snapshot,   *)
(* which the request weighs against its own clock when the answer arrives: *)
(* time may pass and the object change between the two.  The request is    *)
(* then given a target of the list that came of it, asks that target until *)
(* an answer stands, and hands what the answers say to the health objects  *)
(* by calls nobody awaits.  Bodies that are refused and models that are    *)
(* unknown end before this.                                                *)
(***************************************************************************)
EXTENDS Affinity, Arrays, FiniteSets

CONSTANTS
  Requests,  \* the requests that come, each once
  Route,     \* what resolveModelRoute finds for them: all services and keys
  Delays,    \* length of retry.delays_ms
  Retries,   \* the results whose status is in retry.status_codes
  Faults,    \* whether calls to health objects may fail
  SERVICE_FAN_OUT_CONCURRENCY,  \* calls a request has under way at a time (6)
  FAILURE_THRESHOLD, FAILURE_WINDOW_MS, COOLDOWN_MS, Null, Absent, MaxTime

\* What the upstream answers: nothing, a success, a status that cools the key,
\* one that counts against the service, another one.
Results == {"error", "ok", "key", "service", "other"}

Targets == {Target(p.service, p.key) : p \in Pairs(Route)}

RoutedServices == {Route[i].service_id : i \in DOMAIN Route}

\* A health object of a service has its id for a name, that of a key the target.
Objects == RoutedServices \cup Targets

ASSUME InferenceAssumption ==
  /\ IsCandidateList(Route)
  /\ Targets # {}
  /\ Targets \cap ServiceIds = {}
  /\ IsFiniteSet(Requests)
  /\ Delays \in Nat
  /\ Retries \subseteq {"key", "service", "other"}
  /\ Faults \in BOOLEAN
  /\ SERVICE_FAN_OUT_CONCURRENCY \in Nat \ {0}
  /\ FAILURE_THRESHOLD \in Nat \ {0}
  /\ FAILURE_WINDOW_MS \in Nat \ {0}
  /\ COOLDOWN_MS \in Nat \ {0}
  /\ Null \notin Nat
  /\ MaxTime \in Nat

VARIABLES
  now, stored, failedAt, cooledAt,  \* the health objects, as in ServiceHealth.tla
  req,      \* req[r]: where request r is
  updates,  \* the health updates handed to waitUntil, done or not
  seen      \* history, from the arrival of request r until it has its target:
            \* seen[r].in and seen[r].out, what was in and what was out at some
            \* moment; seen[r].prolonged, what was out and had its cooldown moved
            \* while its answer was on the way to r

Health == INSTANCE ServiceHealth WITH Services <- RoutedServices, Keys <- Targets

ASSUME AbsentAssumption == Absent \notin Health!HealthState

health == <<now, stored, failedAt, cooledAt>>
vars == <<health, req, updates, seen>>
-----------------------------------------------------------------------------
Idle == [pc |-> "idle", left |-> {}, answers |-> {}, in |-> {}, unread |-> {},
         target |-> None, attempt |-> 0, last |-> "none"]

Nothing == [in |-> {}, out |-> {}, prolonged |-> {}]

Selecting == {"services", "keys", "choosing"}

\* Wrong on purpose, as are all the definitions named Wrong...: a service is in
\* with all its keys.
WrongOffered(in) == Filter(Route, {i \in DOMAIN Route : Route[i].service_id \in in})

\* A service with those of its keys that were found in.
Up(service, in) ==
  [service EXCEPT !.keys =
     Filter(@, {j \in DOMAIN service.keys : Target(service, service.keys[j]) \in in})]

\* The candidates that evaluateAvailability keeps, of what was found in.
Offered(in) ==
  LET services == [i \in DOMAIN Route |-> Up(Route[i], in)]
  IN Filter(services,
            {i \in DOMAIN Route : Route[i].service_id \in in /\ services[i].keys # <<>>})

KeysOf(in) == {k \in Targets : k.service_id \in in}

Init ==
  /\ Health!Init
  /\ req = [r \in Requests |-> Idle]
  /\ updates = {}
  /\ seen = [r \in Requests |-> Nothing]

Arrive(r) ==
  /\ req[r].pc = "idle"
  /\ req' = [req EXCEPT ![r].pc = "services", ![r].left = RoutedServices]
  /\ UNCHANGED <<health, updates>>

\* Wrong: what could not be read is out.
WrongUnreadable == FALSE

\* getServiceAvailability and getKeyAvailability: the verdict when the call fails.
Unreadable == TRUE

\* What is left to read and to weigh; when it is nothing, the keys of the services
\* found in come after the services, and the choice after the keys.
Proceed(r, left, answers, in, unread) ==
  LET found(pc, reads) == [req[r] EXCEPT !.pc = pc, !.left = reads, !.answers = answers,
                                         !.in = in, !.unread = unread]
  IN req' = [req EXCEPT ![r] =
               IF left \cup answers # {} THEN found(req[r].pc, left)
               ELSE IF req[r].pc = "services" /\ KeysOf(in) # {} THEN found("keys", KeysOf(in))
               ELSE found("choosing", {})]

\* getStatus() of object o for one call of mapWithConcurrency: its answer is on
\* the way, or the call fails.
Read(r, o) ==
  /\ o \in req[r].left
  /\ Cardinality(req[r].answers) < SERVICE_FAN_OUT_CONCURRENCY
  /\ LET snapshot == Health!Snapshot(Health!Load(o), now)
         answer == [object |-> o, cooling_until |-> snapshot.cooling_until]
         left == req[r].left \ {o}
     IN \/ /\ Health!GetStatus(o)
           /\ Proceed(r, left, req[r].answers \cup {answer}, req[r].in, req[r].unread)
        \/ /\ Faults
           /\ Proceed(r, left, req[r].answers,
                      req[r].in \cup (IF Unreadable THEN {o} ELSE {}), req[r].unread \cup {o})
           /\ UNCHANGED health
  /\ UNCHANGED updates

\* getServiceAvailability, getKeyAvailability: the answer has arrived.
Judge(r, answer) ==
  /\ answer \in req[r].answers
  /\ Proceed(r, req[r].left, req[r].answers \ {answer},
             req[r].in \cup (IF Health!IsAvailable(answer.cooling_until, now)
                             THEN {answer.object} ELSE {}),
             req[r].unread)
  /\ UNCHANGED <<health, updates>>

\* handleInference: no service is left, 503 service_cooling_down.
Refuse(r) ==
  /\ req[r].pc = "choosing"
  /\ Offered(req[r].in) = <<>>
  /\ req' = [req EXCEPT ![r] = [Idle EXCEPT !.pc = "done", !.last = "refused"]]
  /\ UNCHANGED <<health, updates>>

\* selectAvailableServiceWithDetails: whether the session's object decides, or
\* the first choice stands because there is none or it fails, the target is one
\* of the best of the list (StickyRouting.tla, RoutedToBest).
Choose(r) ==
  /\ req[r].pc = "choosing"
  /\ \E target \in Choices(Offered(req[r].in)) :
       req' = [req EXCEPT ![r] = [Idle EXCEPT !.pc = "fetching", !.target = target,
                                              !.attempt = 1]]
  /\ UNCHANGED <<health, updates>>
-----------------------------------------------------------------------------
Update(r, kind, object) ==
  [request |-> r, attempt |-> req[r].attempt, kind |-> kind, object |-> object, done |-> FALSE]

\* Wrong: a status of the service counts at every attempt.
WrongReported(r, result, final) ==
  LET target == req[r].target
  IN {Update(r, "key_failure", target) : x \in {result} \cap {"key"}}
       \cup {Update(r, "failure", target.service_id) : x \in {result} \cap {"service", "error"}}
       \cup {Update(r, "success", target.service_id) : x \in {result} \cap {"ok"}}

\* The health updates of an answer: a status that cools the key is recorded at
\* every attempt, what counts for or against the service only in the end.
Reported(r, result, final) ==
  LET target == req[r].target
  IN {Update(r, "key_failure", target) : x \in {result} \cap {"key"}}
       \cup {Update(r, "failure", target.service_id) :
               x \in IF final THEN {result} \cap {"service", "error"} ELSE {}}
       \cup {Update(r, "success", target.service_id) : x \in {result} \cap {"ok"}}

\* Wrong: one retry too many.
WrongFinal(r, result) == result \notin Retries \/ req[r].attempt > Delays + 1

\* fetchWithConfiguredRetries: the answer stands.
Final(r, result) == result \notin Retries \/ req[r].attempt > Delays

NextAttempt(r) == req[r].attempt + 1

\* One attempt, its health update, and the end of the request or of the delay
\* before the next one.
Answer(r, result) ==
  /\ req[r].pc = "fetching"
  /\ updates' = updates \cup Reported(r, result, Final(r, result))
  /\ req' = IF Final(r, result)
            THEN [req EXCEPT ![r].pc = "done", ![r].last = result]
            ELSE [req EXCEPT ![r].attempt = NextAttempt(r)]
  /\ UNCHANGED health

\* scheduleHealthUpdate: the update reaches its object, or is lost.
Apply(u) ==
  /\ ~u.done
  /\ updates' = (updates \ {u}) \cup {[u EXCEPT !.done = TRUE]}
  /\ \/ u.kind = "success" /\ Health!RecordSuccess(u.object)
     \/ u.kind = "failure" /\ Health!RecordFailure(u.object)
     \/ u.kind = "key_failure" /\ Health!RecordImmediateFailure(u.object)
     \/ Faults /\ UNCHANGED health
  /\ UNCHANGED req

\* DELETE /health/{service_id} and DELETE /health/{service_id}/{key_id}
Clear(o) == Health!Clear(o) /\ UNCHANGED <<req, updates>>

Tick == Health!Tick /\ UNCHANGED <<req, updates>>

Step ==
  \/ \E r \in Requests :
       \/ Arrive(r)
       \/ \E o \in Objects : Read(r, o)
       \/ \E answer \in req[r].answers : Judge(r, answer)
       \/ Refuse(r) \/ Choose(r)
       \/ \E result \in Results : Answer(r, result)
  \/ \E u \in updates : Apply(u)
  \/ \E o \in Objects : Clear(o)
  \/ Tick

In == {o \in Objects : Health!Available(o)}

\* Objects that are out before and after a step that moves the end of it, among
\* those whose answer is on the way to request r.
Prolonged(r) ==
  {o \in {answer.object : answer \in req[r].answers} :
     /\ ~Health!Available(o) /\ ~Health!Available(o)'
     /\ Health!Load(o).cooling_until' # Health!Load(o).cooling_until}

\* Every request that has no target yet looks at each step.
Watch ==
  seen' = [r \in Requests |->
             IF req'[r].pc \in Selecting
             THEN LET found == In'
                  IN [in |-> seen[r].in \cup found,
                      out |-> seen[r].out \cup (Objects \ found),
                      prolonged |-> seen[r].prolonged \cup Prolonged(r)]
             ELSE Nothing]

Next == Step /\ Watch

Spec == Init /\ [][Next]_vars
-----------------------------------------------------------------------------
\* An object that was read, and the end of its cooldown in the snapshot.
HealthAnswer == [object : Objects, cooling_until : Nat \cup {Null}]

Request ==
  [pc : Selecting \cup {"idle", "fetching", "done"}, left : SUBSET Objects,
   answers : SUBSET HealthAnswer, in : SUBSET Objects, unread : SUBSET Objects,
   target : Targets \cup {None}, attempt : 0 .. Delays + 1,
   last : Results \cup {"none", "refused"}]

HealthUpdate ==
  [request : Requests, attempt : 1 .. Delays + 1, kind : {"success", "failure", "key_failure"},
   object : Objects, done : BOOLEAN]

TypeOK ==
  /\ Health!TypeOK
  /\ req \in [Requests -> Request]
  /\ updates \subseteq HealthUpdate
  /\ seen \in [Requests ->
                 [in : SUBSET Objects, out : SUBSET Objects, prolonged : SUBSET Objects]]

Decides(r) == req[r].pc = "choosing" /\ req'[r].pc # "choosing"

\* A request is never given a target that was out all the time since it came:
\* "the cooldown affects later requests" (src/README.md:200).  Two things hide a
\* cooldown from it: health that could not be read, and a cooldown that was moved
\* while the snapshot of it was on the way, for the snapshot still ends when the
\* cooldown would have ended (evaluateAvailability, getKeyAvailability).
TargetWasIn ==
  [][\A r \in Requests :
       Decides(r) /\ req'[r].pc = "fetching" =>
         {req'[r].target, req'[r].target.service_id}
           \subseteq seen[r].in \cup req[r].unread \cup seen[r].prolonged]_vars

\* A request passes over a target that outranks its own, and is refused, only if
\* what it passes over was out at some moment since it came, be it the service
\* or the key; health that cannot be read never stands in a request's way
\* (evaluateAvailability, chooseAffinityCandidate).
PassesOverOnlyOut ==
  [][\A r \in Requests : Decides(r) =>
       \A p \in Pairs(Route) :
         \/ /\ req'[r].pc = "fetching"
            /\ ~\E q \in Pairs(Route) : /\ Target(q.service, q.key) = req'[r].target
                                        /\ Outranks(p, q)
         \/ {p.service.service_id, Target(p.service, p.key)} \cap seen[r].out # {}]_vars

Broken(s) ==
  {r \in Requests : /\ req[r].pc = "done"
                    /\ req[r].last \in {"service", "error"}
                    /\ req[r].target.service_id = s}

\* A service goes out only when as many requests as the threshold have failed in
\* the end: one request never puts it out by its retries (handleInference,
\* recordFailure).
CoolingTakesRequests ==
  \A s \in RoutedServices :
    ~Health!Available(s) => Cardinality(Broken(s)) >= FAILURE_THRESHOLD
=============================================================================
