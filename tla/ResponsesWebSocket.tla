------------------------- MODULE ResponsesWebSocket -------------------------
(***************************************************************************)
(* One Responses WebSocket: the RESPONSES_WEBSOCKET Durable Object between *)
(* a Codex client and the upstream service it is routed to                 *)
(* (responses-websocket-proxy.ts).  Two chains of promises work in it, one *)
(* through the frames of the client, one through the events of the         *)
(* upstream.  The storage calls of a handler hold off every other event,   *)
(* so a step runs up to the next await of something outside the object: a  *)
(* configuration read, a selection, a handshake, a delay, a health update. *)
(* A health update that is not needed is awaited all the same.             *)
(***************************************************************************)
EXTENDS Integers, Sequences

CONSTANTS
  MaxPending,   \* MAX_PENDING_WEBSOCKET_BYTES, in frames
  Delays,       \* length of retry.delays_ms
  Retries,      \* the results whose status is in retry.status_codes
  Polite,       \* whether the client awaits an answer before it asks again
  MaxFrames,    \* bound of the frames the client sends
  MaxMessages   \* bound of the messages the upstream sends

\* What a handshake comes to: no response in time, a switch of protocols, a
\* status that cools the key, one that counts against the service, another one.
Results == {"error", "upgrade", "key", "service", "rejected"}

ASSUME WebSocketAssumption ==
  /\ MaxPending \in Nat
  /\ Delays \in Nat
  /\ Retries \subseteq {"key", "service", "rejected"}
  /\ Polite \in BOOLEAN
  /\ MaxFrames \in Nat
  /\ MaxMessages \in Nat

LIVE_PHASES == {"awaiting_first_frame", "routing", "connecting", "open"}

Frames == {"create", "invalid", "other"}

\* A message of the upstream by its type and its status; "lost" stands for the
\* close and error events of the socket.
Completed == {"completed"}
Failed == {"failed", "failed_service"}
Errors == {"error", "error_key", "error_service"}
ServiceScope == {"failed_service", "error_service"}
KeyScope == {"error_key"}
Terminal == Completed \cup Failed \cup Errors
Messages == {"data"} \cup Terminal
Events == Messages \cup {"lost"}

VARIABLES
  phase,     \* phase, "new" before fetch(); a deleted session is "closed"
  active,    \* active_response
  recorded,  \* response_outcome_recorded
  alarm,     \* the alarm of the first frame; "due" and "early" when it runs
  client,    \* the client socket; "gone" before its close event is handled
  pending,   \* pendingClientBytes
  queue,     \* frames waiting in the chain clientMessages
  job,       \* the frame in hand: what is awaited, and the attempts so far
  socket,    \* the upstream socket; "closing" after close(), "lost" when it says no more
  events,    \* events waiting in the chain upstreamEvents
  work       \* the event in hand while a health update is awaited, else "none"

\* History: what the client and the upstream know, and what became of it.
VARIABLES
  sent,         \* frames the client has sent
  waiting,      \* the client awaits the end of a response
  unsent,       \* frames taken from the queue and not sent upstream
  said,         \* messages the upstream has sent
  undelivered,  \* those not sent to the client
  owed,         \* responses the upstream was asked for and has not ended
  starts,       \* responses whose outcome may be recorded
  outcomes,     \* outcomes recorded on the service
  verdict,      \* the outcome of the latest of them
  blamed,       \* a failure was recorded
  fault         \* the upstream has failed in some way

session == <<phase, active, recorded>>
inbound == <<sent, waiting, pending, queue>>
outbound == <<said, owed, events>>
tally == <<starts, outcomes, verdict, blamed>>
vars == <<session, alarm, client, inbound, job, socket, outbound, work, unsent,
          undelivered, tally, fault>>

Idle == [pc |-> "idle", attempt |-> 0]
-----------------------------------------------------------------------------
\* Wrong on purpose, as are all the definitions named Wrong...: the phase is not
\* looked at again after an await.
WrongIsIn(expected) == TRUE

\* The guard of transition().
IsIn(expected) == phase = expected

\* closeAll() in one of the phases.
CloseAll(phases) ==
  IF phase \in phases
  THEN /\ phase' = "closed"
       /\ alarm' = IF alarm = "set" THEN "unset" ELSE alarm
       /\ client' = "closed"
       /\ socket' = IF socket = "open" THEN "closing" ELSE socket
  ELSE UNCHANGED <<phase, alarm, client, socket>>

\* Wrong: whether the outcome is recorded is not looked at.
WrongFailOnce(p, done) ==
  IF p \in {"connecting", "open"}
  THEN recorded' = TRUE /\ outcomes' = outcomes + 1 /\ verdict' = "failure" /\ blamed' = TRUE
  ELSE recorded' = done /\ UNCHANGED <<outcomes, verdict, blamed>>

\* recordServiceFailureOnce(), where the session is in phase p and its outcome
\* is recorded or not.
FailOnce(p, done) ==
  IF p \in {"connecting", "open"} /\ ~done
  THEN /\ recorded' = TRUE
       /\ outcomes' = outcomes + 1
       /\ verdict' = "failure"
       /\ blamed' = TRUE
  ELSE /\ recorded' = done
       /\ UNCHANGED <<outcomes, verdict, blamed>>

Continue(pc) == job' = [job EXCEPT !.pc = pc]

Done == job' = Idle

Init ==
  /\ phase = "new" /\ active = FALSE /\ recorded = FALSE
  /\ alarm = "unset" /\ client = "none" /\ socket = "none"
  /\ pending = 0 /\ queue = <<>> /\ job = Idle
  /\ events = <<>> /\ work = "none"
  /\ sent = 0 /\ waiting = FALSE /\ unsent = 0
  /\ said = 0 /\ undelivered = 0 /\ owed = 0
  /\ starts = 0 /\ outcomes = 0 /\ verdict = "none"
  /\ blamed = FALSE /\ fault = FALSE

\* fetch(): the object serves one connection; acceptWebSocket may throw.
Fetch ==
  /\ phase = "new"
  /\ \/ phase' = "awaiting_first_frame" /\ alarm' = "set" /\ client' = "open"
     \/ phase' = "closed" /\ UNCHANGED <<alarm, client>>
  /\ UNCHANGED <<active, recorded, inbound, job, socket, outbound, work, unsent,
                 undelivered, tally, fault>>

\* The runtime delivers the alarm, once more if it comes early.
Due(how) ==
  /\ alarm = "set"
  /\ alarm' = how
  /\ UNCHANGED <<session, client, inbound, job, socket, outbound, work, unsent,
                 undelivered, tally, fault>>

\* alarm(): it may run after deleteAlarm.
Alarm ==
  /\ \/ /\ phase # "awaiting_first_frame"
        /\ alarm \in {"early", "due"}
        /\ alarm' = "unset"
        /\ UNCHANGED <<phase, client, socket>>
     \/ /\ phase = "awaiting_first_frame"
        /\ alarm = "early"
        /\ alarm' = "set"
        /\ UNCHANGED <<phase, client, socket>>
     \/ /\ phase = "awaiting_first_frame"
        /\ alarm = "due"
        /\ phase' = "closed"
        /\ alarm' = "unset"
        /\ client' = "closed"
        /\ UNCHANGED socket
  /\ UNCHANGED <<active, recorded, inbound, job, outbound, work, unsent, undelivered,
                 tally, fault>>

\* The transport of the client breaks, or the client closes it.
Leave ==
  /\ client = "open"
  /\ client' = "gone"
  /\ UNCHANGED <<session, alarm, inbound, job, socket, outbound, work, unsent,
                 undelivered, tally, fault>>

\* Wrong: a session that is not open yet goes on.
WrongClientClosed ==
  /\ client = "gone"
  /\ IF phase = "open" THEN CloseAll({"open"})
     ELSE client' = "closed" /\ UNCHANGED <<phase, alarm, socket>>
  /\ UNCHANGED <<active, recorded, inbound, job, outbound, work, unsent, undelivered,
                 tally, fault>>

\* webSocketClose(), webSocketError()
ClientClosed ==
  /\ client = "gone"
  /\ CloseAll(LIVE_PHASES)
  /\ UNCHANGED <<active, recorded, inbound, job, outbound, work, unsent, undelivered,
                 tally, fault>>

\* Wrong: the new frame does not count.
WrongOverflows == pending > MaxPending

Overflows == pending + 1 > MaxPending

\* webSocketMessage() and enqueueClientMessage(); frames may still arrive after
\* the close of the object's side.
Send(frame) ==
  /\ client \in {"open", "closed"}
  /\ sent < MaxFrames
  /\ frame = "create" => ~(Polite /\ waiting)
  /\ sent' = sent + 1
  /\ waiting' = (waiting \/ frame = "create")
  /\ pending' = pending + 1
  /\ IF Overflows
     THEN CloseAll(LIVE_PHASES) /\ UNCHANGED queue
     ELSE queue' = Append(queue, frame) /\ UNCHANGED <<phase, alarm, client, socket>>
  /\ UNCHANGED <<active, recorded, job, outbound, work, unsent, undelivered, tally, fault>>
-----------------------------------------------------------------------------
\* Wrong: frames are not chained.
WrongTake(frame) ==
  /\ queue # <<>> /\ frame = Head(queue)
  /\ queue' = Tail(queue) /\ pending' = pending - 1
  /\ UNCHANGED <<sent, waiting>>

\* The chain of the client: the next frame is taken when the last is done with.
Take(frame) ==
  /\ job.pc = "idle"
  /\ queue # <<>>
  /\ frame = Head(queue)
  /\ queue' = Tail(queue)
  /\ pending' = pending - 1
  /\ UNCHANGED <<sent, waiting>>

\* processClientMessage(): nothing is left to do.
DropFrame ==
  /\ \E frame \in Frames : Take(frame)
  /\ phase \notin {"awaiting_first_frame", "open"}
  /\ unsent' = unsent + 1
  /\ UNCHANGED <<session, alarm, client, job, socket, outbound, work, undelivered,
                 tally, fault>>

\* processFirstFrame(), processOpenMessage(): the frame is refused.
RefuseFrame ==
  /\ \E frame \in Frames : 
       /\ Take(frame)
       /\ \/ phase = "awaiting_first_frame" /\ frame # "create"
          \/ phase = "open" /\ frame = "invalid"
  /\ CloseAll(LIVE_PHASES)
  /\ unsent' = unsent + 1
  /\ UNCHANGED <<active, recorded, job, outbound, work, undelivered, tally, fault>>

\* processFirstFrame(): the session is claimed for routing.
Claim ==
  /\ Take("create")
  /\ phase = "awaiting_first_frame"
  /\ phase' = "routing"
  /\ alarm' = IF alarm = "set" THEN "unset" ELSE alarm
  /\ Continue("configuring")
  /\ unsent' = unsent + 1
  /\ UNCHANGED <<active, recorded, client, socket, outbound, work, undelivered, tally, fault>>

\* processOpenMessage(): a later response.create.
Ask ==
  /\ Take("create")
  /\ phase = "open"
  /\ Continue("refreshing")
  /\ unsent' = unsent + 1
  /\ UNCHANGED <<session, alarm, client, socket, outbound, work, undelivered, tally, fault>>

\* processOpenMessage(): any other frame goes to the upstream as it is.
Relay ==
  /\ Take("other")
  /\ phase = "open"
  /\ IF socket = "open"
     THEN UNCHANGED <<recorded, outcomes, verdict, blamed, job, unsent, fault>>
     ELSE /\ FailOnce(phase, recorded)
          /\ Continue("reporting")
          /\ unsent' = unsent + 1
          /\ fault' = TRUE
  /\ UNCHANGED <<phase, active, alarm, client, socket, outbound, work, undelivered, starts>>

TakeFrame == DropFrame \/ RefuseFrame \/ Claim \/ Ask \/ Relay
-----------------------------------------------------------------------------
\* currentRoutingContext() and resolveModelRoute(): the configuration cannot be
\* read, the client is no longer valid, or no service has the model.
Misconfigured ==
  /\ job.pc \in {"configuring", "refreshing"}
  /\ CloseAll(LIVE_PHASES)
  /\ Done
  /\ UNCHANGED <<active, recorded, inbound, outbound, work, unsent, undelivered, tally, fault>>

\* They answer after the session was closed, or before.
Configured(pc, next, expected) ==
  /\ job.pc = pc
  /\ IF IsIn(expected) THEN Continue(next) ELSE Done
  /\ UNCHANGED <<session, alarm, client, inbound, socket, outbound, work, unsent,
                 undelivered, tally, fault>>

Configure == Configured("configuring", "selecting", "routing")

Refresh == Configured("refreshing", "validating", "open")

\* Wrong: without a target the frame is given up.
WrongUnavailable ==
  /\ job.pc \in {"selecting", "validating"}
  /\ Done
  /\ UNCHANGED <<session, alarm, client, socket, inbound, outbound, work, unsent,
                 undelivered, tally, fault>>

\* selectAvailableServiceWithDetails(), validateCurrentTarget(): there is no
\* target, or it is not the one in use.
Unavailable ==
  /\ job.pc \in {"selecting", "validating"}
  /\ CloseAll(LIVE_PHASES)
  /\ Done
  /\ UNCHANGED <<active, recorded, inbound, outbound, work, unsent, undelivered, tally, fault>>

\* connectUpstream(): the handshake begins.
Select ==
  /\ job.pc = "selecting"
  /\ IF IsIn("routing")
     THEN /\ phase' = "connecting"
          /\ job' = [pc |-> "fetching", attempt |-> 1]
          /\ starts' = starts + 1
     ELSE Done /\ UNCHANGED <<phase, starts>>
  /\ UNCHANGED <<active, recorded, alarm, client, inbound, socket, outbound, work, unsent,
                 undelivered, outcomes, verdict, blamed, fault>>

\* Wrong: the socket is left alone.
WrongLate(result) ==
  /\ ~IsIn("connecting")
  /\ Done
  /\ socket' = IF result = "upgrade" THEN "open" ELSE socket
  /\ UNCHANGED <<session, unsent, events, owed, tally, fault>>

\* connectUpstream(): the response, or none, is in and the session was closed.
Late(result) ==
  /\ ~IsIn("connecting")
  /\ Done
  /\ socket' = IF result = "upgrade" THEN "lost" ELSE socket
  /\ UNCHANGED <<session, unsent, events, owed, tally, fault>>

\* connectUpstream(): the upstream refuses, which takes another await, of what it
\* says of it; or there is no response, or its socket cannot be accepted.
Refused(result) ==
  /\ IsIn("connecting")
  /\ Continue(IF result \in {"key", "service", "rejected"} THEN "reading" ELSE "reporting")
  /\ IF result \in {"key", "rejected"}
     THEN UNCHANGED <<recorded, outcomes, verdict, blamed, fault>>
     ELSE FailOnce(phase, recorded) /\ fault' = TRUE
  /\ socket' = IF result = "upgrade" THEN "lost" ELSE socket
  /\ UNCHANGED <<phase, active, unsent, events, owed, starts>>

\* connectUpstream(): the socket is attached and the first frame is sent on it.
Opened ==
  /\ IsIn("connecting")
  /\ phase' = "open"
  /\ active' = TRUE
  /\ \/ /\ socket' = "open"
        /\ recorded' = FALSE
        /\ unsent' = unsent - 1
        /\ owed' = owed + 1
        /\ Done
        /\ UNCHANGED <<events, outcomes, verdict, blamed, fault>>
     \/ /\ socket' = "lost"
        /\ events' = Append(events, "lost")
        /\ FailOnce("open", FALSE)
        /\ fault' = TRUE
        /\ Continue("reporting")
        /\ UNCHANGED <<unsent, owed>>
  /\ UNCHANGED starts

Connect(result) ==
  Late(result) \/ Refused(result) \/ (result = "upgrade" /\ Opened)

\* fetchWithConfiguredRetries(): the delay before the next attempt, or the end.
Settle(result) ==
  IF result \in Retries /\ job.attempt <= Delays
  THEN Continue("waiting") /\ UNCHANGED <<session, socket, unsent, events, owed, tally, fault>>
  ELSE Connect(result)

\* fetchWithConfiguredRetries(): an attempt ends; a status that cools the key is
\* recorded first.
Attempt(result) ==
  /\ job.pc = "fetching"
  /\ IF result = "key"
     THEN Continue("cooling") /\ UNCHANGED <<session, socket, unsent, events, owed, tally, fault>>
     ELSE Settle(result)
  /\ UNCHANGED <<alarm, client, inbound, said, work, undelivered>>

Cooled ==
  /\ job.pc = "cooling"
  /\ Settle("key")
  /\ UNCHANGED <<alarm, client, inbound, said, work, undelivered>>

\* abortableDelay(): closeAll() aborts the delay, which counts as no response.
Retry ==
  /\ job.pc = "waiting"
  /\ IF phase = "connecting"
     THEN /\ job' = [pc |-> "fetching", attempt |-> job.attempt + 1]
          /\ UNCHANGED <<session, socket, unsent, events, owed, tally, fault>>
     ELSE Connect("error")
  /\ UNCHANGED <<alarm, client, inbound, said, work, undelivered>>

\* The target is still the right one: the response is active, and the frame sent.
Activate ==
  /\ job.pc = "validating"
  /\ IF IsIn("open")
     THEN /\ active' = TRUE
          /\ starts' = starts + 1
          /\ IF socket = "open"
             THEN /\ recorded' = FALSE
                  /\ verdict' = "none"
                  /\ unsent' = unsent - 1
                  /\ owed' = owed + 1
                  /\ Done
                  /\ UNCHANGED <<outcomes, blamed, fault>>
             ELSE /\ FailOnce("open", FALSE)
                  /\ fault' = TRUE
                  /\ Continue("reporting")
                  /\ UNCHANGED <<unsent, owed>>
     ELSE Done /\ UNCHANGED <<active, recorded, unsent, owed, tally, fault>>
  /\ UNCHANGED <<phase, alarm, client, inbound, socket, said, events, work, undelivered>>

\* The failure is recorded: the session ends.
Report ==
  /\ job.pc = "reporting"
  /\ CloseAll(LIVE_PHASES)
  /\ Done
  /\ UNCHANGED <<active, recorded, inbound, outbound, work, unsent, undelivered, tally, fault>>

\* upstreamErrorText(): the body of the refusal is read, or breaks, and the session
\* ends.  No timer runs and nothing aborts the read: it takes what the upstream
\* takes, and that may be for ever.
ReadRefusal ==
  /\ job.pc = "reading"
  /\ CloseAll(LIVE_PHASES)
  /\ Done
  /\ UNCHANGED <<active, recorded, inbound, outbound, work, unsent, undelivered, tally, fault>>

\* Every await of a job but that one.
JobStep ==
  \/ Misconfigured \/ Configure \/ Refresh \/ Unavailable \/ Select
  \/ \E result \in Results : Attempt(result)
  \/ Cooled \/ Retry \/ Activate \/ Report
-----------------------------------------------------------------------------
\* The upstream sends a message, which waits in the chain of its events.
Message(event) ==
  /\ socket \in {"open", "closing"}
  /\ said < MaxMessages
  /\ event \in Completed \cup Failed => owed > 0
  /\ said' = said + 1
  /\ owed' = IF event \in Terminal /\ owed > 0 THEN owed - 1 ELSE owed
  /\ fault' = (fault \/ event \in ServiceScope)
  /\ events' = Append(events, event)
  /\ undelivered' = undelivered + 1
  /\ UNCHANGED <<session, alarm, client, inbound, job, socket, work, unsent, tally>>

\* Its side of the socket is closed, or breaks.
Loss ==
  /\ socket \in {"open", "closing"}
  /\ socket' = "lost"
  /\ events' = Append(events, "lost")
  /\ fault' = (fault \/ owed > 0)
  /\ UNCHANGED <<session, alarm, client, inbound, job, said, owed, work, unsent,
                 undelivered, tally>>

\* processUpstreamMessage() from the send to the client on.
Deliver(event) ==
  IF client # "open"
  THEN CloseAll(LIVE_PHASES) /\ UNCHANGED <<active, recorded, waiting, undelivered, tally>>
  ELSE /\ undelivered' = undelivered - 1
       /\ waiting' = (waiting /\ event \notin Terminal)
       /\ active' = (active /\ event \notin Terminal)
       /\ recorded' = (recorded \/ event \in Completed)
       /\ IF event \in Completed /\ ~recorded
          THEN outcomes' = outcomes + 1 /\ verdict' = "success"
          ELSE UNCHANGED <<outcomes, verdict>>
       /\ IF event \in Errors THEN CloseAll(LIVE_PHASES)
          ELSE UNCHANGED <<phase, alarm, client, socket>>
       /\ UNCHANGED <<starts, blamed>>

\* Wrong: events are not chained.
WrongTakeEvent(event) ==
  /\ events # <<>> /\ event = Head(events)
  /\ events' = Tail(events)

\* The chain of the upstream: the next event is taken when the last is done with.
TakeEvent(event) ==
  /\ work = "none"
  /\ events # <<>>
  /\ event = Head(events)
  /\ events' = Tail(events)

\* processUpstreamMessage(): the session is not open.
DropMessage(event) ==
  /\ TakeEvent(event)
  /\ event # "lost"
  /\ phase # "open"
  /\ UNCHANGED <<session, alarm, client, waiting, socket, work, undelivered, tally>>

\* processUpstreamMessage(): its status says nothing.
DeliverAtOnce(event) ==
  /\ TakeEvent(event)
  /\ event \in Messages \ (KeyScope \cup ServiceScope)
  /\ phase = "open"
  /\ Deliver(event)
  /\ UNCHANGED work

\* processUpstreamMessage(): its status counts against the key or the service.
RecordStatus(event) ==
  /\ TakeEvent(event)
  /\ event \in KeyScope \cup ServiceScope
  /\ phase = "open"
  /\ work' = event
  /\ IF event \in ServiceScope THEN FailOnce(phase, recorded)
     ELSE UNCHANGED <<recorded, outcomes, verdict, blamed>>
  /\ UNCHANGED <<phase, active, alarm, client, waiting, socket, undelivered, starts>>

\* Wrong: an upstream that owes nothing counts as failed.
WrongLossCounts == ~recorded /\ phase \in {"connecting", "open"}

\* Wrong: only a handshake counts.
WrongLossOpen == ~recorded /\ phase = "connecting"

\* shouldRecordUpstreamFailure()
LossCounts == ~recorded /\ (phase = "connecting" \/ (phase = "open" /\ active))

\* handleUpstreamClose(), handleUpstreamError()
Lost(event) ==
  /\ TakeEvent(event)
  /\ event = "lost"
  /\ IF LossCounts
     THEN /\ FailOnce(phase, recorded)
          /\ work' = event
          /\ UNCHANGED <<phase, alarm, client, socket>>
     ELSE /\ CloseAll(LIVE_PHASES)
          /\ UNCHANGED <<recorded, work, outcomes, verdict, blamed>>
  /\ UNCHANGED <<active, waiting, undelivered, starts>>

\* The health update is done.
Recorded ==
  /\ work # "none"
  /\ work' = "none"
  /\ IF work = "lost"
     THEN CloseAll(LIVE_PHASES) /\ UNCHANGED <<active, recorded, waiting, undelivered, tally>>
     ELSE Deliver(work)
  /\ UNCHANGED events

EventStep ==
  /\ \/ \E event \in Events :
          DropMessage(event) \/ DeliverAtOnce(event) \/ RecordStatus(event) \/ Lost(event)
     \/ Recorded
  /\ UNCHANGED <<sent, pending, queue, job, said, owed, unsent, fault>>
-----------------------------------------------------------------------------
Next ==
  \/ Fetch \/ Alarm \/ Leave \/ ClientClosed
  \/ \E how \in {"early", "due"} : Due(how)
  \/ \E frame \in Frames : Send(frame)
  \/ TakeFrame \/ JobStep \/ ReadRefusal
  \/ \E event \in Messages : Message(event)
  \/ Loss \/ EventStep

Spec == Init /\ [][Next]_vars

\* The runtime runs what is queued and delivers alarms and close events; what a
\* job awaits answers or times out, but for the body of a refusal (ReadRefusal);
\* the clock passes the deadline.
Fairness ==
  /\ WF_vars(TakeFrame)
  /\ WF_vars(JobStep)
  /\ WF_vars(EventStep)
  /\ WF_vars(ClientClosed)
  /\ WF_vars(Alarm)
  /\ SF_vars(Due("due"))

FairSpec == Spec /\ Fairness
-----------------------------------------------------------------------------
Waits == {"configuring", "selecting", "fetching", "cooling", "waiting", "reporting",
          "reading", "refreshing", "validating"}

\* The types, and the bound of the queue: the frames that wait in memory are
\* those that are counted (enqueueClientMessage).
TypeOK ==
  /\ phase \in LIVE_PHASES \cup {"new", "closed"}
  /\ active \in BOOLEAN /\ recorded \in BOOLEAN
  /\ alarm \in {"unset", "set", "early", "due"}
  /\ client \in {"none", "open", "gone", "closed"}
  /\ pending \in Nat /\ queue \in Seq(Frames)
  /\ phase \in LIVE_PHASES => pending = Len(queue) /\ pending <= MaxPending
  /\ job \in [pc : Waits \cup {"idle"}, attempt : 0 .. Delays + 1]
  /\ socket \in {"none", "open", "closing", "lost"}
  /\ events \in Seq(Events)
  /\ work \in KeyScope \cup ServiceScope \cup {"lost", "none"}
  /\ sent \in 0 .. MaxFrames /\ waiting \in BOOLEAN /\ unsent \in Nat
  /\ said \in 0 .. MaxMessages /\ undelivered \in Nat /\ owed \in Nat
  /\ starts \in Nat /\ outcomes \in Nat
  /\ verdict \in {"none", "failure", "success"}
  /\ blamed \in BOOLEAN /\ fault \in BOOLEAN

\* A session always has what will take it further.  One that waits for its first
\* frame has its alarm, one on its way has a job at an await of that phase, and an
\* open one has its upstream, or the loss of it is still to be handled: no frame,
\* close, error or late answer leaves it without (fetch, alarm, processFirstFrame,
\* connectUpstream, handleUpstreamClose).  That the await ends is SessionEnds.
InGoodHands ==
  /\ phase = "awaiting_first_frame" => alarm # "unset"
  /\ phase = "routing" => job.pc \in {"configuring", "selecting"}
  /\ phase = "connecting" =>
       job.pc \in {"fetching", "cooling", "waiting", "reporting", "reading"}
  /\ phase = "open" =>
       socket = "open" \/ work = "lost" \/ \E i \in DOMAIN events : events[i] = "lost"

\* Once the session is closed no socket to the upstream stays open, not even one
\* whose handshake was under way (closeAll, connectUpstream).
NoOrphan == phase = "closed" => socket # "open"

\* An open session loses no frame: what was taken from the queue has been sent
\* upstream, but for the frame in hand (processOpenMessage).
NoFrameLost == phase = "open" /\ job.pc = "idle" => unsent = 0

\* No response counts twice in the health of the service, however its failure,
\* its end and the loss of the socket come together (recordServiceFailureOnce,
\* recordCompletedResponse).
OneOutcome == outcomes <= starts

\* The service is blamed only if it failed: its handshake, a status of its own,
\* a response it did not end, or a frame its socket did not take.  Clients that
\* leave, time out or are turned away do it no harm (recordServiceFailureOnce,
\* shouldRecordUpstreamFailure).
FailureHasCause == blamed => fault

\* The order of the phases.
Rank == [p \in LIVE_PHASES \cup {"new", "closed"} |->
           CASE p = "new" -> 0 [] p = "awaiting_first_frame" -> 1 [] p = "routing" -> 2
             [] p = "connecting" -> 3 [] p = "open" -> 4 [] p = "closed" -> 5]

\* The phases follow each other in one direction, and a closed session stays
\* closed, whatever was under way (transition).
Forward == [][phase' = phase \/ Rank[phase'] > Rank[phase]]_vars

\* The session ends by the loss of the upstream.
EndsByLoss ==
  /\ phase \in LIVE_PHASES /\ phase' = "closed"
  /\ \/ work = "lost" /\ work' = "none"
     \/ events # <<>> /\ Head(events) = "lost" /\ events' = Tail(events)

\* What the upstream said before it went reaches the client before the end
\* (enqueueUpstreamEvent).
DeliveredBeforeLoss == [][EndsByLoss /\ client = "open" => undelivered = 0]_vars

\* A response that the upstream broke off has its outcome recorded, if the
\* client asks for one response at a time (handleUpstreamClose).
LossIsRecorded == [][Polite /\ EndsByLoss /\ owed > 0 => verdict # "none"]_vars

\* A client is connected, refused or let go in the end, whether it asks or not,
\* unless the upstream refuses the handshake and never ends the body of its refusal
\* (upstreamErrorText): then the session stays in "connecting" until the client
\* goes.  When the client is gone the session ends and its upstream is let go, in
\* every phase, though a job may be left with that body (alarm, processFirstFrame,
\* connectUpstream, webSocketClose, closeAll).
SessionEnds ==
  /\ phase \in LIVE_PHASES \ {"open"} ~> phase \in {"open", "closed"} \/ job.pc = "reading"
  /\ client = "gone" ~>
       phase = "closed" /\ socket # "open" /\ job.pc \in {"idle", "reading"}
=============================================================================
