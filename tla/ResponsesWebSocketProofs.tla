---------------------- MODULE ResponsesWebSocketProofs ----------------------
(***************************************************************************)
(* The safety of the WebSocket proxy for any lengths of its queues and any *)
(* number of frames, messages and retries.                                 *)
(***************************************************************************)
EXTENDS ResponsesWebSocket, TLAPS

\* The frames that wait are those that are counted, until a frame too many has
\* closed the session.
Counted ==
  /\ pending >= Len(queue)
  /\ phase = "new" => pending = 0 /\ queue = <<>> /\ client = "none"
  /\ phase \in LIVE_PHASES => pending = Len(queue) /\ pending <= MaxPending

Routing == {"configuring", "selecting"}
Connecting == {"fetching", "cooling", "waiting"}
Asking == {"refreshing", "validating"}

\* Phase and job go together, and a job holds one frame that is not sent.
InHand ==
  /\ phase \in {"new", "awaiting_first_frame"} => job.pc = "idle"
  /\ phase = "routing" => job.pc \in Routing
  /\ phase = "connecting" => job.pc \in Connecting \cup {"reporting", "reading"}
  /\ phase = "open" => job.pc \in Asking \cup {"reporting", "idle"}
  /\ job.pc = "waiting" => job.attempt <= Delays
  /\ phase # "closed" => unsent = IF job.pc = "idle" THEN 0 ELSE 1

\* There is an upstream once it was connected to.
Sockets ==
  /\ phase \in {"new", "awaiting_first_frame", "routing"} => socket = "none"
  /\ phase = "connecting" => socket \in {"none", "lost"}
  /\ phase = "open" => socket # "none"
  /\ phase = "closed" => socket # "open"
  /\ job.pc \in Routing \cup Connecting => socket = "none"

\* The messages among some events.
Queued(es) == Len(es) - (IF es # <<>> /\ es[Len(es)] = "lost" THEN 1 ELSE 0)

InFlight == Queued(events) + (IF work \in Messages THEN 1 ELSE 0)

\* The loss is the last event, and what was said before it is delivered or waits.
Upstream ==
  /\ socket = "none" \/ phase = "connecting" =>
       events = <<>> /\ work = "none" /\ owed = 0
  /\ \A i \in DOMAIN events : events[i] = "lost" => i = Len(events) /\ socket = "lost"
  /\ work = "lost" => events = <<>> /\ socket = "lost"
  /\ undelivered >= InFlight
  /\ phase # "closed" => undelivered = InFlight

\* Every outcome is that of a response of its own.
Outcomes ==
  /\ outcomes <= starts
  /\ phase \in {"connecting", "open"} => outcomes + (IF recorded THEN 0 ELSE 1) <= starts
  /\ phase \in {"new", "awaiting_first_frame", "routing"} => ~recorded
  /\ phase = "connecting" /\ job.pc \in Connecting => ~recorded

\* A response that is active has a failure or an answer still to come.
Blame ==
  /\ blamed => fault
  /\ \A i \in DOMAIN events : events[i] \in ServiceScope => fault
  /\ socket = "lost" /\ owed > 0 => fault
  /\ phase = "open" /\ active =>
       \/ owed > 0 \/ fault \/ work \in Terminal
       \/ \E i \in DOMAIN events : events[i] \in Terminal

ProxyInv ==
  TypeOK /\ Counted /\ InHand /\ Sockets /\ Upstream /\ Outcomes /\ Blame
-----------------------------------------------------------------------------
(* Sequences. *)

LEMMA Appended ==
  ASSUME NEW S, NEW s \in Seq(S), NEW e \in S
  PROVE  /\ Append(s, e) \in Seq(S)
         /\ Len(Append(s, e)) = Len(s) + 1
         /\ Append(s, e)[Len(s) + 1] = e
         /\ \A i \in DOMAIN s : Append(s, e)[i] = s[i]
         /\ DOMAIN Append(s, e) = 1 .. (Len(s) + 1)
OBVIOUS

LEMMA Shortened ==
  ASSUME NEW S, NEW s \in Seq(S), s # <<>>
  PROVE  /\ Head(s) = s[1] /\ Head(s) \in S
         /\ Len(s) \in Nat /\ Len(s) > 0 /\ DOMAIN s = 1 .. Len(s)
         /\ Tail(s) \in Seq(S)
         /\ Len(Tail(s)) = Len(s) - 1
         /\ DOMAIN Tail(s) = 1 .. (Len(s) - 1)
         /\ \A i \in 1 .. (Len(s) - 1) : Tail(s)[i] = s[i + 1]
OBVIOUS
-----------------------------------------------------------------------------
LEMMA Initially == Init => ProxyInv
<1> SUFFICES ASSUME Init PROVE ProxyInv
  OBVIOUS
<1> USE DEF Init, Idle
<1>1. TypeOK
  <2>1. /\ active \in BOOLEAN /\ recorded \in BOOLEAN /\ waiting \in BOOLEAN
        /\ blamed \in BOOLEAN /\ fault \in BOOLEAN
    OBVIOUS
  <2>2. /\ phase \in LIVE_PHASES \cup {"new", "closed"} /\ phase \notin LIVE_PHASES
        /\ queue \in Seq(Frames) /\ events \in Seq(Events)
    BY DEF LIVE_PHASES
  <2>3. job \in [pc : Waits \cup {"idle"}, attempt : 0 .. Delays + 1]
    BY WebSocketAssumption
  <2>4. sent \in 0 .. MaxFrames /\ said \in 0 .. MaxMessages
    BY WebSocketAssumption
  <2> QED
    BY <2>1, <2>2, <2>3, <2>4 DEF TypeOK
<1>2. Counted /\ InHand /\ Sockets /\ Outcomes /\ Blame
  BY DEF Counted, InHand, Sockets, Outcomes, Blame, LIVE_PHASES, Routing, Connecting
<1>3. Upstream
  BY DEF Upstream, InFlight, Queued, LIVE_PHASES, Messages, Terminal, Completed, Failed, Errors
<1> QED
  BY <1>1, <1>2, <1>3 DEF ProxyInv
-----------------------------------------------------------------------------
(* Steps that leave the upstream alone, and what is known of it. *)

\* The session goes on as it is, or it is closed, and its job may be over.
Aside ==
  /\ UNCHANGED <<active, recorded, outbound, work, undelivered, tally, fault>>
  /\ \/ UNCHANGED <<phase, socket, job, unsent>>
     \/ /\ phase' = "closed"
        /\ socket' = IF socket = "open" THEN "closing" ELSE socket
        /\ job' \in {job, Idle}

LEMMA AsideKeeps ==
  ASSUME ProxyInv, Aside
  PROVE  InHand' /\ Sockets' /\ Upstream' /\ Outcomes' /\ Blame'
<1> USE DEF ProxyInv, Aside, outbound, tally, Idle
<1>1. InHand'
  BY DEF InHand
<1>2. Sockets'
  BY DEF Sockets, TypeOK, Routing, Connecting
<1>3. Upstream'
  BY DEF Upstream, InFlight, Queued, LIVE_PHASES
<1>4. Outcomes'
  BY DEF Outcomes
<1>5. Blame'
  BY DEF Blame
<1> QED
  BY <1>1, <1>2, <1>3, <1>4, <1>5

\* closeAll() where the session is live or closed.
LEMMA Closed ==
  ASSUME ProxyInv, phase # "new", CloseAll(LIVE_PHASES)
  PROVE  /\ phase' = "closed"
         /\ alarm' \in {"unset", "set", "early", "due"}
         /\ client' \in {client, "closed"}
         /\ socket' = IF socket = "open" THEN "closing" ELSE socket
<1>1. CASE phase \in LIVE_PHASES
  BY <1>1 DEF CloseAll, ProxyInv, TypeOK
<1>2. CASE phase \notin LIVE_PHASES
  <2>1. phase = "closed" /\ socket # "open"
    BY <1>2 DEF ProxyInv, TypeOK, Sockets
  <2> QED
    BY <1>2, <2>1 DEF CloseAll, ProxyInv, TypeOK
<1> QED
  BY <1>1, <1>2

\* What closes the session leaves its types as they are.
LEMMA ClosedTypes ==
  ASSUME ProxyInv, Aside, phase' = "closed",
         alarm' \in {"unset", "set", "early", "due"},
         client' \in {"none", "open", "gone", "closed"},
         pending' \in Nat, queue' \in Seq(Frames), pending' >= Len(queue'),
         sent' \in 0 .. MaxFrames, waiting' \in BOOLEAN, unsent' \in Nat
  PROVE  ProxyInv'
<1>1. InHand' /\ Sockets' /\ Upstream' /\ Outcomes' /\ Blame'
  BY AsideKeeps
<1>2. Counted'
  BY DEF Counted, LIVE_PHASES
<1>3. job' \in [pc : Waits \cup {"idle"}, attempt : 0 .. Delays + 1]
  BY WebSocketAssumption DEF Aside, Idle, ProxyInv, TypeOK
<1>4. TypeOK'
  <2>1. socket' \in {"none", "open", "closing", "lost"}
    BY DEF Aside, ProxyInv, TypeOK
  <2> QED
    BY <1>3, <2>1 DEF Aside, ProxyInv, TypeOK, LIVE_PHASES, outbound, tally
<1> QED
  BY <1>1, <1>2, <1>4 DEF ProxyInv

LEMMA ClosesSession ==
  ASSUME ProxyInv, phase # "new", CloseAll(LIVE_PHASES),
         UNCHANGED <<active, recorded, outbound, work, undelivered, tally, fault>>,
         job' \in {job, Idle},
         pending' \in Nat, queue' \in Seq(Frames), pending' >= Len(queue'),
         sent' \in 0 .. MaxFrames, waiting' \in BOOLEAN, unsent' \in Nat
  PROVE  ProxyInv'
<1>1. Aside
  BY Closed DEF Aside
<1> QED
  BY <1>1, Closed, ClosedTypes DEF ProxyInv, TypeOK

LEMMA FetchKeeps ==
  ASSUME ProxyInv, Fetch
  PROVE  ProxyInv'
<1> USE DEF ProxyInv, Fetch, inbound, outbound, tally
<1>1. TypeOK'
  BY WebSocketAssumption DEF TypeOK, Counted, LIVE_PHASES
<1>2. Counted' /\ InHand' /\ Outcomes' /\ Blame'
  BY WebSocketAssumption DEF Counted, InHand, Outcomes, Blame, LIVE_PHASES
<1>3. Sockets'
  BY DEF Sockets
<1>4. Upstream'
  BY DEF Upstream, InFlight, Queued, LIVE_PHASES, Sockets, Messages, Terminal, Completed, Failed, Errors
<1> QED
  BY <1>1, <1>2, <1>3, <1>4

LEMMA AlarmKeeps ==
  ASSUME ProxyInv, Alarm \/ Leave \/ ClientClosed \/ Due("early") \/ Due("due")
  PROVE  ProxyInv'
<1> USE DEF ProxyInv
<1>1. CASE UNCHANGED <<phase, socket>>
  <2>1. UNCHANGED <<active, recorded, job, inbound, outbound, work, unsent, undelivered,
                    tally, fault>>
    BY DEF Alarm, Leave, ClientClosed, Due, session
  <2>2. Aside
    BY <1>1, <2>1 DEF Aside
  <2>3. /\ alarm' \in {"unset", "set", "early", "due"}
        /\ client' \in {"none", "open", "gone", "closed"}
        /\ phase = "new" => client' = "none"
    BY <1>1 DEF Alarm, Leave, ClientClosed, Due, TypeOK, CloseAll, Counted
  <2>4. TypeOK' /\ Counted'
    BY <1>1, <2>1, <2>3 DEF TypeOK, Counted, session, inbound, outbound, tally
  <2> QED
    BY <2>2, <2>4, AsideKeeps
<1>2. ASSUME Alarm, phase' # phase PROVE ProxyInv'
  <2>1. /\ phase = "awaiting_first_frame" /\ phase' = "closed" /\ UNCHANGED socket
        /\ UNCHANGED <<active, recorded, job, inbound, outbound, work, unsent, undelivered,
                       tally, fault>>
        /\ alarm' = "unset" /\ client' = "closed"
    BY <1>2 DEF Alarm
  <2>2. Aside
    BY <2>1 DEF Aside, Sockets
  <2> QED
    BY <2>1, <2>2, ClosedTypes DEF TypeOK, Counted, inbound
<1>3. ASSUME ClientClosed PROVE ProxyInv'
  <2>1. /\ phase # "new" /\ CloseAll(LIVE_PHASES)
        /\ UNCHANGED <<active, recorded, job, inbound, outbound, work, unsent, undelivered,
                       tally, fault>>
    BY <1>3 DEF ClientClosed, Counted
  <2> QED
    BY <2>1, ClosesSession DEF TypeOK, Counted, inbound
<1>4. ASSUME Alarm, phase' = phase PROVE UNCHANGED <<phase, socket>>
  BY <1>4 DEF Alarm
<1> QED
  BY <1>1, <1>2, <1>3, <1>4 DEF Leave, Due, session

LEMMA SendKeeps ==
  ASSUME ProxyInv, NEW frame \in Frames, Send(frame)
  PROVE  ProxyInv'
<1> USE DEF ProxyInv
<1>1. /\ UNCHANGED <<active, recorded, job, outbound, work, unsent, undelivered, tally, fault>>
      /\ sent' = sent + 1 /\ sent < MaxFrames /\ pending' = pending + 1
      /\ waiting' = (waiting \/ frame = "create") /\ client \in {"open", "closed"}
  BY DEF Send
<1>2. phase # "new" /\ pending' \in Nat /\ sent' \in 0 .. MaxFrames /\ waiting' \in BOOLEAN
  BY <1>1, WebSocketAssumption DEF Counted, TypeOK
<1>3. CASE pending + 1 > MaxPending
  <2>1. CloseAll(LIVE_PHASES) /\ queue' = queue
    BY <1>3 DEF Send, Overflows
  <2>2. queue' \in Seq(Frames) /\ pending' >= Len(queue')
    BY <1>1, <2>1 DEF TypeOK, Counted
  <2> QED
    BY <1>1, <1>2, <2>1, <2>2, ClosesSession DEF TypeOK
<1>4. CASE ~ (pending + 1 > MaxPending)
  <2>1. queue' = Append(queue, frame) /\ UNCHANGED <<phase, alarm, client, socket>>
    BY <1>4 DEF Send, Overflows
  <2>2. queue' \in Seq(Frames) /\ Len(queue') = Len(queue) + 1 /\ Len(queue) \in Nat
    BY <2>1, Appended DEF TypeOK
  <2>3. Aside
    BY <1>1, <2>1 DEF Aside
  <2>4. Counted'
    BY <1>1, <1>2, <1>4, <2>1, <2>2, WebSocketAssumption DEF Counted, TypeOK
  <2>5. TypeOK'
    BY <1>1, <1>2, <2>1, <2>2, <2>4 DEF TypeOK, Counted, outbound, tally
  <2> QED
    BY <2>3, <2>4, <2>5, AsideKeeps
<1> QED
  BY <1>3, <1>4
-----------------------------------------------------------------------------
(* The frame in hand. *)

LEMMA Taken ==
  ASSUME ProxyInv, NEW frame \in Frames, Take(frame)
  PROVE  /\ job.pc = "idle" /\ phase # "new"
         /\ queue' \in Seq(Frames) /\ pending' \in Nat /\ pending' >= Len(queue')
         /\ phase \in LIVE_PHASES => pending' = Len(queue') /\ pending' <= MaxPending
         /\ UNCHANGED <<sent, waiting>>
         /\ unsent + 1 \in Nat
         /\ phase # "closed" => unsent = 0
<1>1. /\ queue \in Seq(Frames) /\ queue # <<>> /\ queue' = Tail(queue)
      /\ pending \in Nat /\ pending >= Len(queue) /\ pending' = pending - 1
  BY DEF Take, ProxyInv, TypeOK, Counted
<1>2. queue' \in Seq(Frames) /\ Len(queue') = Len(queue) - 1 /\ Len(queue) \in Nat \ {0}
  BY <1>1, Shortened
<1>3. phase # "new" /\ unsent + 1 \in Nat
  BY <1>1 DEF ProxyInv, Counted, TypeOK
<1>4. phase \in LIVE_PHASES => pending' = Len(queue') /\ pending' <= MaxPending
  BY <1>1, <1>2, WebSocketAssumption DEF ProxyInv, Counted
<1>5. job.pc = "idle" /\ UNCHANGED <<sent, waiting>> /\ (phase # "closed" => unsent = 0)
  BY DEF Take, ProxyInv, InHand
<1>6. pending' \in Nat /\ pending' >= Len(queue')
  BY <1>1, <1>2
<1> QED
  BY <1>2, <1>3, <1>4, <1>5, <1>6

LEMMA FailsOnce ==
  ASSUME TypeOK, NEW p \in {"connecting", "open"}, NEW done \in BOOLEAN, FailOnce(p, done),
         starts' \in Nat, outcomes + (IF done THEN 0 ELSE 1) <= starts'
  PROVE  /\ recorded' = TRUE /\ blamed' \in BOOLEAN
         /\ outcomes' \in Nat /\ outcomes' <= starts'
         /\ verdict' \in {"none", "failure", "success"}
<1>1. CASE done = TRUE
  BY <1>1 DEF FailOnce, TypeOK
<1>2. CASE done = FALSE
  BY <1>2 DEF FailOnce, TypeOK
<1> QED
  BY <1>1, <1>2

LEMMA DropFrameKeeps ==
  ASSUME ProxyInv, DropFrame \/ RefuseFrame
  PROVE  ProxyInv'
<1>1. PICK frame \in Frames : Take(frame)
  BY DEF DropFrame, RefuseFrame
<1>2. UNCHANGED <<active, recorded, job, outbound, work, undelivered, tally, fault>>
      /\ unsent' = unsent + 1
  BY DEF DropFrame, RefuseFrame, session
<1>3. CloseAll(LIVE_PHASES)
  <2>1. CASE RefuseFrame
    BY <2>1 DEF RefuseFrame
  <2>2. CASE DropFrame
    <3>1. phase \notin LIVE_PHASES
      BY <1>1, <2>2, Taken DEF DropFrame, ProxyInv, InHand, Routing, Connecting, LIVE_PHASES
    <3> QED
      BY <2>2, <3>1 DEF DropFrame, CloseAll, session
  <2> QED
    BY <2>1, <2>2
<1> QED
  BY <1>1, <1>2, <1>3, Taken, ClosesSession DEF ProxyInv, TypeOK

LEMMA ClaimKeeps ==
  ASSUME ProxyInv, Claim \/ Ask
  PROVE  ProxyInv'
<1> USE DEF ProxyInv
<1>1. "create" \in Frames /\ Take("create")
  BY DEF Claim, Ask, Frames
<1>2. /\ UNCHANGED <<active, recorded, client, socket, outbound, work, undelivered, tally, fault>>
      /\ unsent' = unsent + 1 /\ unsent' \in Nat
      /\ alarm' \in {"unset", "set", "early", "due"}
      /\ \/ phase = "awaiting_first_frame" /\ phase' = "routing"
            /\ job' = [job EXCEPT !.pc = "configuring"]
         \/ phase = "open" /\ phase' = "open" /\ job' = [job EXCEPT !.pc = "refreshing"]
  BY <1>1, Taken DEF Claim, Ask, Continue, session, TypeOK
<1>3. /\ job \in [pc : Waits \cup {"idle"}, attempt : 0 .. Delays + 1]
      /\ job' \in [pc : Waits \cup {"idle"}, attempt : 0 .. Delays + 1]
      /\ phase = "awaiting_first_frame" => job'.pc = "configuring"
      /\ phase = "open" => job'.pc = "refreshing"
  BY <1>2 DEF TypeOK, Waits
<1>4. TypeOK' /\ Counted'
  BY <1>1, <1>2, <1>3, Taken DEF TypeOK, Counted, LIVE_PHASES, outbound, tally
<1>5. InHand'
  BY <1>1, <1>2, <1>3, Taken DEF InHand, Routing, Asking, TypeOK
<1>6. Sockets'
  BY <1>2, <1>3 DEF Sockets, Routing, Connecting
<1>7. Upstream'
  BY <1>2 DEF Upstream, InFlight, Queued, outbound
<1>8. Outcomes' /\ Blame'
  BY <1>2 DEF Outcomes, Blame, outbound, tally
<1> QED
  BY <1>4, <1>5, <1>6, <1>7, <1>8

LEMMA RelayKeeps ==
  ASSUME ProxyInv, Relay
  PROVE  ProxyInv'
<1> USE DEF ProxyInv
<1>1. "other" \in Frames /\ Take("other") /\ phase = "open"
  BY DEF Relay, Frames
<1>2. UNCHANGED <<phase, active, alarm, client, socket, outbound, work, undelivered, starts>>
  BY DEF Relay
<1>3. CASE socket = "open"
  <2>1. UNCHANGED <<recorded, outcomes, verdict, blamed, job, unsent, fault>>
    BY <1>3 DEF Relay
  <2>2. TypeOK' /\ Counted'
    BY <1>1, <1>2, <2>1, Taken DEF TypeOK, Counted, outbound
  <2>3. Aside
    BY <1>2, <2>1 DEF Aside, tally
  <2> QED
    BY <2>2, <2>3, AsideKeeps
<1>4. CASE socket # "open"
  <2>1. /\ FailOnce(phase, recorded)
        /\ job' = [job EXCEPT !.pc = "reporting"]
        /\ unsent' = unsent + 1
        /\ fault' = TRUE
    BY <1>4 DEF Relay, Continue
  <2>2. /\ job' \in [pc : Waits \cup {"idle"}, attempt : 0 .. Delays + 1]
        /\ job'.pc = "reporting"
    BY <2>1 DEF TypeOK, Waits
  <2>3. /\ outcomes' \in Nat /\ verdict' \in {"none", "failure", "success"}
        /\ recorded' = TRUE /\ blamed' \in BOOLEAN
        /\ outcomes' <= starts'
    <3>1. outcomes + (IF recorded THEN 0 ELSE 1) <= starts' /\ starts' = starts
      BY <1>1, <1>2 DEF Outcomes
    <3> QED
      BY <1>1, <2>1, <3>1, FailsOnce DEF TypeOK
  <2>4. TypeOK' /\ Counted'
    BY <1>1, <1>2, <2>1, <2>2, <2>3, Taken DEF TypeOK, Counted, LIVE_PHASES, outbound
  <2>5. InHand'
    BY <1>1, <1>2, <2>1, <2>2, Taken DEF InHand
  <2>6. Sockets'
    BY <1>1, <1>2, <2>2 DEF Sockets, Routing, Connecting
  <2>7. Upstream'
    BY <1>1, <1>2 DEF Upstream, InFlight, Queued, outbound
  <2>8. Outcomes' /\ Blame'
    BY <1>1, <1>2, <2>1, <2>3 DEF Outcomes, Blame
  <2> QED
    BY <2>4, <2>5, <2>6, <2>7, <2>8
<1> QED
  BY <1>3, <1>4
-----------------------------------------------------------------------------
(* The job. *)

Jobs == [pc : Waits \cup {"idle"}, attempt : 0 .. Delays + 1]

\* Only the job goes on, and stays with the phase.
Onward ==
  /\ UNCHANGED <<session, alarm, client, inbound, socket, outbound, work, unsent,
                 undelivered, tally, fault>>
  /\ \E pc \in Waits, n \in 0 .. Delays + 1 :
       /\ job' = [pc |-> pc, attempt |-> n]
       /\ pc \in Routing => phase = "routing"
       /\ pc \in Connecting =>
            phase \in {"connecting", "closed"} /\ socket = "none" /\ (phase = "connecting" => ~recorded)
       /\ pc \in Asking => phase = "open"
       /\ pc \in {"reporting", "reading"} => phase = "connecting"
       /\ pc = "waiting" => n <= Delays

LEMMA OnwardKeeps ==
  ASSUME ProxyInv, Onward, job.pc # "idle"
  PROVE  ProxyInv'
<1> USE DEF ProxyInv, session, inbound, outbound, tally
<1>1. PICK pc \in Waits, n \in 0 .. Delays + 1 :
        /\ job' = [pc |-> pc, attempt |-> n]
        /\ pc \in Routing => phase = "routing"
        /\ pc \in Connecting =>
            phase \in {"connecting", "closed"} /\ socket = "none" /\ (phase = "connecting" => ~recorded)
        /\ pc \in Asking => phase = "open"
        /\ pc \in {"reporting", "reading"} => phase = "connecting"
        /\ pc = "waiting" => n <= Delays
  BY DEF Onward
<1>2. /\ UNCHANGED <<session, alarm, client, inbound, socket, outbound, work, unsent,
                     undelivered, tally, fault>>
      /\ job' \in Jobs /\ job'.pc = pc /\ job'.attempt = n /\ job'.pc # "idle"
  BY <1>1 DEF Onward, Jobs, Waits
<1>3. pc \in Routing \/ pc \in Connecting \/ pc \in Asking \/ pc \in {"reporting", "reading"}
  BY DEF Waits, Routing, Connecting, Asking
<1>4. TypeOK' /\ Counted'
  BY <1>2 DEF TypeOK, Counted, Jobs
<1>5. InHand'
  BY <1>1, <1>2, <1>3 DEF InHand
<1>6. Sockets'
  BY <1>1, <1>2 DEF Sockets, Routing
<1>7. Upstream'
  BY <1>2 DEF Upstream, InFlight, Queued
<1>8. Outcomes' /\ Blame'
  BY <1>1, <1>2 DEF Outcomes, Blame
<1> QED
  BY <1>4, <1>5, <1>6, <1>7, <1>8

\* A job that has found the session closed is over.
LEMMA OverKeeps ==
  ASSUME ProxyInv, phase = "closed", job' = Idle,
         UNCHANGED <<session, alarm, client, inbound, socket, outbound, work, unsent,
                     undelivered, tally, fault>>
  PROVE  ProxyInv'
<1>1. CloseAll(LIVE_PHASES)
  BY DEF CloseAll, LIVE_PHASES, session
<1> QED
  BY <1>1, ClosesSession DEF ProxyInv, TypeOK, Counted, session, inbound

LEMMA ConfigureKeeps ==
  ASSUME ProxyInv, Misconfigured \/ Configure \/ Refresh \/ Unavailable \/ Report \/ ReadRefusal
  PROVE  ProxyInv'
<1> USE DEF ProxyInv
<1>1. CASE Misconfigured \/ Unavailable \/ Report \/ ReadRefusal
  <2>1. /\ CloseAll(LIVE_PHASES) /\ job' = Idle /\ phase # "new"
        /\ UNCHANGED <<active, recorded, inbound, outbound, work, unsent, undelivered, tally, fault>>
    BY <1>1 DEF Misconfigured, Unavailable, Report, ReadRefusal, Done, InHand
  <2> QED
    BY <2>1, ClosesSession DEF TypeOK, Counted, inbound
<1>2. ASSUME NEW pc \in {"configuring", "refreshing"}, NEW next \in Waits,
             NEW expected \in LIVE_PHASES, Configured(pc, next, expected),
             pc = "configuring" => next \in Routing /\ expected = "routing",
             pc = "refreshing" => next \in Asking /\ expected = "open"
      PROVE  ProxyInv'
  <2>1. job.pc = pc /\ job \in Jobs
        /\ UNCHANGED <<session, alarm, client, inbound, socket, outbound, work, unsent,
                       undelivered, tally, fault>>
    BY <1>2 DEF Configured, TypeOK, Jobs
  <2>2. CASE phase = expected
    <3>1. job' = [pc |-> next, attempt |-> job.attempt] /\ job.attempt \in 0 .. Delays + 1
      BY <1>2, <2>1, <2>2 DEF Configured, IsIn, Continue, Jobs
    <3>2. Onward
      BY <1>2, <2>1, <2>2, <3>1 DEF Onward, Routing, Asking, Connecting
    <3> QED
      BY <1>2, <2>1, <3>2, OnwardKeeps
  <2>3. CASE phase # expected
    <3>1. job' = Idle
      BY <1>2, <2>3 DEF Configured, IsIn, Done
    <3>2. phase = "closed"
      BY <1>2, <2>1, <2>3 DEF InHand, TypeOK, LIVE_PHASES, Routing, Connecting, Asking
    <3> QED
      BY <2>1, <3>1, <3>2, OverKeeps
  <2> QED
    BY <2>2, <2>3
<1>3. CASE Configure
  BY <1>2, <1>3 DEF Configure, Routing, Waits, LIVE_PHASES
<1>4. CASE Refresh
  BY <1>2, <1>4 DEF Refresh, Asking, Waits, LIVE_PHASES
<1> QED
  BY <1>1, <1>3, <1>4

LEMMA SelectKeeps ==
  ASSUME ProxyInv, Select
  PROVE  ProxyInv'
<1> USE DEF ProxyInv
<1>1. /\ job.pc = "selecting"
      /\ UNCHANGED <<active, recorded, alarm, client, inbound, socket, outbound, work, unsent,
                     undelivered, outcomes, verdict, blamed, fault>>
  BY DEF Select
<1>2. CASE phase = "routing"
  <2>1. phase' = "connecting" /\ job' = [pc |-> "fetching", attempt |-> 1] /\ starts' = starts + 1
    BY <1>2 DEF Select, IsIn
  <2>2. TypeOK' /\ Counted'
    BY <1>1, <1>2, <2>1, WebSocketAssumption
    DEF TypeOK, Counted, LIVE_PHASES, Waits, inbound, outbound
  <2>3. InHand'
    BY <1>1, <1>2, <2>1 DEF InHand, Connecting
  <2>4. Sockets'
    BY <1>1, <1>2, <2>1 DEF Sockets
  <2>5. Upstream'
    BY <1>1, <1>2, <2>1 DEF Upstream, InFlight, Queued, Sockets, outbound
  <2>6. Outcomes' /\ Blame'
    BY <1>1, <1>2, <2>1 DEF Outcomes, Blame, TypeOK, outbound
  <2> QED
    BY <2>2, <2>3, <2>4, <2>5, <2>6
<1>3. CASE phase # "routing"
  <2>1. job' = Idle /\ UNCHANGED <<phase, starts>>
    BY <1>3 DEF Select, IsIn, Done
  <2>2. phase = "closed"
    BY <1>1, <1>3 DEF InHand, TypeOK, LIVE_PHASES, Connecting, Asking
  <2> QED
    BY <1>1, <2>1, <2>2, OverKeeps DEF session, tally
<1> QED
  BY <1>2, <1>3
-----------------------------------------------------------------------------
(* The handshake. *)

LEMMA LateKeeps ==
  ASSUME ProxyInv, NEW result \in Results, Late(result), job.pc \in Connecting,
         UNCHANGED <<alarm, client, inbound, said, work, undelivered>>
  PROVE  ProxyInv'
<1> USE DEF ProxyInv
<1>1. /\ job' = Idle /\ socket' \in {"none", "lost"} /\ socket = "none"
      /\ UNCHANGED <<session, unsent, events, owed, tally, fault>>
  BY DEF Late, Done, Sockets
<1>2. phase = "closed"
  BY DEF Late, IsIn, InHand, TypeOK, LIVE_PHASES, Routing, Connecting, Asking
<1>3. TypeOK' /\ Counted'
  BY <1>1, WebSocketAssumption DEF TypeOK, Counted, Idle, session, inbound, tally
<1>4. InHand' /\ Sockets'
  BY <1>1, <1>2 DEF InHand, Sockets, Idle, Routing, Connecting, session
<1>5. Upstream' /\ Outcomes' /\ Blame'
  BY <1>1, <1>2 DEF Upstream, InFlight, Queued, Outcomes, Blame, session, tally
<1> QED
  BY <1>3, <1>4, <1>5

LEMMA RefusedKeeps ==
  ASSUME ProxyInv, NEW result \in Results, Refused(result), job.pc \in Connecting,
         UNCHANGED <<alarm, client, inbound, said, work, undelivered>>
  PROVE  ProxyInv'
<1> USE DEF ProxyInv
<1>1. /\ phase = "connecting" /\ socket = "none" /\ recorded = FALSE
      /\ events = <<>> /\ work = "none" /\ owed = 0
  BY DEF Refused, IsIn, Sockets, Upstream, Outcomes, TypeOK
<1>2. /\ \E pc \in {"reporting", "reading"} : job' = [job EXCEPT !.pc = pc]
      /\ socket' \in {"none", "lost"}
      /\ UNCHANGED <<phase, active, unsent, events, owed, starts>>
      /\ \/ UNCHANGED <<recorded, outcomes, verdict, blamed, fault>>
         \/ FailOnce("connecting", FALSE) /\ fault' = TRUE
  BY <1>1 DEF Refused, Continue
<1>3. job' \in Jobs /\ job'.pc \in {"reporting", "reading"}
  BY <1>2 DEF TypeOK, Jobs, Waits
<1>4. /\ recorded' \in BOOLEAN /\ blamed' \in BOOLEAN /\ fault' \in BOOLEAN
      /\ outcomes' \in Nat /\ verdict' \in {"none", "failure", "success"}
      /\ outcomes' <= starts' /\ (recorded' = TRUE \/ outcomes' + 1 <= starts')
      /\ blamed' => fault'
  <2>1. outcomes + 1 <= starts /\ starts' = starts /\ starts \in Nat /\ outcomes \in Nat
    BY <1>1, <1>2 DEF Outcomes, TypeOK
  <2>2. CASE UNCHANGED <<recorded, outcomes, verdict, blamed, fault>>
    BY <2>1, <2>2, <1>1 DEF TypeOK, Blame
  <2>3. CASE FailOnce("connecting", FALSE) /\ fault' = TRUE
    <3>1. /\ recorded' = TRUE /\ blamed' \in BOOLEAN /\ outcomes' \in Nat /\ outcomes' <= starts'
          /\ verdict' \in {"none", "failure", "success"}
      BY <2>1, <2>3, FailsOnce
    <3>2. fault' \in BOOLEAN
      BY <2>3
    <3> QED
      BY <2>3, <3>1, <3>2
  <2> QED
    BY <1>2, <2>2, <2>3
<1>5. TypeOK' /\ Counted'
  BY <1>2, <1>3, <1>4 DEF TypeOK, Counted, Jobs, inbound
<1>6. InHand' /\ Sockets'
  BY <1>1, <1>2, <1>3 DEF InHand, Sockets, Routing, Connecting
<1>7. Upstream'
  BY <1>1, <1>2 DEF Upstream, InFlight, Queued
<1>8. Outcomes' /\ Blame'
  BY <1>1, <1>2, <1>3, <1>4 DEF Outcomes, Blame, Connecting
<1> QED
  BY <1>5, <1>6, <1>7, <1>8

LEMMA OpenedKeeps ==
  ASSUME ProxyInv, Opened, job.pc \in Connecting,
         UNCHANGED <<alarm, client, inbound, said, work, undelivered>>
  PROVE  ProxyInv'
<1> USE DEF ProxyInv
<1>1. /\ phase = "connecting" /\ recorded = FALSE /\ unsent = 1
      /\ events = <<>> /\ work = "none" /\ owed = 0 /\ undelivered = 0
      /\ outcomes + 1 <= starts /\ outcomes \in Nat /\ starts \in Nat /\ starts' = starts
      /\ phase' = "open" /\ active' = TRUE
  BY DEF Opened, IsIn, InHand, Upstream, InFlight, Queued, Outcomes, TypeOK, Connecting, Messages,
         Terminal, Completed, Failed, Errors
<1>2. CASE socket' = "open"
  <2>1. /\ recorded' = FALSE /\ unsent' = 0 /\ owed' = 1 /\ job' = Idle
        /\ UNCHANGED <<events, outcomes, verdict, blamed, fault>>
    BY <1>1, <1>2 DEF Opened, Done
  <2>2. TypeOK' /\ Counted'
    <3>1. job' \in Jobs
      BY <2>1, WebSocketAssumption DEF Idle, Jobs
    <3>2. /\ active' \in BOOLEAN /\ recorded' \in BOOLEAN /\ unsent' \in Nat /\ owed' \in Nat
          /\ starts' \in Nat
      BY <1>1, <2>1
    <3> QED
      BY <1>1, <1>2, <2>1, <3>1, <3>2 DEF TypeOK, Counted, Jobs, LIVE_PHASES, inbound
  <2>3. InHand' /\ Sockets'
    BY <1>1, <1>2, <2>1 DEF InHand, Sockets, Idle, Routing, Connecting
  <2>4. Upstream'
    BY <1>1, <1>2, <2>1 DEF Upstream, InFlight, Queued
  <2>5. Outcomes' /\ Blame'
    BY <1>1, <1>2, <2>1 DEF Outcomes, Blame
  <2> QED
    BY <2>2, <2>3, <2>4, <2>5
<1>3. CASE socket' = "lost"
  <2>1. /\ events' = Append(events, "lost") /\ FailOnce("open", FALSE) /\ fault' = TRUE
        /\ job' = [job EXCEPT !.pc = "reporting"] /\ UNCHANGED <<unsent, owed>>
    BY <1>3 DEF Opened, Continue
  <2>2. events' = <<"lost">> /\ events' \in Seq(Events)
    BY <1>1, <2>1 DEF Events
  <2>3. job' \in Jobs /\ job'.pc = "reporting"
    BY <2>1 DEF TypeOK, Jobs, Waits
  <2>4. /\ recorded' = TRUE /\ blamed' \in BOOLEAN /\ outcomes' \in Nat /\ outcomes' <= starts'
        /\ verdict' \in {"none", "failure", "success"}
    BY <1>1, <2>1, FailsOnce
  <2>5. TypeOK' /\ Counted'
    BY <1>1, <1>3, <2>1, <2>2, <2>3, <2>4 DEF TypeOK, Counted, Jobs, LIVE_PHASES, inbound
  <2>6. InHand' /\ Sockets'
    BY <1>1, <1>3, <2>1, <2>3 DEF InHand, Sockets, Routing, Connecting
  <2>7. Len(events') = 1 /\ events'[1] = "lost" /\ DOMAIN events' = {1} /\ events' # <<>>
    BY <2>2
  <2>8. Upstream'
    <3>1. InFlight' = 0
      BY <1>1, <2>7 DEF InFlight, Queued, Messages, Terminal, Completed, Failed, Errors
    <3> QED
      BY <1>1, <1>3, <2>1, <2>7, <3>1 DEF Upstream
  <2>9. Outcomes' /\ Blame'
    BY <1>1, <2>1, <2>4 DEF Outcomes, Blame
  <2> QED
    BY <2>5, <2>6, <2>8, <2>9
<1> QED
  BY <1>2, <1>3 DEF Opened

\* What an attempt, a cooled key and a delay lead to.
LEMMA Handshakes ==
  ASSUME ProxyInv, Cooled \/ Retry \/ \E result \in Results : Attempt(result)
  PROVE  /\ job.pc \in Connecting
         /\ UNCHANGED <<alarm, client, inbound, said, work, undelivered>>
         /\ \/ Onward
            \/ Opened
            \/ \E result \in Results : Late(result) \/ Refused(result)
<1> USE DEF ProxyInv
<1>1. /\ job.pc \in Connecting /\ UNCHANGED <<alarm, client, inbound, said, work, undelivered>>
      /\ job \in Jobs
  BY DEF Cooled, Retry, Attempt, Connecting, Jobs, TypeOK
<1>2. socket = "none"
  BY <1>1 DEF Sockets
<1>3. phase \in {"connecting", "closed"} /\ (phase = "connecting" => ~recorded)
  BY <1>1 DEF InHand, Outcomes, TypeOK, LIVE_PHASES, Routing, Connecting, Asking
<1>4. ASSUME NEW pc \in {"cooling", "waiting"}, Continue(pc),
             pc = "waiting" => job.attempt <= Delays,
             UNCHANGED <<session, socket, unsent, events, owed, tally, fault>>
      PROVE  Onward
  <2>1. job' = [pc |-> pc, attempt |-> job.attempt] /\ job.attempt \in 0 .. Delays + 1 /\ pc \in Waits
    BY <1>1, <1>4 DEF Continue, Jobs, Waits
  <2> QED
    BY <1>1, <1>2, <1>3, <1>4, <2>1 DEF Onward, Routing, Connecting, Asking, outbound
<1>5. ASSUME NEW result \in Results, Connect(result)
      PROVE  Opened \/ Late(result) \/ Refused(result)
  BY <1>5 DEF Connect
<1>6. ASSUME NEW result \in Results, Settle(result)
      PROVE  Onward \/ Opened \/ Late(result) \/ Refused(result)
  BY <1>4, <1>5, <1>6 DEF Settle
<1>7. CASE Cooled
  <2>1. "key" \in Results /\ Settle("key")
    BY <1>7 DEF Cooled, Results
  <2> QED
    BY <1>1, <1>6, <2>1
<1>8. ASSUME NEW result \in Results, Attempt(result)
      PROVE  Onward \/ Opened \/ Late(result) \/ Refused(result)
  BY <1>4, <1>6, <1>8 DEF Attempt
<1>9. CASE Retry
  <2>1. CASE phase = "connecting"
    <3>1. /\ job' = [pc |-> "fetching", attempt |-> job.attempt + 1]
          /\ UNCHANGED <<session, socket, unsent, events, owed, tally, fault>>
          /\ job.attempt <= Delays
      BY <1>9, <2>1 DEF Retry, InHand
    <3>2. job.attempt + 1 \in 0 .. Delays + 1 /\ "fetching" \in Waits
      BY <1>1, <3>1, WebSocketAssumption DEF Jobs, Waits
    <3>3. Onward
      BY <1>1, <1>2, <1>3, <3>1, <3>2 DEF Onward, Routing, Connecting, Asking, outbound
    <3> QED
      BY <1>1, <3>3
  <2>2. CASE phase # "connecting"
    <3>1. "error" \in Results /\ Connect("error")
      BY <1>9, <2>2 DEF Retry, Results
    <3> QED
      BY <1>1, <1>5, <3>1
  <2> QED
    BY <2>1, <2>2
<1> QED
  BY <1>1, <1>7, <1>8, <1>9

LEMMA HandshakeKeeps ==
  ASSUME ProxyInv, Cooled \/ Retry \/ \E result \in Results : Attempt(result)
  PROVE  ProxyInv'
<1>1. job.pc # "idle"
  BY Handshakes DEF Connecting
<1> QED
  BY <1>1, Handshakes, OnwardKeeps, OpenedKeeps, LateKeeps, RefusedKeeps

LEMMA ActivateKeeps ==
  ASSUME ProxyInv, Activate
  PROVE  ProxyInv'
<1> USE DEF ProxyInv
<1>1. /\ job.pc = "validating"
      /\ UNCHANGED <<phase, alarm, client, inbound, socket, said, events, work, undelivered>>
  BY DEF Activate
<1>2. CASE phase # "open"
  <2>1. phase = "closed"
    BY <1>1, <1>2 DEF InHand, TypeOK, LIVE_PHASES, Routing, Connecting
  <2>2. job' = Idle /\ UNCHANGED <<active, recorded, unsent, owed, tally, fault>>
    BY <1>2 DEF Activate, IsIn, Done
  <2> QED
    BY <1>1, <2>1, <2>2, OverKeeps DEF session, outbound
<1>3. CASE phase = "open" /\ socket = "open"
  <2>1. /\ active' = TRUE /\ recorded' = FALSE /\ verdict' = "none"
        /\ starts' = starts + 1 /\ unsent' = unsent - 1 /\ owed' = owed + 1
        /\ job' = Idle /\ UNCHANGED <<outcomes, blamed, fault>>
    BY <1>3 DEF Activate, IsIn, Done
  <2>2. unsent = 1 /\ owed \in Nat /\ starts \in Nat /\ outcomes \in Nat /\ outcomes <= starts
    BY <1>1, <1>3 DEF InHand, TypeOK, Outcomes
  <2>3. /\ unsent' = 0 /\ unsent' \in Nat /\ owed' \in Nat /\ owed' > 0 /\ starts' \in Nat
        /\ outcomes' <= starts' /\ outcomes' + 1 <= starts'
        /\ active' \in BOOLEAN /\ recorded' \in BOOLEAN
    <3>1. active' \in BOOLEAN /\ recorded' \in BOOLEAN
      BY <2>1
    <3>2. unsent' = 0 /\ unsent' \in Nat /\ owed' \in Nat /\ owed' > 0 /\ starts' \in Nat
      BY <2>1, <2>2
    <3>3. outcomes' = outcomes /\ outcomes <= starts /\ starts' = starts + 1
      BY <2>1, <2>2
    <3>4. outcomes' <= starts' /\ outcomes' + 1 <= starts'
      BY <2>2, <3>3
    <3> QED
      BY <3>1, <3>2, <3>4
  <2>4. TypeOK' /\ Counted'
    <3>1. job' \in Jobs
      BY <2>1, WebSocketAssumption DEF Idle, Jobs
    <3> QED
      BY <1>1, <2>1, <2>3, <3>1 DEF TypeOK, Counted, Jobs, inbound
  <2>5. InHand' /\ Sockets'
    BY <1>1, <1>3, <2>1, <2>3 DEF InHand, Sockets, Idle, Routing, Connecting
  <2>6. Upstream'
    BY <1>1, <1>3 DEF Upstream, InFlight, Queued
  <2>7. Outcomes' /\ Blame'
    BY <1>1, <1>3, <2>1, <2>3 DEF Outcomes, Blame
  <2> QED
    BY <2>4, <2>5, <2>6, <2>7
<1>4. CASE phase = "open" /\ socket # "open"
  <2>1. /\ active' = TRUE /\ FailOnce("open", FALSE) /\ fault' = TRUE
        /\ starts' = starts + 1 /\ UNCHANGED <<unsent, owed>>
        /\ job' = [job EXCEPT !.pc = "reporting"]
    BY <1>4 DEF Activate, IsIn, Continue
  <2>2. job' \in Jobs /\ job'.pc = "reporting"
    BY <2>1 DEF TypeOK, Jobs, Waits
  <2>3. /\ recorded' = TRUE /\ blamed' \in BOOLEAN /\ outcomes' \in Nat /\ outcomes' <= starts'
        /\ verdict' \in {"none", "failure", "success"} /\ starts' \in Nat
    <3>1. starts' \in Nat /\ outcomes + 1 <= starts'
      BY <2>1 DEF Outcomes, TypeOK
    <3> QED
      BY <2>1, <3>1, FailsOnce
  <2>4. TypeOK' /\ Counted'
    BY <1>1, <2>1, <2>2, <2>3 DEF TypeOK, Counted, Jobs, inbound
  <2>5. InHand' /\ Sockets'
    BY <1>1, <1>4, <2>1, <2>2 DEF InHand, Sockets, Routing, Connecting
  <2>6. Upstream'
    BY <1>1, <1>4, <2>1 DEF Upstream, InFlight, Queued
  <2>7. Outcomes' /\ Blame'
    BY <1>1, <1>4, <2>1, <2>3 DEF Outcomes, Blame
  <2> QED
    BY <2>4, <2>5, <2>6, <2>7
<1> QED
  BY <1>2, <1>3, <1>4
-----------------------------------------------------------------------------
(* What comes from the upstream. *)

\* An event more is in flight, or a loss that is none.
LEMMA Arrives ==
  ASSUME ProxyInv, NEW event \in Events, events' = Append(events, event), work' = work,
         socket # "lost",
         undelivered' = undelivered + (IF event = "lost" THEN 0 ELSE 1)
  PROVE  /\ events' \in Seq(Events) /\ events' # <<>> /\ undelivered' \in Nat
         /\ undelivered' >= InFlight'
         /\ phase # "closed" => undelivered' = InFlight'
         /\ \A i \in DOMAIN events' : events'[i] = "lost" => i = Len(events') /\ event = "lost"
         /\ \A i \in DOMAIN events' : \/ i \in DOMAIN events /\ events'[i] = events[i]
                                      \/ events'[i] = event
         /\ \A i \in DOMAIN events : i \in DOMAIN events' /\ events'[i] = events[i]
         /\ \E i \in DOMAIN events' : events'[i] = event
<1> USE DEF ProxyInv
<1>1. events \in Seq(Events) /\ undelivered \in Nat /\ Len(events) \in Nat
      /\ DOMAIN events = 1 .. Len(events)
  BY DEF TypeOK
<1>2. /\ events' \in Seq(Events) /\ Len(events') = Len(events) + 1
      /\ DOMAIN events' = 1 .. (Len(events) + 1)
      /\ events'[Len(events) + 1] = event
      /\ \A i \in DOMAIN events : events'[i] = events[i]
  BY <1>1, Appended
<1>3. \A i \in DOMAIN events : events[i] # "lost"
  BY DEF Upstream
<1>4. events' # <<>>
  BY <1>1, <1>2
<1>5. PICK w \in {0, 1}, e \in {0, 1}, f \in {0, 1} :
        /\ w = IF work \in Messages THEN 1 ELSE 0
        /\ e = IF events # <<>> /\ events[Len(events)] = "lost" THEN 1 ELSE 0
        /\ f = IF events' # <<>> /\ events'[Len(events')] = "lost" THEN 1 ELSE 0
  OBVIOUS
<1>6. InFlight = Len(events) + w
  <2>1. e = 0
    BY <1>1, <1>3, <1>5
  <2>2. InFlight = Len(events) - e + w
    BY <1>5 DEF InFlight, Queued
  <2> QED
    BY <1>1, <2>1, <2>2
<1>7. InFlight' = Len(events) + (IF event = "lost" THEN 0 ELSE 1) + w
  <2>1. f = IF event = "lost" THEN 1 ELSE 0
    BY <1>1, <1>2, <1>4, <1>5
  <2>2. InFlight' = Len(events') - f + w
    BY <1>5 DEF InFlight, Queued
  <2> QED
    BY <1>1, <1>2, <2>1, <2>2
<1>8. undelivered' >= InFlight' /\ (phase # "closed" => undelivered' = InFlight')
      /\ undelivered' \in Nat
  BY <1>1, <1>6, <1>7 DEF Upstream
<1>9. \A i \in DOMAIN events' : \/ i \in DOMAIN events /\ events'[i] = events[i]
                                \/ (i = Len(events') /\ events'[i] = event)
  BY <1>1, <1>2
<1>10. \A i \in DOMAIN events : i \in DOMAIN events'
  BY <1>1, <1>2
<1> QED
  BY <1>1, <1>2, <1>3, <1>4, <1>8, <1>9, <1>10

LEMMA MessageKeeps ==
  ASSUME ProxyInv, NEW event \in Messages, Message(event)
  PROVE  ProxyInv'
<1> USE DEF ProxyInv
<1>1. /\ socket \in {"open", "closing"} /\ said < MaxMessages /\ said' = said + 1
      /\ owed' = IF event \in Terminal /\ owed > 0 THEN owed - 1 ELSE owed
      /\ fault' = (fault \/ event \in ServiceScope)
      /\ events' = Append(events, event) /\ undelivered' = undelivered + 1
      /\ UNCHANGED <<session, alarm, client, inbound, job, socket, work, unsent, tally>>
  BY DEF Message
<1>2. event \in Events /\ event # "lost"
  BY DEF Events, Messages, Terminal, Completed, Failed, Errors
<1>3. /\ events' \in Seq(Events) /\ events' # <<>> /\ undelivered' \in Nat
      /\ undelivered' >= InFlight'
      /\ phase # "closed" => undelivered' = InFlight'
      /\ \A i \in DOMAIN events' : events'[i] # "lost"
      /\ \A i \in DOMAIN events' : \/ i \in DOMAIN events /\ events'[i] = events[i]
                                   \/ events'[i] = event
      /\ \A i \in DOMAIN events : i \in DOMAIN events' /\ events'[i] = events[i]
      /\ \E i \in DOMAIN events' : events'[i] = event
  BY <1>1, <1>2, Arrives
<1>4. owed' \in Nat /\ said' \in 0 .. MaxMessages /\ fault' \in BOOLEAN
  BY <1>1, WebSocketAssumption DEF TypeOK
<1>5. TypeOK' /\ Counted'
  BY <1>1, <1>3, <1>4 DEF TypeOK, Counted, session, inbound, tally
<1>6. InHand' /\ Sockets' /\ Outcomes'
  BY <1>1 DEF InHand, Sockets, Outcomes, session, tally
<1>7. phase # "connecting" /\ socket # "none" /\ socket # "lost" /\ work # "lost"
  BY <1>1 DEF Sockets, Upstream
<1>8. Upstream'
  BY <1>1, <1>3, <1>7 DEF Upstream, session
<1>9. Blame'
  <2>1. (blamed' => fault') /\ (\A i \in DOMAIN events' : events'[i] \in ServiceScope => fault')
    BY <1>1, <1>3 DEF Blame, tally
  <2>2. socket' = "lost" /\ owed' > 0 => fault'
    BY <1>1, <1>7
  <2>3. phase' = "open" /\ active' =>
          \/ owed' > 0 \/ fault' \/ work' \in Terminal
          \/ \E i \in DOMAIN events' : events'[i] \in Terminal
    <3>1. CASE event \in Terminal
      BY <1>3, <3>1
    <3>2. CASE event \notin Terminal
      BY <1>1, <1>3, <3>2 DEF Blame, session
    <3> QED
      BY <3>1, <3>2
  <2> QED
    BY <2>1, <2>2, <2>3 DEF Blame
<1> QED
  BY <1>5, <1>6, <1>8, <1>9

LEMMA LossKeeps ==
  ASSUME ProxyInv, Loss
  PROVE  ProxyInv'
<1> USE DEF ProxyInv
<1>1. /\ socket \in {"open", "closing"} /\ socket' = "lost"
      /\ fault' = (fault \/ owed > 0) /\ events' = Append(events, "lost")
      /\ UNCHANGED <<session, alarm, client, inbound, job, said, owed, work, unsent,
                     undelivered, tally>>
  BY DEF Loss
<1>2. "lost" \in Events /\ undelivered' = undelivered + 0
  BY <1>1 DEF Events, TypeOK
<1>3. /\ events' \in Seq(Events) /\ events' # <<>> /\ undelivered' \in Nat
      /\ undelivered' >= InFlight'
      /\ phase # "closed" => undelivered' = InFlight'
      /\ \A i \in DOMAIN events' : events'[i] = "lost" => i = Len(events')
      /\ \A i \in DOMAIN events' : \/ i \in DOMAIN events /\ events'[i] = events[i]
                                   \/ events'[i] = "lost"
      /\ \A i \in DOMAIN events : i \in DOMAIN events' /\ events'[i] = events[i]
  BY <1>1, <1>2, Arrives
<1>4. fault' \in BOOLEAN
  BY <1>1 DEF TypeOK
<1>5. TypeOK' /\ Counted'
  BY <1>1, <1>3, <1>4 DEF TypeOK, Counted, session, inbound, tally
<1>6. /\ phase \notin {"new", "awaiting_first_frame", "routing", "connecting"}
      /\ job.pc \notin Routing \cup Connecting /\ work # "lost"
  BY <1>1 DEF Sockets, Upstream
<1>7. InHand' /\ Sockets' /\ Outcomes'
  BY <1>1, <1>6 DEF InHand, Sockets, Outcomes, session, tally
<1>8. Upstream'
  BY <1>1, <1>3, <1>6 DEF Upstream, session
<1>9. Blame'
  <2>1. (blamed' => fault') /\ (socket' = "lost" /\ owed' > 0 => fault')
    BY <1>1 DEF Blame, tally
  <2>2. \A i \in DOMAIN events' : events'[i] \in ServiceScope => fault'
    BY <1>1, <1>3 DEF Blame, ServiceScope
  <2>3. phase' = "open" /\ active' =>
          \/ owed' > 0 \/ fault' \/ work' \in Terminal
          \/ \E i \in DOMAIN events' : events'[i] \in Terminal
    BY <1>1, <1>3 DEF Blame, session
  <2> QED
    BY <2>1, <2>2, <2>3 DEF Blame
<1> QED
  BY <1>5, <1>7, <1>8, <1>9

\* The first of the events is taken.
LEMMA Departs ==
  ASSUME ProxyInv, NEW event \in Events, TakeEvent(event)
  PROVE  /\ work = "none" /\ phase \in {"open", "closed"} /\ socket # "none"
         /\ events' \in Seq(Events) /\ Queued(events') \in Nat /\ undelivered \in Nat
         /\ event = "lost" => events' = <<>> /\ socket = "lost"
         /\ event # "lost" => /\ undelivered >= Queued(events') + 1
                              /\ phase # "closed" => undelivered = Queued(events') + 1
         /\ event = "lost" /\ phase # "closed" => undelivered = 0
         /\ \A i \in DOMAIN events' : events'[i] = "lost" => i = Len(events') /\ socket = "lost"
         /\ \A i \in DOMAIN events' : events'[i] \in ServiceScope => fault
         /\ event \in ServiceScope => fault
         /\ phase = "open" /\ active =>
              \/ owed > 0 \/ fault \/ event \in Terminal
              \/ \E i \in DOMAIN events' : events'[i] \in Terminal
<1> USE DEF ProxyInv
<1>1. /\ work = "none" /\ events \in Seq(Events) /\ events # <<>>
      /\ event = Head(events) /\ events' = Tail(events)
  BY DEF TakeEvent, TypeOK
<1>2. /\ event = events[1] /\ Len(events) \in Nat /\ Len(events) > 0
      /\ DOMAIN events = 1 .. Len(events)
      /\ events' \in Seq(Events) /\ Len(events') = Len(events) - 1
      /\ DOMAIN events' = 1 .. (Len(events) - 1)
      /\ \A i \in DOMAIN events' : events'[i] = events[i + 1] /\ i + 1 \in DOMAIN events
  BY <1>1, Shortened
<1>3. socket # "none" /\ phase \in {"open", "closed"}
  BY <1>1 DEF Upstream, Sockets, TypeOK, LIVE_PHASES
<1>4. \A i \in DOMAIN events : events[i] = "lost" => i = Len(events) /\ socket = "lost"
  BY DEF Upstream
<1>5. event = "lost" => Len(events) = 1 /\ events' = <<>> /\ socket = "lost"
  <2> SUFFICES ASSUME event = "lost" PROVE Len(events) = 1 /\ events' = <<>> /\ socket = "lost"
    OBVIOUS
  <2>1. Len(events) = 1 /\ socket = "lost"
    BY <1>2, <1>4
  <2> QED
    BY <1>2, <2>1
<1>6. \A i \in DOMAIN events' : events'[i] = "lost" => i = Len(events') /\ socket = "lost"
  BY <1>2, <1>4
<1>7. PICK e \in {0, 1}, f \in {0, 1} :
        /\ e = IF events # <<>> /\ events[Len(events)] = "lost" THEN 1 ELSE 0
        /\ f = IF events' # <<>> /\ events'[Len(events')] = "lost" THEN 1 ELSE 0
  OBVIOUS
<1>8. event # "lost" => e = f
  <2> SUFFICES ASSUME event # "lost" PROVE e = f
    OBVIOUS
  <2>1. CASE Len(events) = 1
    BY <1>2, <1>7, <2>1
  <2>2. CASE Len(events) # 1
    <3>1. Len(events') \in DOMAIN events' /\ Len(events') + 1 = Len(events) /\ events' # <<>>
      BY <1>2, <2>2
    <3>2. events'[Len(events')] = events[Len(events)]
      BY <1>2, <3>1
    <3> QED
      BY <1>1, <1>7, <3>1, <3>2
  <2> QED
    BY <2>1, <2>2
<1>9. event = "lost" => e = 1 /\ f = 0
  BY <1>1, <1>2, <1>5, <1>7
<1>10. Queued(events) = Len(events) - e /\ Queued(events') = Len(events') - f
  BY <1>7 DEF Queued
<1>11. undelivered \in Nat /\ undelivered >= Queued(events)
       /\ (phase # "closed" => undelivered = Queued(events))
  <2>1. InFlight = Queued(events)
    BY <1>1, <1>2, <1>10 DEF InFlight, Messages, Terminal, Completed, Failed, Errors
  <2> QED
    BY <2>1 DEF Upstream, TypeOK
<1>12. /\ Queued(events') \in Nat
       /\ event # "lost" => Queued(events) = Queued(events') + 1
       /\ event = "lost" => Queued(events) = 0
  <2>1. PICK n \in Nat : n = Len(events) /\ n > 0 /\ Len(events') = n - 1
    BY <1>2
  <2>2. Queued(events) = n - e /\ Queued(events') = (n - 1) - f
    BY <1>10, <2>1
  <2>3. f = 1 => n - 1 > 0
    BY <1>2, <1>7, <2>1
  <2>4. CASE event = "lost"
    BY <1>5, <1>9, <2>1, <2>2, <2>4
  <2>5. CASE event # "lost"
    <3>1. Queued(events) = Queued(events') + 1
      BY <1>8, <2>1, <2>2, <2>5
    <3>2. Queued(events') \in Nat
      BY <2>1, <2>2, <2>3
    <3> QED
      BY <2>5, <3>1, <3>2
  <2> QED
    BY <2>4, <2>5
<1>13. (\A i \in DOMAIN events' : events'[i] \in ServiceScope => fault)
       /\ (event \in ServiceScope => fault)
  BY <1>2 DEF Blame
<1>14. phase = "open" /\ active =>
         \/ owed > 0 \/ fault \/ event \in Terminal
         \/ \E i \in DOMAIN events' : events'[i] \in Terminal
  <2> SUFFICES ASSUME phase = "open", active, ~ (owed > 0), ~ fault, event \notin Terminal
               PROVE  \E i \in DOMAIN events' : events'[i] \in Terminal
    OBVIOUS
  <2>1. PICK i \in DOMAIN events : events[i] \in Terminal
    BY <1>1 DEF Blame, Terminal, Completed, Failed, Errors
  <2>2. i # 1 /\ i - 1 \in DOMAIN events' /\ (i - 1) + 1 = i
    BY <1>2, <2>1
  <2>3. events'[i - 1] = events[i]
    BY <1>2, <2>2
  <2> QED
    BY <2>1, <2>2, <2>3
<1> QED
  BY <1>1, <1>2, <1>3, <1>5, <1>6, <1>11, <1>12, <1>13, <1>14

\* What is kept when an event has been handled, or waits for a health update.
LEMMA EventKeeps ==
  ASSUME ProxyInv,
         UNCHANGED <<sent, pending, queue, job, said, owed, unsent, fault, starts>>,
         phase \in {"open", "closed"}, phase' \in {phase, "closed"},
         socket # "none",
         socket' = IF phase' = "closed" /\ socket = "open" THEN "closing" ELSE socket,
         alarm' \in {"unset", "set", "early", "due"},
         client' \in {"none", "open", "gone", "closed"},
         waiting' \in BOOLEAN, active' \in BOOLEAN, recorded' \in BOOLEAN, blamed' \in BOOLEAN,
         events' \in Seq(Events),
         \A i \in DOMAIN events' : events'[i] = "lost" => i = Len(events') /\ socket = "lost",
         \A i \in DOMAIN events' : events'[i] \in ServiceScope => fault,
         work' \in KeyScope \cup ServiceScope \cup {"lost", "none"},
         work' = "lost" => events' = <<>> /\ socket = "lost",
         undelivered' \in Nat, undelivered' >= InFlight',
         phase' # "closed" => undelivered' = InFlight',
         outcomes' \in Nat, outcomes' <= starts',
         verdict' \in {"none", "failure", "success"},
         phase' = "open" => (recorded' = TRUE \/ outcomes' + 1 <= starts'),
         blamed' => fault,
         phase' = "open" /\ active' =>
           \/ owed > 0 \/ fault \/ work' \in Terminal
           \/ \E i \in DOMAIN events' : events'[i] \in Terminal
  PROVE  ProxyInv'
<1> USE DEF ProxyInv
<1>1. socket' \in {"open", "closing", "lost"} /\ (socket' = "lost" <=> socket = "lost")
      /\ (phase' = "closed" => socket' # "open")
  BY DEF TypeOK
<1>2. TypeOK' /\ Counted'
  BY <1>1 DEF TypeOK, Counted, LIVE_PHASES
<1>3. InHand'
  BY DEF InHand
<1>4. Sockets'
  BY <1>1 DEF Sockets
<1>5. Upstream'
  BY <1>1 DEF Upstream
<1>6. Outcomes' /\ Blame'
  BY <1>1 DEF Outcomes, Blame
<1> QED
  BY <1>2, <1>3, <1>4, <1>5, <1>6

\* processUpstreamMessage() once the health of its status is recorded: event is
\* still counted as undelivered, and events' are those behind it.
LEMMA DeliverKeeps ==
  ASSUME ProxyInv, NEW event \in Messages, Deliver(event),
         UNCHANGED <<sent, pending, queue, job, said, owed, unsent, fault>>,
         phase \in {"open", "closed"}, event \in Completed => phase = "open",
         socket # "none", work' = "none",
         events' \in Seq(Events), Queued(events') \in Nat,
         \A i \in DOMAIN events' : events'[i] = "lost" => i = Len(events') /\ socket = "lost",
         \A i \in DOMAIN events' : events'[i] \in ServiceScope => fault,
         undelivered >= Queued(events') + 1,
         phase # "closed" => undelivered = Queued(events') + 1,
         phase = "open" /\ active =>
           \/ owed > 0 \/ fault \/ event \in Terminal
           \/ \E i \in DOMAIN events' : events'[i] \in Terminal
  PROVE  ProxyInv'
<1> USE DEF ProxyInv
<1>1. InFlight' = Queued(events')
  BY DEF InFlight, Messages, Terminal, Completed, Failed, Errors
<1>2. phase # "new"
  OBVIOUS
<1>3. CASE client # "open"
  <2>1. CloseAll(LIVE_PHASES) /\ UNCHANGED <<active, recorded, waiting, undelivered, tally>>
    BY <1>3 DEF Deliver
  <2>2. /\ phase' = "closed" /\ alarm' \in {"unset", "set", "early", "due"}
        /\ client' \in {client, "closed"}
        /\ socket' = IF socket = "open" THEN "closing" ELSE socket
    BY <1>2, <2>1, Closed
  <2>3. undelivered' >= InFlight' /\ undelivered' \in Nat
    BY <1>1, <2>1 DEF TypeOK
  <2>4. /\ waiting' \in BOOLEAN /\ active' \in BOOLEAN /\ recorded' \in BOOLEAN
        /\ blamed' \in BOOLEAN /\ outcomes' \in Nat /\ outcomes' <= starts' /\ starts' = starts
        /\ verdict' \in {"none", "failure", "success"} /\ (blamed' => fault)
        /\ client' \in {"none", "open", "gone", "closed"}
    BY <2>1, <2>2 DEF TypeOK, Outcomes, Blame, tally
  <2> QED
    BY <2>2, <2>3, <2>4, EventKeeps
<1>4. CASE client = "open"
  <2>1. /\ undelivered' = undelivered - 1
        /\ waiting' = (waiting /\ event \notin Terminal)
        /\ active' = (active /\ event \notin Terminal)
        /\ recorded' = (recorded \/ event \in Completed)
        /\ \/ event \in Completed /\ ~recorded /\ outcomes' = outcomes + 1 /\ verdict' = "success"
           \/ ~ (event \in Completed /\ ~recorded) /\ UNCHANGED <<outcomes, verdict>>
        /\ IF event \in Errors THEN CloseAll(LIVE_PHASES)
           ELSE UNCHANGED <<phase, alarm, client, socket>>
        /\ UNCHANGED <<starts, blamed>>
    BY <1>4 DEF Deliver
  <2>2. /\ undelivered' \in Nat /\ undelivered' >= InFlight'
        /\ phase # "closed" => undelivered' = InFlight'
    <3>1. PICK q \in Nat, u \in Nat : q = Queued(events') /\ u = undelivered
      BY DEF TypeOK
    <3>2. u >= q + 1 /\ (phase # "closed" => u = q + 1) /\ undelivered' = u - 1
      BY <2>1, <3>1
    <3>3. u - 1 \in Nat /\ u - 1 >= q /\ (phase # "closed" => u - 1 = q)
      BY <3>2
    <3> QED
      BY <1>1, <3>1, <3>2, <3>3
  <2>3. waiting' \in BOOLEAN /\ active' \in BOOLEAN /\ recorded' \in BOOLEAN
    BY <2>1 DEF TypeOK
  <2>4. /\ phase' \in {phase, "closed"} /\ (event \in Errors => phase' = "closed")
        /\ socket' = IF phase' = "closed" /\ socket = "open" THEN "closing" ELSE socket
        /\ alarm' \in {"unset", "set", "early", "due"}
        /\ client' \in {"none", "open", "gone", "closed"}
    <3>1. CASE event \in Errors
      BY <1>2, <2>1, <3>1, Closed DEF TypeOK
    <3>2. CASE event \notin Errors
      BY <2>1, <3>2 DEF TypeOK, Sockets
    <3> QED
      BY <3>1, <3>2
  <2>5. /\ outcomes' \in Nat /\ outcomes' <= starts'
        /\ phase' = "open" => (recorded' = TRUE \/ outcomes' + 1 <= starts')
    <3>1. outcomes \in Nat /\ starts \in Nat /\ outcomes <= starts /\ recorded \in BOOLEAN
          /\ starts' = starts
      BY <2>1 DEF TypeOK, Outcomes
    <3>2. phase = "open" => recorded = TRUE \/ outcomes + 1 <= starts
      BY <3>1 DEF Outcomes
    <3>3. CASE event \in Completed /\ ~recorded
      <4>1. outcomes' = outcomes + 1 /\ recorded' = TRUE /\ phase = "open"
        BY <2>1, <3>3
      <4> QED
        BY <3>1, <3>2, <3>3, <4>1
    <3>4. CASE ~ (event \in Completed /\ ~recorded)
      <4>1. outcomes' = outcomes /\ recorded' = recorded
        BY <2>1, <3>1, <3>4
      <4> QED
        BY <2>4, <3>1, <3>2, <4>1
    <3> QED
      BY <3>3, <3>4
  <2>6. /\ verdict' \in {"none", "failure", "success"}
        /\ blamed' \in BOOLEAN /\ (blamed' => fault)
    BY <2>1 DEF TypeOK, Blame
  <2>7. phase' = "open" /\ active' =>
          \/ owed > 0 \/ fault \/ work' \in Terminal
          \/ \E i \in DOMAIN events' : events'[i] \in Terminal
    BY <2>1, <2>4
  <2> QED
    BY <2>1, <2>2, <2>3, <2>4, <2>5, <2>6, <2>7, EventKeeps
<1> QED
  BY <1>3, <1>4

LEMMA DropMessageKeeps ==
  ASSUME ProxyInv, EventStep, \E event \in Events : DropMessage(event) \/ DeliverAtOnce(event)
  PROVE  ProxyInv'
<1> USE DEF ProxyInv
<1>1. UNCHANGED <<sent, pending, queue, job, said, owed, unsent, fault>>
  BY DEF EventStep
<1>2. PICK event \in Events : DropMessage(event) \/ DeliverAtOnce(event)
  OBVIOUS
<1>3. TakeEvent(event) /\ event # "lost" /\ event \in Messages
  BY <1>2 DEF DropMessage, DeliverAtOnce, Events, Messages, Terminal, Completed, Failed, Errors
<1>4. CASE DropMessage(event)
  <2>1. /\ phase # "open"
        /\ UNCHANGED <<session, alarm, client, waiting, socket, work, undelivered, tally>>
    BY <1>4 DEF DropMessage
  <2>2. phase = "closed" /\ work = "none" /\ socket # "none" /\ socket # "open"
    BY <1>3, <2>1, Departs DEF Sockets
  <2>3. InFlight' = Queued(events')
    BY <1>3, <2>1, <2>2, Departs DEF InFlight, Messages, Terminal, Completed, Failed, Errors
  <2>4. undelivered' \in Nat /\ undelivered' >= InFlight'
    BY <1>3, <2>1, <2>3, Departs
  <2>5. /\ waiting' \in BOOLEAN /\ active' \in BOOLEAN /\ recorded' \in BOOLEAN
        /\ blamed' \in BOOLEAN /\ outcomes' \in Nat /\ outcomes' <= starts' /\ starts' = starts
        /\ verdict' \in {"none", "failure", "success"} /\ (blamed' => fault)
        /\ phase' = "closed" /\ socket' = socket /\ work' = "none"
        /\ alarm' \in {"unset", "set", "early", "due"}
        /\ client' \in {"none", "open", "gone", "closed"}
    BY <2>1, <2>2 DEF TypeOK, Outcomes, Blame, tally, session
  <2> QED
    BY <1>1, <1>3, <2>2, <2>4, <2>5, Departs, EventKeeps
<1>5. CASE DeliverAtOnce(event)
  <2>1. phase = "open" /\ Deliver(event) /\ work' = work
    BY <1>5 DEF DeliverAtOnce
  <2> QED
    BY <1>1, <1>3, <2>1, Departs, DeliverKeeps
<1> QED
  BY <1>2, <1>4, <1>5

LEMMA RecordStatusKeeps ==
  ASSUME ProxyInv, EventStep, NEW event \in Events, RecordStatus(event)
  PROVE  ProxyInv'
<1> USE DEF ProxyInv
<1>1. UNCHANGED <<sent, pending, queue, job, said, owed, unsent, fault>>
  BY DEF EventStep
<1>2. /\ TakeEvent(event) /\ phase = "open" /\ work' = event
      /\ event \in KeyScope \cup ServiceScope
      /\ UNCHANGED <<phase, active, alarm, client, waiting, socket, undelivered, starts>>
  BY DEF RecordStatus
<1>3. event \in Messages /\ event \in Terminal /\ event # "lost"
  BY <1>2 DEF KeyScope, ServiceScope, Messages, Terminal, Completed, Failed, Errors
<1>4. undelivered' \in Nat /\ undelivered' >= InFlight' /\ undelivered' = InFlight'
  <2>1. PICK q \in Nat : q = Queued(events') /\ undelivered = q + 1
    BY <1>2, <1>3, Departs
  <2>2. InFlight' = q + 1
    BY <1>2, <1>3, <2>1 DEF InFlight
  <2> QED
    BY <1>2, <2>1, <2>2
<1>5. /\ recorded' \in BOOLEAN /\ blamed' \in BOOLEAN /\ (blamed' => fault)
      /\ outcomes' \in Nat /\ outcomes' <= starts'
      /\ verdict' \in {"none", "failure", "success"}
      /\ recorded' = TRUE \/ outcomes' + 1 <= starts'
  <2>0. outcomes + (IF recorded THEN 0 ELSE 1) <= starts /\ starts \in Nat /\ recorded \in BOOLEAN
        /\ outcomes \in Nat /\ outcomes <= starts
    BY <1>2 DEF Outcomes, TypeOK
  <2>1. CASE event \in ServiceScope
    <3>1. FailOnce(phase, recorded)
      BY <2>1 DEF RecordStatus
    <3>2. /\ recorded' = TRUE /\ blamed' \in BOOLEAN
          /\ outcomes' \in Nat /\ outcomes' <= starts'
          /\ verdict' \in {"none", "failure", "success"}
      BY <1>2, <2>0, <3>1, FailsOnce
    <3>3. fault
      BY <1>2, <2>1, Departs
    <3> QED
      BY <3>2, <3>3
  <2>2. CASE event \notin ServiceScope
    <3>1. UNCHANGED <<recorded, outcomes, verdict, blamed>>
      BY <2>2 DEF RecordStatus
    <3>2. recorded = TRUE \/ outcomes + 1 <= starts
      BY <2>0
    <3> QED
      BY <1>2, <2>0, <3>1, <3>2 DEF TypeOK, Blame
  <2> QED
    BY <2>1, <2>2
<1>6. /\ waiting' \in BOOLEAN /\ active' \in BOOLEAN
      /\ alarm' \in {"unset", "set", "early", "due"}
      /\ client' \in {"none", "open", "gone", "closed"}
      /\ work' \in KeyScope \cup ServiceScope \cup {"lost", "none"}
  BY <1>2 DEF TypeOK
<1> QED
  BY <1>1, <1>2, <1>3, <1>4, <1>5, <1>6, Departs, EventKeeps

LEMMA LostKeeps ==
  ASSUME ProxyInv, EventStep, NEW event \in Events, Lost(event)
  PROVE  ProxyInv'
<1> USE DEF ProxyInv
<1>1. UNCHANGED <<sent, pending, queue, job, said, owed, unsent, fault>>
  BY DEF EventStep
<1>2. /\ TakeEvent(event) /\ event = "lost"
      /\ UNCHANGED <<active, waiting, undelivered, starts>>
  BY DEF Lost
<1>3. /\ work = "none" /\ phase \in {"open", "closed"} /\ socket = "lost" /\ events' = <<>>
      /\ undelivered \in Nat /\ (phase # "closed" => undelivered = 0)
      /\ phase = "open" /\ active => owed > 0 \/ fault
  BY <1>2, Departs DEF Terminal, Completed, Failed, Errors
<1>4. /\ events' \in Seq(Events) /\ DOMAIN events' = {} /\ Queued(events') = 0
  BY <1>3 DEF Queued
<1>5. waiting' \in BOOLEAN /\ active' \in BOOLEAN
  BY <1>2 DEF TypeOK
<1>6. CASE LossCounts
  <2>1. FailOnce(phase, recorded) /\ work' = "lost" /\ UNCHANGED <<phase, alarm, client, socket>>
    BY <1>2, <1>6 DEF Lost
  <2>2. phase = "open" /\ active /\ ~recorded
    BY <1>3, <1>6 DEF LossCounts
  <2>3. fault
    BY <1>3, <2>2 DEF Blame
  <2>4. InFlight' = 0
    BY <1>4, <2>1 DEF InFlight, Messages, Terminal, Completed, Failed, Errors
  <2>5. /\ recorded' = TRUE /\ blamed' \in BOOLEAN
        /\ outcomes' \in Nat /\ outcomes' <= starts'
        /\ verdict' \in {"none", "failure", "success"}
    <3>1. outcomes + (IF recorded THEN 0 ELSE 1) <= starts' /\ starts' \in Nat /\ recorded \in BOOLEAN
      BY <1>2, <2>2 DEF Outcomes, TypeOK
    <3> QED
      BY <2>1, <2>2, <3>1, FailsOnce
  <2>6. /\ alarm' \in {"unset", "set", "early", "due"}
        /\ client' \in {"none", "open", "gone", "closed"}
    BY <2>1 DEF TypeOK
  <2> QED
    BY <1>1, <1>2, <1>3, <1>4, <1>5, <2>1, <2>2, <2>3, <2>4, <2>5, <2>6, EventKeeps
<1>7. CASE ~ LossCounts
  <2>1. CloseAll(LIVE_PHASES) /\ UNCHANGED <<recorded, work, outcomes, verdict, blamed>>
    BY <1>2, <1>7 DEF Lost
  <2>2. /\ phase' = "closed" /\ alarm' \in {"unset", "set", "early", "due"}
        /\ client' \in {client, "closed"}
        /\ socket' = IF socket = "open" THEN "closing" ELSE socket
    BY <1>3, <2>1, Closed
  <2>3. InFlight' = 0
    BY <1>3, <1>4, <2>1 DEF InFlight, Messages, Terminal, Completed, Failed, Errors
  <2>4. /\ recorded' \in BOOLEAN /\ blamed' \in BOOLEAN /\ outcomes' \in Nat
        /\ outcomes' <= starts' /\ verdict' \in {"none", "failure", "success"}
        /\ (blamed' => fault) /\ client' \in {"none", "open", "gone", "closed"}
    BY <1>2, <2>1, <2>2 DEF TypeOK, Outcomes, Blame
  <2> QED
    BY <1>1, <1>2, <1>3, <1>4, <1>5, <2>1, <2>2, <2>3, <2>4, EventKeeps
<1> QED
  BY <1>6, <1>7

LEMMA RecordedKeeps ==
  ASSUME ProxyInv, EventStep, Recorded
  PROVE  ProxyInv'
<1> USE DEF ProxyInv
<1>1. UNCHANGED <<sent, pending, queue, job, said, owed, unsent, fault>>
  BY DEF EventStep
<1>2. work # "none" /\ work' = "none" /\ events' = events
  BY DEF Recorded
<1>3. /\ socket # "none" /\ phase \in {"open", "closed"} /\ undelivered \in Nat
      /\ events \in Seq(Events)
      /\ \A i \in DOMAIN events' : events'[i] = "lost" => i = Len(events') /\ socket = "lost"
      /\ \A i \in DOMAIN events' : events'[i] \in ServiceScope => fault
  BY <1>1, <1>2 DEF Upstream, Sockets, TypeOK, LIVE_PHASES, Blame
<1>4. Queued(events) \in Nat /\ events' \in Seq(Events) /\ Queued(events') = Queued(events)
  <2>1. Len(events) \in Nat /\ (events # <<>> => Len(events) > 0)
    BY <1>3
  <2>2. PICK e \in {0, 1} : e = IF events # <<>> /\ events[Len(events)] = "lost" THEN 1 ELSE 0
    OBVIOUS
  <2>3. Queued(events) = Len(events) - e
    BY <2>2 DEF Queued
  <2>4. Queued(events) \in Nat
    BY <2>1, <2>2, <2>3
  <2> QED
    BY <1>2, <1>3, <2>4 DEF Queued
<1>5. CASE work = "lost"
  <2>1. CloseAll(LIVE_PHASES) /\ UNCHANGED <<active, recorded, waiting, undelivered, tally>>
    BY <1>5 DEF Recorded
  <2>2. /\ phase' = "closed" /\ alarm' \in {"unset", "set", "early", "due"}
        /\ client' \in {client, "closed"}
        /\ socket' = IF socket = "open" THEN "closing" ELSE socket
    BY <1>3, <2>1, Closed
  <2>3. undelivered' \in Nat /\ undelivered' >= InFlight'
    <3>1. InFlight' = Queued(events) /\ InFlight = Queued(events)
      BY <1>2, <1>4, <1>5 DEF InFlight, Messages, Terminal, Completed, Failed, Errors
    <3>2. undelivered >= InFlight /\ undelivered' = undelivered
      BY <2>1 DEF Upstream
    <3> QED
      BY <1>3, <3>1, <3>2
  <2>4. /\ waiting' \in BOOLEAN /\ active' \in BOOLEAN /\ recorded' \in BOOLEAN
        /\ blamed' \in BOOLEAN /\ outcomes' \in Nat /\ outcomes' <= starts' /\ starts' = starts
        /\ verdict' \in {"none", "failure", "success"} /\ (blamed' => fault)
        /\ client' \in {"none", "open", "gone", "closed"}
    BY <2>1, <2>2 DEF TypeOK, Outcomes, Blame, tally
  <2> QED
    BY <1>1, <1>2, <1>3, <1>4, <2>2, <2>3, <2>4, EventKeeps
<1>6. CASE work # "lost"
  <2>1. Deliver(work)
    BY <1>6 DEF Recorded
  <2>2. PICK event : event = work
    OBVIOUS
  <2>3. event \in KeyScope \cup ServiceScope
    BY <1>2, <1>6, <2>2 DEF TypeOK
  <2>4. event \in Messages /\ event \notin Completed /\ event \in Terminal
    BY <2>3 DEF KeyScope, ServiceScope, Messages, Terminal, Completed, Failed, Errors
  <2>5. /\ undelivered >= Queued(events') + 1
        /\ phase # "closed" => undelivered = Queued(events') + 1
    <3>1. InFlight = Queued(events) + 1
      BY <2>2, <2>4 DEF InFlight
    <3> QED
      BY <1>4, <3>1 DEF Upstream
  <2>6. Deliver(event)
    BY <2>1, <2>2
  <2> QED
    BY <1>1, <1>2, <1>3, <1>4, <2>4, <2>5, <2>6, DeliverKeeps
<1> QED
  BY <1>5, <1>6
-----------------------------------------------------------------------------
LEMMA ProxyStep == ProxyInv /\ [Next]_vars => ProxyInv'
<1> SUFFICES ASSUME ProxyInv, [Next]_vars PROVE ProxyInv'
  OBVIOUS
<1>1. CASE UNCHANGED vars
  BY <1>1 DEF vars, session, inbound, outbound, tally, ProxyInv, TypeOK, Counted, InHand,
     Sockets, Upstream, InFlight, Outcomes, Blame
<1>2. CASE Fetch \/ Alarm \/ Leave \/ ClientClosed \/ \E how \in {"early", "due"} : Due(how)
  BY <1>2, FetchKeeps, AlarmKeeps
<1>3. CASE \E frame \in Frames : Send(frame)
  BY <1>3, SendKeeps
<1>4. CASE TakeFrame
  BY <1>4, DropFrameKeeps, ClaimKeeps, RelayKeeps DEF TakeFrame
<1>5. CASE JobStep \/ ReadRefusal
  BY <1>5, ConfigureKeeps, SelectKeeps, HandshakeKeeps, ActivateKeeps DEF JobStep
<1>6. CASE Loss \/ \E event \in Messages : Message(event)
  BY <1>6, MessageKeeps, LossKeeps
<1>7. CASE EventStep
  <2>1. \/ \E event \in Events : DropMessage(event) \/ DeliverAtOnce(event)
        \/ \E event \in Events : RecordStatus(event)
        \/ \E event \in Events : Lost(event)
        \/ Recorded
    BY <1>7 DEF EventStep
  <2> QED
    BY <1>7, <2>1, DropMessageKeeps, RecordStatusKeeps, LostKeeps, RecordedKeeps
<1> QED
  BY <1>1, <1>2, <1>3, <1>4, <1>5, <1>6, <1>7 DEF Next

\* The invariant behind the safety of the proxy: phase and job go together, what
\* was said is delivered or waits, and what is still owed is known.
THEOREM ProxyCorrect == Spec => []ProxyInv
BY Initially, ProxyStep, PTL DEF Spec

\* Every reachable state has its types, and the frames that wait are counted
\* (enqueueClientMessage).
THEOREM TypeCorrect == Spec => []TypeOK
<1>1. ProxyInv => TypeOK
  BY DEF ProxyInv
<1> QED
  BY <1>1, ProxyCorrect, PTL

\* A session that waits for its first frame has its alarm, and an open one its
\* upstream, or the loss of it still to be handled.
Awaited ==
  /\ phase = "awaiting_first_frame" => alarm # "unset"
  /\ phase = "open" =>
       socket = "open" \/ work = "lost" \/ \E i \in DOMAIN events : events[i] = "lost"

LEMMA AwaitedStays ==
  ASSUME Awaited, UNCHANGED <<socket, events, work>>,
         phase' = "open" => phase = "open",
         phase' = "awaiting_first_frame" => phase = phase' /\ alarm' # "unset"
  PROVE  Awaited'
BY DEF Awaited

LEMMA ClosingAwaits ==
  ASSUME CloseAll(LIVE_PHASES)
  PROVE  Awaited'
BY DEF CloseAll, LIVE_PHASES, Awaited

\* Events that are not the loss do not hide it.
LEMMA LossRemains ==
  ASSUME ProxyInv, Awaited, NEW event \in Events,
         \/ events' = Append(events, event)
         \/ event # "lost" /\ events # <<>> /\ event = Head(events) /\ events' = Tail(events)
  PROVE  (\E i \in DOMAIN events : events[i] = "lost")
           => \E i \in DOMAIN events' : events'[i] = "lost"
<1> SUFFICES ASSUME NEW i \in DOMAIN events, events[i] = "lost"
             PROVE  \E j \in DOMAIN events' : events'[j] = "lost"
  OBVIOUS
<1>1. events \in Seq(Events)
  BY DEF ProxyInv, TypeOK
<1>2. CASE events' = Append(events, event)
  BY <1>1, <1>2, Appended
<1>3. CASE event # "lost" /\ events # <<>> /\ event = Head(events) /\ events' = Tail(events)
  <2> DEFINE tail == Tail(events)
  <2>1. /\ event = events[1] /\ Len(events) \in Nat /\ DOMAIN events = 1 .. Len(events)
        /\ DOMAIN tail = 1 .. (Len(events) - 1)
        /\ \A n \in 1 .. (Len(events) - 1) : tail[n] = events[n + 1]
    BY <1>1, <1>3, Shortened
  <2>2. i - 1 \in 1 .. (Len(events) - 1) /\ (i - 1) + 1 = i
    <3>1. i # 1
      BY <1>3, <2>1
    <3>2. i \in 1 .. Len(events)
      BY <2>1
    <3> HIDE DEF tail
    <3> QED
      BY <2>1, <3>1, <3>2
  <2>3. i - 1 \in DOMAIN tail /\ tail[i - 1] = "lost"
    BY <2>1, <2>2
  <2> HIDE DEF tail
  <2> QED
    BY <2>3, <1>3 DEF tail
<1> QED
  BY <1>2, <1>3

LEMMA EventAwaits ==
  ASSUME ProxyInv, Awaited, EventStep
  PROVE  Awaited'
<1>1. ASSUME NEW event, Deliver(event), phase # "open" \/ socket = "open" \/
             (\E i \in DOMAIN events' : events'[i] = "lost")
      PROVE  Awaited'
  <2>1. CASE CloseAll(LIVE_PHASES)
    BY <2>1, ClosingAwaits
  <2>2. CASE UNCHANGED <<phase, alarm, client, socket>>
    BY <1>1, <2>2 DEF Awaited
  <2> QED
    BY <1>1, <2>1, <2>2 DEF Deliver
<1>2. ASSUME NEW event \in Events, DropMessage(event) PROVE Awaited'
  BY <1>2 DEF DropMessage, session, Awaited
<1>3. ASSUME NEW event \in Events, DeliverAtOnce(event) PROVE Awaited'
  <2>1. /\ events # <<>> /\ event = Head(events) /\ events' = Tail(events) /\ work = "none"
        /\ event # "lost" /\ Deliver(event)
    BY <1>3 DEF DeliverAtOnce, TakeEvent, Messages, Terminal, Completed, Failed, Errors
  <2> QED
    BY <1>1, <2>1, LossRemains DEF Awaited
<1>4. ASSUME NEW event \in Events, RecordStatus(event) PROVE Awaited'
  <2>1. /\ events # <<>> /\ event = Head(events) /\ events' = Tail(events) /\ work = "none"
        /\ event # "lost" /\ UNCHANGED <<phase, alarm, socket>>
    BY <1>4 DEF RecordStatus, TakeEvent, KeyScope, ServiceScope
  <2> QED
    BY <2>1, LossRemains DEF Awaited
<1>5. ASSUME NEW event \in Events, Lost(event) PROVE Awaited'
  <2>1. CASE LossCounts
    BY <1>5, <2>1 DEF Lost, Awaited
  <2>2. CASE ~LossCounts
    BY <1>5, <2>2, ClosingAwaits DEF Lost
  <2> QED
    BY <2>1, <2>2
<1>6. CASE Recorded
  <2>1. CASE work = "lost"
    BY <1>6, <2>1, ClosingAwaits DEF Recorded
  <2>2. CASE work # "lost"
    <3>1. Deliver(work) /\ events' = events
      BY <1>6, <2>2 DEF Recorded
    <3> QED
      BY <1>1, <2>2, <3>1 DEF Awaited
  <2> QED
    BY <2>1, <2>2
<1> QED
  BY <1>2, <1>3, <1>4, <1>5, <1>6 DEF EventStep

LEMMA NextAwaits == ProxyInv /\ Awaited /\ [Next]_vars => Awaited'
<1> SUFFICES ASSUME ProxyInv, Awaited, [Next]_vars PROVE Awaited'
  OBVIOUS
<1>1. CASE Fetch \/ Alarm \/ Leave \/ \E how \in {"early", "due"} : Due(how)
  BY <1>1 DEF Fetch, Alarm, Leave, Due, session, outbound, Awaited
<1>2. CASE \/ ClientClosed \/ RefuseFrame \/ Misconfigured \/ Unavailable
           \/ Report \/ ReadRefusal
  BY <1>2, ClosingAwaits DEF ClientClosed, RefuseFrame, Misconfigured, Unavailable, Report,
     ReadRefusal
<1>3. ASSUME NEW frame \in Frames, Send(frame) PROVE Awaited'
  <2>1. UNCHANGED <<phase, alarm, client, socket, events, work>> \/ CloseAll(LIVE_PHASES)
    BY <1>3 DEF Send, outbound
  <2> QED
    BY <2>1, ClosingAwaits DEF Awaited
<1>4. CASE DropFrame \/ Ask \/ Relay \/ Configure \/ Refresh \/ Activate
  <2>1. UNCHANGED <<phase, alarm, socket, events, work>>
    BY <1>4 DEF DropFrame, Ask, Relay, Configure, Refresh, Configured, Activate, session, outbound
  <2> QED
    BY <2>1 DEF Awaited
<1>5. CASE Claim \/ Select
  BY <1>5, AwaitedStays DEF Claim, Select, outbound, Awaited
<1>6. CASE Cooled \/ Retry \/ \E result \in Results : Attempt(result)
  <2>1. /\ job.pc \in Connecting /\ UNCHANGED <<alarm, work>>
        /\ \/ Onward \/ Opened
           \/ \E result \in Results : Late(result) \/ Refused(result)
    BY <1>6, Handshakes
  <2>2. CASE Onward
    BY <2>2 DEF Onward, session, outbound, Awaited
  <2>3. CASE Opened
    <3>1. CASE socket' = "open"
      BY <2>3, <3>1 DEF Opened, Awaited
    <3>2. CASE events' = Append(events, "lost")
      <4>1. events \in Seq(Events) /\ "lost" \in Events
        BY DEF ProxyInv, TypeOK, Events
      <4>2. \E i \in DOMAIN events' : events'[i] = "lost"
        BY <3>2, <4>1, Appended
      <4> QED
        BY <2>3, <4>2 DEF Opened, Awaited
    <3> QED
      BY <2>3, <3>1, <3>2 DEF Opened
  <2>4. ASSUME NEW result \in Results, Late(result) PROVE Awaited'
    <3>1. phase = "closed" /\ phase' = phase
      BY <2>1, <2>4
         DEF Late, IsIn, session, ProxyInv, InHand, TypeOK, LIVE_PHASES, Routing, Connecting, Asking
    <3> QED
      BY <3>1 DEF Awaited
  <2>5. ASSUME NEW result \in Results, Refused(result) PROVE Awaited'
    BY <2>5 DEF Refused, IsIn, Awaited
  <2> QED
    BY <2>1, <2>2, <2>3, <2>4, <2>5
<1>7. CASE Loss \/ \E event \in Messages : Message(event)
  <2>1. PICK event \in Events :
          /\ events' = Append(events, event) /\ UNCHANGED <<phase, alarm, work>>
          /\ event = "lost" \/ socket' = socket
    BY <1>7 DEF Loss, Message, session, Events
  <2>2. events \in Seq(Events)
    BY DEF ProxyInv, TypeOK
  <2>3. CASE event = "lost"
    <3>1. \E i \in DOMAIN events' : events'[i] = "lost"
      BY <2>1, <2>2, <2>3, Appended
    <3> QED
      BY <2>1, <3>1 DEF Awaited
  <2>4. CASE socket' = socket
    BY <2>1, <2>4, LossRemains DEF Awaited
  <2> QED
    BY <2>1, <2>3, <2>4
<1>8. CASE EventStep
  BY <1>8, EventAwaits
<1>9. CASE UNCHANGED vars
  BY <1>9 DEF vars, session, outbound, Awaited
<1> QED
  BY <1>1, <1>2, <1>3, <1>4, <1>5, <1>6, <1>7, <1>8, <1>9 DEF Next, TakeFrame, JobStep

\* Every live session has what will take it further: the alarm of its first frame,
\* a job at an await of its phase, its upstream, or the loss of that still to be
\* handled (fetch, alarm, processFirstFrame, connectUpstream, handleUpstreamClose).
THEOREM NeverStuck == Spec => []InGoodHands
<1>1. ProxyInv /\ Awaited => InGoodHands
  BY DEF ProxyInv, InHand, Awaited, InGoodHands, Routing, Connecting
<1>2. Init => Awaited
  BY DEF Init, Awaited
<1> QED
  BY <1>1, <1>2, NextAwaits, ProxyCorrect, PTL DEF Spec

\* A closed session leaves no upstream socket open (closeAll, connectUpstream).
THEOREM NoneLeftOpen == Spec => []NoOrphan
<1>1. ProxyInv => NoOrphan
  BY DEF ProxyInv, Sockets, NoOrphan
<1> QED
  BY <1>1, ProxyCorrect, PTL

\* What an open session has taken it has sent (processOpenMessage).
THEOREM FramesPass == Spec => []NoFrameLost
<1>1. ProxyInv => NoFrameLost
  BY DEF ProxyInv, InHand, NoFrameLost
<1> QED
  BY <1>1, ProxyCorrect, PTL

\* No response is recorded twice (recordServiceFailureOnce).
THEOREM CountedOnce == Spec => []OneOutcome
<1>1. ProxyInv => OneOutcome
  BY DEF ProxyInv, Outcomes, OneOutcome
<1> QED
  BY <1>1, ProxyCorrect, PTL

\* No service is blamed for what its client did (shouldRecordUpstreamFailure).
THEOREM BlameIsFair == Spec => []FailureHasCause
<1>1. ProxyInv => FailureHasCause
  BY DEF ProxyInv, Blame, FailureHasCause
<1> QED
  BY <1>1, ProxyCorrect, PTL
-----------------------------------------------------------------------------
(* The order of the phases, and of what the client hears. *)

LEMMA Ranks ==
  /\ Rank["new"] = 0 /\ Rank["awaiting_first_frame"] = 1 /\ Rank["routing"] = 2
  /\ Rank["connecting"] = 3 /\ Rank["open"] = 4 /\ Rank["closed"] = 5
BY DEF Rank, LIVE_PHASES

LEMMA ClosingRises ==
  ASSUME TypeOK, CloseAll(LIVE_PHASES)
  PROVE  phase' = phase \/ Rank[phase'] > Rank[phase]
BY Ranks DEF CloseAll, TypeOK, LIVE_PHASES

\* No session goes back to an earlier phase (transition, closeAll).
THEOREM OneDirection == Spec => Forward
<1>1. ASSUME ProxyInv, [Next]_vars
      PROVE  phase' = phase \/ Rank[phase'] > Rank[phase]
  <2> USE DEF ProxyInv
  <2>1. CASE Fetch \/ Alarm \/ Claim
    BY <2>1, Ranks DEF Fetch, Alarm, Claim
  <2>2. ASSUME \E how \in {"early", "due"} : Due(how) PROVE phase' = phase
    BY <2>2 DEF Due, session
  <2>3. CASE Leave \/ Ask \/ Relay \/ Activate \/ Loss \/ \E event \in Messages : Message(event)
    BY <2>3 DEF Leave, Ask, Relay, Activate, Loss, Message, session
  <2>4. CASE ClientClosed \/ RefuseFrame \/ Misconfigured \/ Unavailable \/ Report \/ ReadRefusal
    BY <2>4, <1>1, ClosingRises DEF ClientClosed, RefuseFrame, Misconfigured, Unavailable, Report, ReadRefusal
  <2>5. CASE DropFrame \/ Configure \/ Refresh
    BY <2>5 DEF DropFrame, Configure, Refresh, Configured, session
  <2>6. ASSUME NEW frame \in Frames, Send(frame)
        PROVE  phase' = phase \/ Rank[phase'] > Rank[phase]
    BY <2>6, <1>1, ClosingRises DEF Send
  <2>7. CASE Select
    BY <2>7, Ranks DEF Select, IsIn
  <2>8. CASE Cooled \/ Retry \/ \E result \in Results : Attempt(result)
    <3>1. \/ Onward \/ Opened
          \/ \E result \in Results : Late(result) \/ Refused(result)
      BY <1>1, <2>8, Handshakes
    <3>2. Opened => phase = "connecting" /\ phase' = "open"
      BY DEF Opened, IsIn
    <3>3. ASSUME NEW result \in Results, Late(result) \/ Refused(result) PROVE phase' = phase
      BY <3>3 DEF Late, Refused, session
    <3>4. Onward => phase' = phase
      BY DEF Onward, session
    <3> QED
      BY <3>1, <3>2, <3>3, <3>4, Ranks
  <2>9. CASE EventStep
    <3>1. ASSUME NEW event, Deliver(event)
          PROVE  phase' = phase \/ Rank[phase'] > Rank[phase]
      BY <1>1, <3>1, ClosingRises DEF Deliver
    <3>2. ASSUME NEW event \in Events, DropMessage(event) \/ RecordStatus(event)
          PROVE  phase' = phase
      BY <3>2 DEF DropMessage, RecordStatus, session
    <3>3. ASSUME NEW event \in Events, DeliverAtOnce(event)
          PROVE  phase' = phase \/ Rank[phase'] > Rank[phase]
      BY <3>1, <3>3 DEF DeliverAtOnce
    <3>4. ASSUME NEW event \in Events, Lost(event)
          PROVE  phase' = phase \/ Rank[phase'] > Rank[phase]
      BY <1>1, <3>4, ClosingRises DEF Lost
    <3>5. CASE Recorded
      BY <1>1, <3>1, <3>5, ClosingRises DEF Recorded
    <3> QED
      BY <2>9, <3>2, <3>3, <3>4, <3>5 DEF EventStep
  <2>10. CASE UNCHANGED vars
    BY <2>10 DEF vars, session
  <2> QED
    BY <1>1, <2>1, <2>2, <2>3, <2>4, <2>5, <2>6, <2>7, <2>8, <2>9, <2>10
    DEF Next, TakeFrame, JobStep
<1> QED
  BY <1>1, ProxyCorrect, PTL DEF Spec, Forward

\* An event is taken by its own step, when no other is in hand.
LEMMA TakenInTurn ==
  ASSUME ProxyInv, [Next]_vars, events # <<>>, events' = Tail(events)
  PROVE  work = "none" /\ EventStep /\ events' # events
<1>1. PICK n, tail : /\ n \in Nat /\ events \in Seq(Events) /\ Len(events) = n
                     /\ tail = events' /\ Len(tail) = n - 1
  BY Shortened DEF ProxyInv, TypeOK
<1>2. events' # events
  BY <1>1
<1>3. ASSUME NEW event \in Events PROVE events' # Append(events, event)
  <2>1. PICK longer : longer = Append(events, event) /\ Len(longer) = n + 1
    BY <1>1, Appended
  <2>2. tail # longer
    BY <1>1, <2>1
  <2> QED
    BY <1>1, <2>1, <2>2
<1>4. ASSUME ~ EventStep PROVE FALSE
  <2>1. CASE Fetch \/ Alarm \/ Leave \/ ClientClosed \/ \E how \in {"early", "due"} : Due(how)
    BY <1>2, <2>1 DEF Fetch, Alarm, Leave, ClientClosed, Due, outbound
  <2>2. CASE TakeFrame \/ \E frame \in Frames : Send(frame)
    BY <1>2, <2>2 DEF TakeFrame, DropFrame, RefuseFrame, Claim, Ask, Relay, Send, outbound
  <2>3. CASE Misconfigured \/ Configure \/ Refresh \/ Unavailable \/ Select \/ Activate \/ Report \/ ReadRefusal
    BY <1>2, <2>3 DEF Misconfigured, Configure, Refresh, Configured, Unavailable, Select,
       Activate, Report, ReadRefusal, outbound
  <2>4. CASE Cooled \/ Retry \/ \E result \in Results : Attempt(result)
    <3>1. \/ Onward \/ Opened
          \/ \E result \in Results : Late(result) \/ Refused(result)
      BY <2>4, Handshakes
    <3> QED
      BY <1>2, <1>3, <3>1 DEF Onward, Opened, Late, Refused, Events, outbound
  <2>5. CASE Loss \/ \E event \in Messages : Message(event)
    BY <1>3, <2>5 DEF Loss, Message, Events
  <2>6. CASE UNCHANGED vars
    BY <1>2, <2>6 DEF vars, outbound
  <2> QED
    BY <1>4, <2>1, <2>2, <2>3, <2>4, <2>5, <2>6 DEF Next, JobStep
<1>5. CASE EventStep
  BY <1>2, <1>5 DEF EventStep, DropMessage, DeliverAtOnce, RecordStatus, Lost, Recorded, TakeEvent
<1> QED
  BY <1>2, <1>4, <1>5

\* The client has heard all the upstream said when the loss of it ends the
\* session (enqueueUpstreamEvent).
THEOREM HeardBeforeLoss == Spec => DeliveredBeforeLoss
<1>1. ASSUME ProxyInv, [Next]_vars, EndsByLoss, client = "open"
      PROVE  undelivered = 0
  <2>1. undelivered = InFlight
    BY <1>1 DEF EndsByLoss, ProxyInv, Upstream, LIVE_PHASES
  <2>2. CASE work = "lost"
    <3>1. events = <<>>
      BY <1>1, <2>2 DEF ProxyInv, Upstream
    <3> QED
      BY <2>1, <2>2, <3>1 DEF InFlight, Queued, Messages, Terminal, Completed, Failed, Errors
  <2>3. CASE events # <<>> /\ Head(events) = "lost" /\ events' = Tail(events)
    <3>1. work = "none"
      BY <1>1, <2>3, TakenInTurn
    <3>2. events \in Seq(Events) /\ events[1] = "lost" /\ 1 \in DOMAIN events
      BY <1>1, <2>3, Shortened DEF ProxyInv, TypeOK
    <3>3. Len(events) = 1
      BY <1>1, <3>2 DEF ProxyInv, Upstream
    <3>4. Queued(events) = 0
      BY <2>3, <3>2, <3>3 DEF Queued
    <3> QED
      BY <2>1, <3>1, <3>4 DEF InFlight, Messages, Terminal, Completed, Failed, Errors
  <2> QED
    BY <1>1, <2>2, <2>3 DEF EndsByLoss
<1> QED
  BY <1>1, ProxyCorrect, PTL DEF Spec, DeliveredBeforeLoss
-----------------------------------------------------------------------------
(* What is recorded of a response that the upstream breaks off. *)

Has(list, S) == \E i \in DOMAIN list : list[i] \in S
Once(list, S) == \A i, j \in DOMAIN list : list[i] \in S /\ list[j] \in S => i = j

\* Messages that only an upstream with a response to end may send.
Answers == Completed \cup Failed

BeingAsked == job.pc \in Routing \cup Connecting \cup Asking
Answered == work \in Answers \/ Has(events, Answers)

\* A client that awaits its answers has one question under way: it waits in the
\* queue, is being asked, is owed an answer, or has one on its way.  As long as
\* it is owed one the response is active.
Turns ==
  Polite /\ phase \in LIVE_PHASES =>
    /\ Once(queue, {"create"}) /\ Once(events, Answers)
    /\ work \in Answers => ~ Has(events, Answers)
    /\ Has(queue, {"create"}) => waiting /\ ~ BeingAsked /\ owed = 0 /\ ~ Answered
    /\ BeingAsked => waiting /\ owed = 0 /\ ~ Answered
    /\ owed # 0 => waiting /\ owed = 1 /\ ~ Answered
    /\ Answered => waiting
    /\ phase = "open" /\ owed # 0 => active

\* A recorded outcome is one or the other, and a loss that counts is recorded.
Verdicts == recorded \/ work = "lost" => verdict # "none"

LEMMA AppendedHas ==
  ASSUME NEW V, NEW list \in Seq(V), NEW e \in V, NEW S
  PROVE  /\ Has(Append(list, e), S) => Has(list, S) \/ e \in S
         /\ Once(list, S) /\ (e \in S => ~ Has(list, S)) => Once(Append(list, e), S)
<1> DEFINE longer == Append(list, e)
           n == Len(list)
<1>1. /\ n \in Nat /\ DOMAIN longer = 1 .. n + 1 /\ DOMAIN list = 1 .. n
      /\ longer[n + 1] = e /\ \A i \in 1 .. n : longer[i] = list[i]
  BY Appended
<1> HIDE DEF longer, n
<1>2. \A i \in DOMAIN longer : i \in DOMAIN list \/ i = n + 1
  BY <1>1
<1>3. \A i \in DOMAIN list : longer[i] = list[i]
  BY <1>1
<1>4. Has(longer, S) => Has(list, S) \/ e \in S
  BY <1>1, <1>2, <1>3 DEF Has
<1>5. Once(list, S) /\ (e \in S => ~ Has(list, S)) => Once(longer, S)
  <2> SUFFICES ASSUME Once(list, S), e \in S => ~ Has(list, S),
                      NEW i \in DOMAIN longer, NEW j \in DOMAIN longer,
                      longer[i] \in S, longer[j] \in S
               PROVE  i = j
    BY DEF Once
  <2>1. CASE i \in DOMAIN list /\ j \in DOMAIN list
    BY <1>3, <2>1 DEF Once
  <2>2. CASE i = n + 1 /\ j \in DOMAIN list
    BY <1>1, <1>3, <2>2 DEF Has
  <2>3. CASE i \in DOMAIN list /\ j = n + 1
    BY <1>1, <1>3, <2>3 DEF Has
  <2> QED
    BY <1>2, <2>1, <2>2, <2>3
<1> QED
  BY <1>4, <1>5 DEF longer

LEMMA ShortenedHas ==
  ASSUME NEW V, NEW list \in Seq(V), list # <<>>, NEW S
  PROVE  /\ Has(Tail(list), S) => Has(list, S)
         /\ Once(list, S) => Once(Tail(list), S)
         /\ Head(list) \in S => Has(list, S)
         /\ Once(list, S) /\ Head(list) \in S => ~ Has(Tail(list), S)
<1> DEFINE shorter == Tail(list)
           n == Len(list)
<1>1. /\ n \in Nat /\ n > 0 /\ DOMAIN shorter = 1 .. n - 1 /\ DOMAIN list = 1 .. n
      /\ Head(list) = list[1] /\ \A i \in 1 .. n - 1 : shorter[i] = list[i + 1]
  BY Shortened
<1> HIDE DEF shorter, n
<1>2. \A i \in DOMAIN shorter : i + 1 \in DOMAIN list /\ shorter[i] = list[i + 1] /\ i \in Nat
  BY <1>1
<1>3. 1 \in DOMAIN list
  BY <1>1
<1>4. Has(shorter, S) => Has(list, S)
  BY <1>2 DEF Has
<1>5. Once(list, S) => Once(shorter, S)
  <2> SUFFICES ASSUME Once(list, S), NEW i \in DOMAIN shorter, NEW j \in DOMAIN shorter,
                      shorter[i] \in S, shorter[j] \in S
               PROVE  i = j
    BY DEF Once
  <2>1. i + 1 = j + 1
    BY <1>2 DEF Once
  <2> QED
    BY <1>2, <2>1
<1>6. Head(list) \in S => Has(list, S)
  BY <1>1, <1>3 DEF Has
<1>7. ASSUME Once(list, S), Head(list) \in S, Has(shorter, S) PROVE FALSE
  <2>1. PICK i \in DOMAIN shorter : shorter[i] \in S
    BY <1>7 DEF Has
  <2>2. i + 1 = 1
    BY <1>1, <1>2, <1>3, <1>7, <2>1 DEF Once
  <2>3. i >= 1 /\ i \in Nat
    BY <1>1, <1>2
  <2> QED
    BY <2>2, <2>3
<1> QED
  BY <1>4, <1>5, <1>6, <1>7 DEF shorter

\* What leaves the places of the question alone leaves the turns as they are, and
\* so does the end of the session.
LEMMA TurnsRemain ==
  ASSUME Turns,
         \/ phase' \notin LIVE_PHASES
         \/ /\ phase \in LIVE_PHASES /\ (phase' = "open" => phase = "open")
            /\ UNCHANGED <<active, waiting, queue, events, work, owed>>
            /\ BeingAsked' => BeingAsked
  PROVE  Turns'
BY DEF Turns, Answered

LEMMA Ends ==
  ASSUME ProxyInv, CloseAll(LIVE_PHASES)
  PROVE  phase' \notin LIVE_PHASES
BY DEF CloseAll, ProxyInv, TypeOK, LIVE_PHASES

LEMMA FetchTurns ==
  ASSUME ProxyInv, Turns, Fetch
  PROVE  Turns'
<1>1. /\ queue = <<>> /\ job.pc = "idle" /\ owed = 0 /\ events = <<>> /\ work = "none"
  BY DEF Fetch, ProxyInv, Counted, InHand, Sockets, Upstream
<1>2. UNCHANGED <<active, waiting, queue, events, work, owed, job>>
  BY DEF Fetch, inbound, outbound
<1>3. ~ Has(queue, {"create"}) /\ Once(queue, {"create"}) /\ ~ Has(events, Answers)
      /\ Once(events, Answers)
  BY <1>1 DEF Has, Once
<1>4. ~ BeingAsked /\ ~ Answered
  BY <1>1, <1>3 DEF BeingAsked, Answered, Answers, Completed, Failed, Routing, Connecting, Asking
<1> QED
  BY <1>1, <1>2, <1>3, <1>4 DEF Turns, BeingAsked, Answered

LEMMA SendTurns ==
  ASSUME ProxyInv, Turns, NEW frame \in Frames, Send(frame)
  PROVE  Turns'
<1>1. UNCHANGED <<active, job, events, work, owed>>
      /\ (frame = "create" => ~ (Polite /\ waiting)) /\ waiting' = (waiting \/ frame = "create")
  BY DEF Send, outbound
<1>2. CASE CloseAll(LIVE_PHASES)
  BY <1>2, Ends, TurnsRemain
<1>3. CASE queue' = Append(queue, frame) /\ UNCHANGED <<phase, alarm, client, socket>>
  <2> SUFFICES ASSUME Polite, phase \in LIVE_PHASES PROVE Turns'
    BY <1>3 DEF Turns
  <2>1. queue \in Seq(Frames)
    BY DEF ProxyInv, TypeOK
  <2>2. frame \in {"create"} => ~ Has(queue, {"create"})
    BY <1>1 DEF Turns
  <2>3. /\ Once(queue', {"create"})
        /\ Has(queue', {"create"}) => Has(queue, {"create"}) \/ frame = "create"
    <3>1. Once(queue, {"create"})
      BY DEF Turns
    <3> QED
      BY <1>3, <2>1, <2>2, <3>1, AppendedHas
  <2>4. (BeingAsked' <=> BeingAsked) /\ (Answered' <=> Answered)
    BY <1>1 DEF BeingAsked, Answered
  <2>5. frame = "create" => ~ BeingAsked /\ owed = 0 /\ ~ Answered
    BY <1>1 DEF Turns
  <2> QED
    BY <1>1, <1>3, <2>3, <2>4, <2>5 DEF Turns
<1> QED
  BY <1>2, <1>3 DEF Send

\* What the queue holds when a frame was taken from it.
LEMMA TakenTurns ==
  ASSUME ProxyInv, Turns, Polite, phase \in LIVE_PHASES, NEW frame \in Frames, Take(frame)
  PROVE  /\ Once(queue', {"create"}) /\ waiting' = waiting /\ ~ BeingAsked
         /\ Has(queue', {"create"}) => Has(queue, {"create"})
         /\ frame = "create" => /\ Has(queue, {"create"}) /\ ~ Has(queue', {"create"})
                                /\ waiting /\ owed = 0 /\ ~ Answered
<1>1. queue \in Seq(Frames) /\ queue # <<>> /\ queue' = Tail(queue) /\ frame = Head(queue)
      /\ waiting' = waiting /\ job.pc = "idle" /\ Once(queue, {"create"})
  BY DEF Take, ProxyInv, TypeOK, Turns
<1>2. /\ Once(queue', {"create"})
      /\ Has(queue', {"create"}) => Has(queue, {"create"})
      /\ frame = "create" => Has(queue, {"create"}) /\ ~ Has(queue', {"create"})
  BY <1>1, ShortenedHas
<1>3. ~ BeingAsked
  BY <1>1 DEF BeingAsked, Routing, Connecting, Asking
<1> QED
  BY <1>1, <1>2, <1>3 DEF Turns

LEMMA TakeFrameTurns ==
  ASSUME ProxyInv, Turns, TakeFrame
  PROVE  Turns'
<1>1. CASE DropFrame
  <2>1. phase \notin LIVE_PHASES
    BY <1>1, Taken DEF DropFrame, ProxyInv, InHand, Routing, Connecting, LIVE_PHASES
  <2>2. phase' = phase
    BY <1>1 DEF DropFrame, session
  <2> QED
    BY <2>1, <2>2, TurnsRemain
<1>2. CASE RefuseFrame
  BY <1>2, Ends, TurnsRemain DEF RefuseFrame
<1>3. CASE Claim \/ Ask
  <2> SUFFICES ASSUME Polite PROVE Turns'
    BY DEF Turns
  <2>1. /\ Take("create") /\ "create" \in Frames /\ phase \in LIVE_PHASES
        /\ UNCHANGED <<active, events, work, owed>>
    BY <1>3 DEF Claim, Ask, Frames, LIVE_PHASES, session, outbound
  <2>2. phase = "open" \/ phase' # "open"
    BY <1>3 DEF Claim, Ask
  <2>3. /\ Once(queue', {"create"}) /\ ~ Has(queue', {"create"}) /\ waiting' = waiting /\ waiting
        /\ owed = 0 /\ ~ Answered
    BY <2>1, TakenTurns
  <2>4. ~ Answered'
    BY <2>1, <2>3 DEF Answered
  <2> QED
    BY <2>1, <2>2, <2>3, <2>4 DEF Turns
<1>4. CASE Relay
  <2> SUFFICES ASSUME Polite PROVE Turns'
    BY DEF Turns
  <2>1. /\ Take("other") /\ "other" \in Frames /\ phase \in LIVE_PHASES /\ phase' = phase
        /\ UNCHANGED <<active, events, work, owed>>
    BY <1>4 DEF Relay, Frames, LIVE_PHASES, session, outbound
  <2>2. /\ Once(queue', {"create"})
        /\ Has(queue', {"create"}) => Has(queue, {"create"})
        /\ waiting' = waiting /\ ~ BeingAsked
    BY <2>1, TakenTurns
  <2>3. ~ BeingAsked' /\ (Answered' <=> Answered)
    <3>1. job' = job \/ job' = [job EXCEPT !.pc = "reporting"]
      BY <1>4 DEF Relay, Continue
    <3>2. job \in [pc : Waits \cup {"idle"}, attempt : 0 .. Delays + 1]
      BY DEF ProxyInv, TypeOK
    <3>3. job' = job \/ job'.pc = "reporting"
      BY <3>1, <3>2
    <3> QED
      BY <2>1, <2>2, <3>3 DEF BeingAsked, Answered, Routing, Connecting, Asking
  <2> QED
    BY <2>1, <2>2, <2>3 DEF Turns
<1> QED
  BY <1>1, <1>2, <1>3, <1>4 DEF TakeFrame

\* The question has been asked: the upstream owes the answer, or could not be
\* told and is lost.
LEMMA AskedTurns ==
  ASSUME ProxyInv, Turns, BeingAsked, phase \in LIVE_PHASES, phase' = "open", active' = TRUE,
         UNCHANGED <<waiting, queue, work>>, ~ BeingAsked',
         \/ owed' = owed + 1 /\ UNCHANGED events
         \/ UNCHANGED <<owed, events>>
         \/ UNCHANGED owed /\ events' = Append(events, "lost")
  PROVE  Turns'
<1> SUFFICES ASSUME Polite PROVE Turns'
  BY DEF Turns
<1>1. waiting /\ owed = 0 /\ ~ Answered /\ ~ Has(queue, {"create"})
  BY DEF Turns
<1>2. ~ Has(events', Answers) /\ Once(events', Answers)
  <2>1. events \in Seq(Events) /\ "lost" \in Events /\ "lost" \notin Answers
    BY DEF ProxyInv, TypeOK, Events, Answers, Completed, Failed
  <2>2. ~ Has(events, Answers) /\ Once(events, Answers)
    BY <1>1 DEF Turns, Answered
  <2>3. CASE events' = events
    BY <2>2, <2>3
  <2>4. CASE events' = Append(events, "lost")
    BY <2>1, <2>2, <2>4, AppendedHas
  <2> QED
    BY <2>3, <2>4
<1>3. ~ Answered'
  BY <1>1, <1>2 DEF Answered
<1>4. owed' = 0 \/ owed' = 1
  BY <1>1
<1>5. Once(queue', {"create"}) /\ ~ Has(queue', {"create"}) /\ waiting'
  BY <1>1 DEF Turns
<1> QED
  BY <1>2, <1>3, <1>4, <1>5 DEF Turns

LEMMA JobTurns ==
  ASSUME ProxyInv, Turns, JobStep \/ ReadRefusal
  PROVE  Turns'
<1>1. CASE Misconfigured \/ Unavailable \/ Report \/ ReadRefusal
  BY <1>1, Ends, TurnsRemain DEF Misconfigured, Unavailable, Report, ReadRefusal
<1>2. CASE Configure \/ Refresh
  <2>1. UNCHANGED <<phase, active, waiting, queue, events, work, owed>> /\ BeingAsked
    BY <1>2 DEF Configure, Refresh, Configured, session, inbound, outbound, BeingAsked, Routing, Asking
  <2> QED
    BY <2>1, TurnsRemain
<1>3. CASE Select
  <2>1. UNCHANGED <<active, waiting, queue, events, work, owed>> /\ BeingAsked
    BY <1>3 DEF Select, inbound, outbound, BeingAsked, Routing
  <2>2. phase' = phase \/ (phase \in LIVE_PHASES /\ phase' # "open")
    BY <1>3 DEF Select, IsIn, LIVE_PHASES
  <2> QED
    BY <2>1, <2>2, TurnsRemain
<1>4. CASE Activate
  <2>1. /\ UNCHANGED <<phase, waiting, queue, events, work>> /\ BeingAsked
        /\ job \in [pc : Waits \cup {"idle"}, attempt : 0 .. Delays + 1]
    BY <1>4 DEF Activate, inbound, BeingAsked, Asking, ProxyInv, TypeOK
  <2>2. CASE phase = "open"
    <3>1. /\ active' = TRUE
          /\ \/ owed' = owed + 1 /\ job' = Idle
             \/ UNCHANGED owed /\ job' = [job EXCEPT !.pc = "reporting"]
      BY <1>4, <2>2 DEF Activate, IsIn, Done, Continue
    <3>2. ~ BeingAsked'
      BY <2>1, <3>1 DEF BeingAsked, Idle, Routing, Connecting, Asking
    <3> QED
      BY <2>1, <2>2, <3>1, <3>2, AskedTurns DEF LIVE_PHASES
  <2>3. CASE phase # "open"
    <3>1. UNCHANGED <<active, owed>>
      BY <1>4, <2>3 DEF Activate, IsIn
    <3> QED
      BY <2>1, <3>1, TurnsRemain
  <2> QED
    BY <2>2, <2>3
<1>5. CASE Cooled \/ Retry \/ \E result \in Results : Attempt(result)
  <2>1. /\ job.pc \in Connecting /\ UNCHANGED <<waiting, queue, work>>
        /\ \/ Onward \/ Opened
           \/ \E result \in Results : Late(result) \/ Refused(result)
    BY <1>5, Handshakes DEF inbound
  <2>2. BeingAsked
    BY <2>1 DEF BeingAsked
  <2>3. CASE Opened
    <3>1. /\ phase = "connecting" /\ phase' = "open" /\ active' = TRUE
          /\ \/ owed' = owed + 1 /\ UNCHANGED events /\ job' = Idle
             \/ UNCHANGED owed /\ events' = Append(events, "lost")
                /\ job' = [job EXCEPT !.pc = "reporting"]
      BY <2>3 DEF Opened, IsIn, Done, Continue
    <3>2. job \in [pc : Waits \cup {"idle"}, attempt : 0 .. Delays + 1]
      BY DEF ProxyInv, TypeOK
    <3>3. ~ BeingAsked'
      BY <3>1, <3>2 DEF BeingAsked, Idle, Routing, Connecting, Asking
    <3> QED
      BY <2>1, <2>2, <3>1, <3>3, AskedTurns DEF LIVE_PHASES
  <2>4. CASE Onward
    <3>1. UNCHANGED <<phase, active, events, owed>>
      BY <2>4 DEF Onward, session, outbound
    <3> QED
      BY <2>1, <2>2, <3>1, TurnsRemain
  <2>5. ASSUME NEW result \in Results, Late(result) \/ Refused(result) PROVE Turns'
    <3>1. UNCHANGED <<phase, active, events, owed>>
      BY <2>5 DEF Late, Refused, session
    <3> QED
      BY <2>1, <2>2, <3>1, TurnsRemain
  <2> QED
    BY <2>1, <2>3, <2>4, <2>5
<1> QED
  BY <1>1, <1>2, <1>3, <1>4, <1>5 DEF JobStep

\* The upstream says something, or says no more.
LEMMA SpokenTurns ==
  ASSUME ProxyInv, Turns, NEW event \in Events, events' = Append(events, event),
         UNCHANGED <<phase, active, waiting, queue, job, work>>,
         event \in Answers => owed > 0 /\ owed' = owed - 1,
         owed' = owed \/ (owed > 0 /\ owed' = owed - 1)
  PROVE  Turns'
<1> SUFFICES ASSUME Polite, phase \in LIVE_PHASES PROVE Turns'
  BY DEF Turns
<1>1. events \in Seq(Events) /\ owed \in Nat
  BY DEF ProxyInv, TypeOK
<1>2. event \in Answers => owed = 1 /\ owed' = 0 /\ waiting /\ ~ Answered
  BY <1>1 DEF Turns
<1>3. owed' # 0 => owed # 0 /\ owed' = 1
  BY <1>1 DEF Turns
<1>4. owed = 0 => owed' = 0 /\ event \notin Answers
  BY <1>1
<1>5. Once(events, Answers) /\ (event \in Answers => ~ Has(events, Answers))
  BY <1>2 DEF Turns, Answered
<1>6. /\ Has(events', Answers) => Has(events, Answers) \/ event \in Answers
      /\ Once(events', Answers)
  BY <1>1, <1>5, AppendedHas
<1>7. (BeingAsked' => BeingAsked) /\ (Answered' => Answered \/ event \in Answers)
  BY <1>6 DEF BeingAsked, Answered
<1>8. event \in Answers => ~ BeingAsked /\ ~ Has(queue, {"create"})
  BY <1>2 DEF Turns
<1>9. work' \in Answers => ~ Has(events', Answers)
  BY <1>2, <1>6 DEF Turns, Answered
<1>10. owed' # 0 => event \notin Answers
  BY <1>2
<1>11. owed # 0 => waiting /\ ~ Answered
  BY DEF Turns
<1> QED
  BY <1>2, <1>3, <1>4, <1>6, <1>7, <1>8, <1>9, <1>10, <1>11 DEF Turns

LEMMA MessageTurns ==
  ASSUME ProxyInv, Turns, Loss \/ \E event \in Messages : Message(event)
  PROVE  Turns'
<1>1. CASE Loss
  <2>1. "lost" \in Events /\ "lost" \notin Answers
    BY DEF Events, Answers, Completed, Failed
  <2>2. /\ events' = Append(events, "lost") /\ owed' = owed
        /\ UNCHANGED <<phase, active, waiting, queue, job, work>>
    BY <1>1 DEF Loss, session, inbound
  <2> QED
    BY <2>1, <2>2, SpokenTurns
<1>2. ASSUME NEW event \in Messages, Message(event) PROVE Turns'
  <2>1. event \in Events /\ (event \in Answers => event \in Completed \cup Failed /\ event \in Terminal)
    BY DEF Events, Answers, Terminal
  <2>2. /\ events' = Append(events, event)
        /\ UNCHANGED <<phase, active, waiting, queue, job, work>>
    BY <1>2 DEF Message, session, inbound
  <2>3. /\ event \in Answers => owed > 0 /\ owed' = owed - 1
        /\ owed' = owed \/ (owed > 0 /\ owed' = owed - 1)
    BY <1>2, <2>1 DEF Message
  <2> QED
    BY <2>1, <2>2, <2>3, SpokenTurns
<1> QED
  BY <1>1, <1>2

\* An event reaches the client: an answer ends the wait, and was the only one.
LEMMA DeliverTurns ==
  ASSUME ProxyInv, Turns, NEW event \in Messages, phase = "open", Deliver(event),
         UNCHANGED <<queue, job, owed>>, work' = "none",
         Once(events', Answers), Has(events', Answers) => Has(events, Answers),
         event \in Answers => Answered /\ ~ Has(events', Answers)
  PROVE  Turns'
<1>1. CASE CloseAll(LIVE_PHASES)
  BY <1>1, Ends, TurnsRemain
<1>2. CASE ~ CloseAll(LIVE_PHASES)
  <2> SUFFICES ASSUME Polite PROVE Turns'
    BY DEF Turns
  <2>1. /\ event \notin Errors /\ phase' = phase
        /\ waiting' = (waiting /\ event \notin Terminal)
        /\ active' = (active /\ event \notin Terminal)
    BY <1>2 DEF Deliver
  <2>2. event \in Terminal => event \in Answers
    BY <2>1 DEF Terminal, Answers
  <2>3. "none" \notin Answers /\ phase \in LIVE_PHASES
    BY DEF Answers, Completed, Failed, LIVE_PHASES
  <2>4. Answered' => Answered /\ event \notin Answers
    BY <2>3 DEF Answered
  <2>5. event \in Terminal => ~ Has(queue, {"create"}) /\ ~ BeingAsked /\ owed = 0
    BY <2>2, <2>3 DEF Turns
  <2>6. BeingAsked' => BeingAsked
    BY DEF BeingAsked
  <2>7. owed = 0 \/ ~ Answered
    BY <2>3 DEF Turns
  <2>8. event \notin Terminal => waiting' = waiting /\ active' = active
    BY <2>1, ProxyInv DEF ProxyInv, TypeOK
  <2> QED
    BY <2>1, <2>2, <2>3, <2>4, <2>5, <2>6, <2>7, <2>8 DEF Turns
<1> QED
  BY <1>1, <1>2

\* Only a session that is open, or was, has events.
LEMMA EventsOpen ==
  ASSUME ProxyInv, events # <<>> \/ work # "none"
  PROVE  phase \in {"open", "closed"}
BY DEF ProxyInv, TypeOK, Sockets, Upstream, LIVE_PHASES

LEMMA EventTurns ==
  ASSUME ProxyInv, Turns, EventStep
  PROVE  Turns'
<1> SUFFICES ASSUME Polite PROVE Turns'
  BY DEF Turns
<1>1. UNCHANGED <<queue, job, owed>>
  BY DEF EventStep
<1>2. ASSUME NEW event \in Events, TakeEvent(event), phase = "open"
      PROVE  /\ Once(events', Answers)
             /\ Has(events', Answers) => Has(events, Answers)
             /\ event \in Answers => Answered /\ ~ Has(events', Answers)
  <2>1. /\ events \in Seq(Events) /\ events # <<>> /\ events' = Tail(events)
        /\ event = Head(events) /\ Once(events, Answers)
    BY <1>2 DEF TakeEvent, ProxyInv, TypeOK, Turns, LIVE_PHASES
  <2>2. /\ Once(events', Answers)
        /\ Has(events', Answers) => Has(events, Answers)
        /\ event \in Answers => Has(events, Answers) /\ ~ Has(events', Answers)
    BY <2>1, ShortenedHas
  <2> QED
    BY <2>2 DEF Answered
<1>3. ASSUME NEW event \in Events, DropMessage(event) PROVE Turns'
  <2>1. phase = "closed" /\ phase' = phase
    BY <1>3, EventsOpen DEF DropMessage, TakeEvent, session
  <2> QED
    BY <2>1, TurnsRemain DEF LIVE_PHASES
<1>4. ASSUME NEW event \in Events, DeliverAtOnce(event) PROVE Turns'
  <2>1. /\ TakeEvent(event) /\ event \in Messages /\ phase = "open" /\ Deliver(event)
        /\ work' = "none"
    BY <1>4 DEF DeliverAtOnce, TakeEvent
  <2> QED
    BY <1>1, <1>2, <2>1, DeliverTurns
<1>5. ASSUME NEW event \in Events, RecordStatus(event) \/ (Lost(event) /\ LossCounts)
      PROVE  Turns'
  <2>1. /\ TakeEvent(event) /\ work' = event /\ events # <<>>
        /\ UNCHANGED <<phase, active, waiting>>
    BY <1>5 DEF RecordStatus, Lost, TakeEvent
  <2>2. CASE phase = "open"
    <3>1. /\ Once(events', Answers)
          /\ Has(events', Answers) => Has(events, Answers)
          /\ event \in Answers => Answered /\ ~ Has(events', Answers)
      BY <1>2, <2>1, <2>2
    <3>2. (Answered' => Answered) /\ (BeingAsked' => BeingAsked)
      BY <1>1, <2>1, <3>1 DEF Answered, BeingAsked
    <3> QED
      BY <1>1, <2>1, <2>2, <3>1, <3>2 DEF Turns, LIVE_PHASES
  <2>3. CASE phase # "open"
    BY <2>1, <2>3, EventsOpen, TurnsRemain DEF LIVE_PHASES
  <2> QED
    BY <2>2, <2>3
<1>6. ASSUME NEW event \in Events, Lost(event), ~ LossCounts PROVE Turns'
  BY <1>6, Ends, TurnsRemain DEF Lost
<1>7. CASE Recorded
  <2>1. CASE work = "lost"
    BY <1>7, <2>1, Ends, TurnsRemain DEF Recorded
  <2>2. CASE work # "lost" /\ phase = "open"
    <3>1. work \in Messages /\ Deliver(work) /\ work' = "none" /\ events' = events
      BY <1>7, <2>2 DEF Recorded, ProxyInv, TypeOK, Messages, Terminal, KeyScope, ServiceScope,
         Failed, Errors
    <3>2. Once(events', Answers) /\ (work \in Answers => Answered /\ ~ Has(events', Answers))
      BY <2>2, <3>1 DEF Turns, LIVE_PHASES, Answered
    <3>3. Has(events', Answers) => Has(events, Answers)
      BY <3>1
    <3> QED
      BY <1>1, <2>2, <3>1, <3>2, <3>3, DeliverTurns
  <2>3. CASE work # "lost" /\ phase # "open"
    <3>1. phase = "closed" /\ phase' = phase
      BY <1>7, <2>3, EventsOpen DEF Recorded, Deliver, CloseAll, LIVE_PHASES
    <3> QED
      BY <3>1, TurnsRemain DEF LIVE_PHASES
  <2> QED
    BY <2>1, <2>2, <2>3
<1> QED
  BY <1>3, <1>4, <1>5, <1>6, <1>7 DEF EventStep

LEMMA TurnsStay ==
  ASSUME ProxyInv, Turns, [Next]_vars
  PROVE  Turns'
<1>1. CASE Fetch
  BY <1>1, FetchTurns
<1>2. CASE Alarm \/ Leave \/ ClientClosed \/ \E how \in {"early", "due"} : Due(how)
  <2>1. UNCHANGED <<active, waiting, queue, job, events, work, owed>>
    BY <1>2 DEF Alarm, Leave, ClientClosed, Due, session, inbound, outbound
  <2>2. phase' = phase \/ phase' = "closed"
    BY <1>2 DEF Alarm, Leave, ClientClosed, Due, session, CloseAll
  <2>3. BeingAsked' => BeingAsked
    BY <2>1 DEF BeingAsked
  <2>4. phase \in LIVE_PHASES \/ phase' \notin LIVE_PHASES
    BY <2>2 DEF LIVE_PHASES
  <2> QED
    BY <2>1, <2>2, <2>3, <2>4, TurnsRemain DEF LIVE_PHASES
<1>3. ASSUME NEW frame \in Frames, Send(frame) PROVE Turns'
  BY <1>3, SendTurns
<1>4. CASE TakeFrame
  BY <1>4, TakeFrameTurns
<1>5. CASE JobStep \/ ReadRefusal
  BY <1>5, JobTurns
<1>6. CASE Loss \/ \E event \in Messages : Message(event)
  BY <1>6, MessageTurns
<1>7. CASE EventStep
  BY <1>7, EventTurns
<1>8. CASE UNCHANGED vars
  <2>1. UNCHANGED <<phase, active, waiting, queue, job, events, work, owed>>
    BY <1>8 DEF vars, session, inbound, outbound
  <2>2. BeingAsked' => BeingAsked
    BY <2>1 DEF BeingAsked
  <2> QED
    BY <2>1, <2>2, TurnsRemain
<1> QED
  BY <1>1, <1>2, <1>3, <1>4, <1>5, <1>6, <1>7, <1>8 DEF Next

\* An outcome is forgotten only as a response begins, which is when none is
\* recorded yet.
LEMMA VerdictsStay ==
  ASSUME ProxyInv, Verdicts, [Next]_vars
  PROVE  Verdicts'
<1>1. CASE UNCHANGED <<recorded, work, verdict>>
  BY <1>1 DEF Verdicts
<1>2. ASSUME UNCHANGED work, NEW p, NEW done \in BOOLEAN, done => recorded, FailOnce(p, done)
      PROVE  Verdicts'
  BY <1>2 DEF Verdicts, FailOnce
<1>3. CASE Fetch \/ Alarm \/ Leave \/ ClientClosed \/ \E how \in {"early", "due"} : Due(how)
  BY <1>1, <1>3 DEF Fetch, Alarm, Leave, ClientClosed, Due, session, tally
<1>4. CASE \E frame \in Frames : Send(frame)
  BY <1>1, <1>4 DEF Send, tally
<1>5. CASE TakeFrame
  <2>1. CASE DropFrame \/ RefuseFrame \/ Claim \/ Ask
    BY <1>1, <2>1 DEF DropFrame, RefuseFrame, Claim, Ask, session, tally
  <2>2. CASE Relay
    <3>1. UNCHANGED work /\ (UNCHANGED <<recorded, verdict>> \/ FailOnce(phase, recorded))
      BY <2>2 DEF Relay
    <3>2. recorded \in BOOLEAN
      BY DEF ProxyInv, TypeOK
    <3> QED
      BY <1>1, <1>2, <3>1, <3>2
  <2> QED
    BY <1>5, <2>1, <2>2 DEF TakeFrame
<1>6. CASE Misconfigured \/ Configure \/ Refresh \/ Unavailable \/ Select \/ Report \/ ReadRefusal
  BY <1>1, <1>6 DEF Misconfigured, Configure, Refresh, Configured, Unavailable, Select, Report,
     ReadRefusal,     session, tally
<1>7. CASE Activate
  <2>1. UNCHANGED work
    BY <1>7 DEF Activate
  <2>2. CASE UNCHANGED <<recorded, verdict>>
    BY <1>1, <2>1, <2>2
  <2>3. CASE FailOnce("open", FALSE)
    BY <1>2, <2>1, <2>3
  <2>4. CASE socket = "open" /\ recorded' = FALSE
    <3>1. work # "lost"
      BY <2>4 DEF ProxyInv, Upstream
    <3> QED
      BY <2>1, <2>4, <3>1 DEF Verdicts
  <2> QED
    BY <1>7, <2>2, <2>3, <2>4 DEF Activate, tally
<1>8. CASE Cooled \/ Retry \/ \E result \in Results : Attempt(result)
  <2>1. /\ UNCHANGED work
        /\ Onward \/ Opened \/ \E result \in Results : Late(result) \/ Refused(result)
    BY <1>8, Handshakes
  <2>2. CASE Onward
    BY <1>1, <2>1, <2>2 DEF Onward, session, tally
  <2>3. CASE Opened
    <3>1. CASE FailOnce("open", FALSE)
      BY <1>2, <2>1, <3>1
    <3>2. CASE recorded' = FALSE
      <4>1. work # "lost"
        BY <2>3 DEF Opened, IsIn, ProxyInv, Upstream
      <4> QED
        BY <2>1, <3>2, <4>1 DEF Verdicts
    <3> QED
      BY <2>3, <3>1, <3>2 DEF Opened
  <2>4. ASSUME NEW result \in Results, Late(result) \/ Refused(result) PROVE Verdicts'
    <3>1. UNCHANGED <<recorded, verdict>> \/ FailOnce(phase, recorded)
      BY <2>4 DEF Late, Refused, session, tally
    <3>2. recorded \in BOOLEAN
      BY DEF ProxyInv, TypeOK
    <3> QED
      BY <1>1, <1>2, <2>1, <3>1, <3>2
  <2> QED
    BY <2>1, <2>2, <2>3, <2>4
<1>9. CASE Loss \/ \E event \in Messages : Message(event)
  BY <1>1, <1>9 DEF Loss, Message, session, tally
<1>10. CASE EventStep
  <2>1. ASSUME NEW event, Deliver(event), work' \in {work, "none"} PROVE Verdicts'
    <3>1. /\ recorded' => recorded \/ verdict' = "success"
          /\ verdict' \in {verdict, "success"}
      BY <2>1 DEF Deliver, tally
    <3> QED
      BY <2>1, <3>1 DEF Verdicts
  <2>2. ASSUME NEW event \in Events, DropMessage(event) PROVE Verdicts'
    BY <1>1, <2>2 DEF DropMessage, session, tally
  <2>3. ASSUME NEW event \in Events, DeliverAtOnce(event) PROVE Verdicts'
    BY <2>1, <2>3 DEF DeliverAtOnce
  <2>4. ASSUME NEW event \in Events, RecordStatus(event) PROVE Verdicts'
    <3>1. work' # "lost"
      BY <2>4 DEF RecordStatus, KeyScope, ServiceScope
    <3>2. /\ recorded' => recorded \/ verdict' = "failure"
          /\ verdict' \in {verdict, "failure"}
      BY <2>4 DEF RecordStatus, FailOnce
    <3> QED
      BY <3>1, <3>2 DEF Verdicts
  <2>5. ASSUME NEW event \in Events, Lost(event) PROVE Verdicts'
    <3>1. CASE LossCounts
      <4>1. FailOnce(phase, recorded) /\ ~ recorded /\ phase \in {"connecting", "open"}
        BY <2>5, <3>1 DEF Lost, LossCounts
      <4> QED
        BY <4>1 DEF FailOnce, Verdicts
    <3>2. CASE ~ LossCounts
      BY <1>1, <2>5, <3>2 DEF Lost
    <3> QED
      BY <3>1, <3>2
  <2>6. CASE Recorded
    <3>1. CASE work = "lost"
      BY <2>6, <3>1 DEF Recorded, Verdicts, tally
    <3>2. CASE work # "lost"
      BY <2>1, <2>6, <3>2 DEF Recorded
    <3> QED
      BY <3>1, <3>2
  <2> QED
    BY <1>10, <2>2, <2>3, <2>4, <2>5, <2>6 DEF EventStep
<1>11. CASE UNCHANGED vars
  BY <1>1, <1>11 DEF vars, session, tally
<1> QED
  BY <1>3, <1>4, <1>5, <1>6, <1>7, <1>8, <1>9, <1>10, <1>11 DEF Next, JobStep

\* A response the upstream breaks off has an outcome by the time the session
\* ends: the loss itself, or what was recorded before it (handleUpstreamClose,
\* handleUpstreamError).
THEOREM BreakIsRecorded == Spec => LossIsRecorded
<1>1. Init => Turns /\ Verdicts
  BY DEF Init, Turns, Verdicts, LIVE_PHASES
<1>2. ASSUME ProxyInv, Turns, Verdicts, [Next]_vars, Polite, EndsByLoss, owed > 0
      PROVE  verdict # "none"
  <2>1. CASE work = "lost"
    BY <1>2, <2>1 DEF Verdicts
  <2>2. CASE events # <<>> /\ Head(events) = "lost" /\ events' = Tail(events) /\ ~ recorded
    <3>1. phase = "open"
      BY <1>2, <2>2, EventsOpen DEF EndsByLoss, LIVE_PHASES
    <3>2. owed # 0
      BY <1>2
    <3>3. LossCounts
      BY <1>2, <2>2, <3>1, <3>2 DEF LossCounts, Turns, LIVE_PHASES
    <3>4. Lost("lost")
      <4>1. EventStep /\ events' # events
        BY <1>2, <2>2, TakenInTurn
      <4>2. PICK event \in Events :
              DropMessage(event) \/ DeliverAtOnce(event) \/ RecordStatus(event) \/ Lost(event)
        BY <4>1 DEF EventStep, Recorded
      <4>3. event = "lost"
        BY <2>2, <4>2 DEF DropMessage, DeliverAtOnce, RecordStatus, Lost, TakeEvent
      <4>4. "lost" \notin Messages \cup KeyScope \cup ServiceScope
        BY DEF Messages, Terminal, Completed, Failed, Errors, KeyScope, ServiceScope
      <4> QED
        BY <4>2, <4>3, <4>4 DEF DropMessage, DeliverAtOnce, RecordStatus
    <3>5. phase' = phase
      BY <3>3, <3>4 DEF Lost
    <3> QED
      BY <1>2, <3>1, <3>5 DEF EndsByLoss
  <2>3. CASE recorded
    BY <1>2, <2>3 DEF Verdicts
  <2> QED
    BY <1>2, <2>1, <2>2, <2>3 DEF EndsByLoss
<1>3. ProxyInv /\ Turns /\ Verdicts /\ [Next]_vars
        => (Polite /\ EndsByLoss /\ owed > 0 => verdict # "none")
  BY <1>2
<1>4. ASSUME ProxyInv, Turns, Verdicts, [Next]_vars PROVE Turns' /\ Verdicts'
  BY <1>4, TurnsStay, VerdictsStay
<1> QED
  BY <1>1, <1>3, <1>4, ProxyCorrect, PTL DEF Spec, LossIsRecorded

=============================================================================
