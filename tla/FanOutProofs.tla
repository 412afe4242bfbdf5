---------------------------- MODULE FanOutProofs -----------------------------
(***************************************************************************)
(* The two requests that fan out to a pool of workers.  A batch of         *)
(* searches is answered whole or with an error of its own and within its   *)
(* budget, for any number of queries and workers and any limits.  Pages of *)
(* sessions skip none that stays, for any number of sessions, requests and *)
(* workers and any limit.                                                  *)
(***************************************************************************)
EXTENDS SearchBatch, SessionPages, ArraysProofs, FiniteSetTheorems

(* A batch of searches: SearchBatch.tla. *)

Busy == {"fetching", "reading", "failing"}

\* What a worker may be at.
Hands == [pc : {"ready", "fetching", "reading", "failing", "stopped"},
          query : 0 .. Queries, error : Errors \cup {"none", "unnamed"}]

\* A query that was taken is answered or in some worker's hands, unless the
\* batch is aborted.
Held ==
  \A q \in 1 .. Queries : q <= nextIndex =>
    \/ q \in responses \/ Aborted
    \/ \E w \in Workers : worker[w].pc \in Busy /\ worker[w].query = q

\* A worker has a query, or none are left for it.
Employed ==
  \A w \in Workers :
    /\ worker[w].pc \in Busy => worker[w].query >= 1
    /\ worker[w].pc = "failing" => worker[w].error # "none"
    /\ worker[w].error = "unnamed" => worker[w].pc = "failing"
    /\ worker[w].pc = "stopped" => nextIndex >= Queries \/ Aborted

\* Nothing is under way when the batch is settled.
Quiet == outcome # "none" => \A w \in Workers : worker[w].pc = "stopped"

\* The error of the batch is one that a query has met, or the client's leave.
Caused == firstError # "none" => firstError \in causes \/ (firstError = "network" /\ left)

BatchInv == TypeOK /\ Held /\ Employed /\ Quiet /\ Caused /\ WholeOrCause

LEMMA Parameters ==
  /\ Queries \in Nat /\ Queries > 0 /\ MaxResponse \in Nat /\ MaxBatch \in Nat /\ MaxChunk \in Nat
  /\ Workers \subseteq 1 .. Queries /\ Workers # {}
  /\ Cardinality(Workers) \in Nat /\ Workers = 1 .. Cardinality(Workers)
<1> DEFINE n == IF ProviderConcurrency < Queries THEN ProviderConcurrency ELSE Queries
<1>1. n \in Nat /\ n > 0 /\ n <= Queries /\ Workers = 1 .. n /\ Queries \in Nat
  BY BatchAssumption DEF Workers
<1>2. Cardinality(1 .. n) = n
  <2> HIDE DEF n
  <2>1. Cardinality(1 .. n) = IF 1 > n THEN 0 ELSE n - 1 + 1
    BY <1>1, FS_Interval
  <2> QED
    BY <1>1, <2>1
<1> HIDE DEF n
<1>3. Workers \subseteq 1 .. Queries /\ 1 \in Workers
  BY <1>1
<1> QED
  BY <1>1, <1>2, <1>3, BatchAssumption

LEMMA Initially == Init => BatchInv
<1> SUFFICES ASSUME Init PROVE BatchInv
  OBVIOUS
<1> USE DEF Init
<1>1. PICK f \in [Workers -> UNION {Opening(w) : w \in Workers}] :
        /\ \A w \in Workers : f[w] \in Opening(w)
        /\ worker = [w \in Workers |-> IF left THEN Stopped ELSE f[w]]
  OBVIOUS
<1>2. \A w \in Workers : w \in 1 .. Queries
  BY Parameters
<1>3. ASSUME NEW w \in Workers
      PROVE  \/ left /\ worker[w] = Stopped
             \/ ~left /\ \E pc \in {"fetching", "failing"}, error \in {"none", "input"} :
                  /\ worker[w] = [pc |-> pc, query |-> w, error |-> error]
                  /\ pc = "failing" => error = "input"
  <2>1. CASE left
    BY <1>1, <2>1
  <2>2. CASE ~left
    BY <1>1, <2>2 DEF Opening
  <2> QED
    BY <2>1, <2>2
<1>4. TypeOK
  <2>1. worker \in [Workers -> Hands]
    <3>1. ASSUME NEW w \in Workers
          PROVE  worker[w] \in Hands
      <4>1. w \in 0 .. Queries /\ 0 \in 0 .. Queries
        BY <1>2, Parameters
      <4>2. CASE worker[w] = Stopped
        BY <4>1, <4>2 DEF Stopped, Hands
      <4>3. CASE \E pc \in {"fetching", "failing"}, error \in {"none", "input"} :
                   worker[w] = [pc |-> pc, query |-> w, error |-> error]
        <5>1. PICK pc \in {"fetching", "failing"}, error \in {"none", "input"} :
                worker[w] = [pc |-> pc, query |-> w, error |-> error]
          BY <4>3
        <5>2. pc \in {"ready", "fetching", "reading", "failing", "stopped"}
              /\ error \in Errors \cup {"none", "unnamed"}
          BY <5>1 DEF Errors
        <5> QED
          BY <5>1, <5>2, <4>1 DEF Hands
      <4> QED
        BY <1>3, <4>2, <4>3
    <3> QED
      BY <1>1, <3>1
  <2>2. nextIndex \in Nat /\ kept \in [1 .. Queries -> 0 .. MaxResponse]
    BY Parameters
  <2> QED
    BY <2>1, <2>2 DEF TypeOK, Hands
<1>5. Held
  <2> SUFFICES ASSUME NEW q \in 1 .. Queries, q <= nextIndex, ~left
               PROVE  \E w \in Workers : worker[w].pc \in Busy /\ worker[w].query = q
    BY DEF Held, Aborted
  <2>1. q \in Workers
    BY Parameters
  <2>2. PICK pc \in {"fetching", "failing"}, error \in {"none", "input"} :
          worker[q] = [pc |-> pc, query |-> q, error |-> error]
    BY <1>3, <2>1
  <2>3. worker[q].pc \in Busy /\ worker[q].query = q
    BY <2>2 DEF Busy
  <2> QED
    BY <2>1, <2>3
<1>6. Employed
  <2> SUFFICES ASSUME NEW w \in Workers
               PROVE  /\ worker[w].pc \in Busy => worker[w].query >= 1
                      /\ worker[w].pc = "failing" => worker[w].error # "none"
                      /\ worker[w].error = "unnamed" => worker[w].pc = "failing"
                      /\ worker[w].pc = "stopped" => nextIndex >= Queries \/ Aborted
    BY DEF Employed
  <2>1. w >= 1
    BY <1>2, Parameters
  <2>2. CASE left
    <3>1. worker[w] = Stopped
      BY <1>3, <2>2
    <3> QED
      BY <2>2, <3>1 DEF Stopped, Busy, Aborted
  <2>3. CASE ~ left
    <3>1. PICK pc \in {"fetching", "failing"}, error \in {"none", "input"} :
            /\ worker[w] = [pc |-> pc, query |-> w, error |-> error]
            /\ pc = "failing" => error = "input"
      BY <1>3, <2>3
    <3> QED
      BY <2>1, <3>1 DEF Busy
  <2> QED
    BY <2>2, <2>3
<1>7. Quiet /\ Caused /\ WholeOrCause
  BY DEF Quiet, Caused, WholeOrCause
<1> QED
  BY <1>4, <1>5, <1>6, <1>7 DEF BatchInv
-----------------------------------------------------------------------------
\* One worker moves and what it has of the batch's with it: its new state, the
\* queries it has answered, and the error it brings.
LEMMA MoveKeeps ==
  ASSUME BatchInv, outcome = "none", outcome' = "none",
         NEW w \in Workers, NEW s \in Hands, worker' = [worker EXCEPT ![w] = s],
         nextIndex' \in Nat, nextIndex <= nextIndex',
         late' \subseteq late \cup {w}, s.pc \in {"ready", "stopped"} => w \notin late',
         kept' \in [1 .. Queries -> 0 .. MaxResponse], consumed' \in Nat,
         responses \subseteq responses', responses' \subseteq 1 .. Queries,
         firstError' \in Errors \cup {"none"}, left' = left,
         causes \subseteq causes', causes' \subseteq Errors,
         Aborted => Aborted',
         \* What the worker had is answered, or is in its hands still, as is what it took.
         \A q \in 1 .. Queries : q <= nextIndex' =>
           \/ q <= nextIndex /\ worker[w].query # q
           \/ q <= nextIndex /\ worker[w].pc \notin Busy
           \/ q \in responses' \/ Aborted'
           \/ s.pc \in Busy /\ s.query = q,
         s.pc \in Busy => s.query >= 1,
         s.pc = "failing" => s.error # "none",
         s.error = "unnamed" => s.pc = "failing",
         s.pc = "stopped" => nextIndex' >= Queries \/ Aborted',
         Caused'
  PROVE  BatchInv'
<1> USE DEF BatchInv
<1>1. /\ worker \in [Workers -> Hands] /\ worker' \in [Workers -> Hands]
      /\ worker'[w] = s /\ \A v \in Workers : v # w => worker'[v] = worker[v]
  BY DEF TypeOK, Hands
<1>2. TypeOK'
  <2>1. late' \subseteq {v \in Workers : worker'[v].pc \notin {"ready", "stopped"}}
    BY <1>1 DEF TypeOK
  <2>2. left' \in BOOLEAN /\ outcome' \in Errors \cup {"none", "answers"}
    BY DEF TypeOK
  <2> QED
    BY <1>1, <2>1, <2>2 DEF TypeOK, Hands
<1>3. Held'
  <2> SUFFICES ASSUME NEW q \in 1 .. Queries, q <= nextIndex', ~ Aborted', q \notin responses'
               PROVE  \E v \in Workers : worker'[v].pc \in Busy /\ worker'[v].query = q
    BY DEF Held
  <2>1. CASE s.pc \in Busy /\ s.query = q
    BY <1>1, <2>1
  <2>2. CASE q <= nextIndex /\ (worker[w].query # q \/ worker[w].pc \notin Busy)
    <3>1. PICK v \in Workers : worker[v].pc \in Busy /\ worker[v].query = q
      BY <2>2 DEF Held
    <3>2. v # w
      BY <2>2, <3>1
    <3> QED
      BY <1>1, <3>1, <3>2
  <2> QED
    BY <2>1, <2>2
<1>4. Employed'
  <2> SUFFICES ASSUME NEW v \in Workers
               PROVE  /\ worker'[v].pc \in Busy => worker'[v].query >= 1
                      /\ worker'[v].pc = "failing" => worker'[v].error # "none"
                      /\ worker'[v].error = "unnamed" => worker'[v].pc = "failing"
                      /\ worker'[v].pc = "stopped" => nextIndex' >= Queries \/ Aborted'
    BY DEF Employed
  <2>1. CASE v = w
    BY <1>1, <2>1
  <2>2. CASE v # w
    <3>1. nextIndex >= Queries => nextIndex' >= Queries
      BY Parameters DEF TypeOK
    <3> QED
      BY <1>1, <2>2, <3>1 DEF Employed
  <2> QED
    BY <2>1, <2>2
<1>5. Quiet' /\ WholeOrCause'
  BY DEF Quiet, WholeOrCause
<1> QED
  BY <1>2, <1>3, <1>4, <1>5


\* What the invariant says of one worker, under way or not.
LEMMA Hand ==
  ASSUME BatchInv, NEW w \in Workers
  PROVE  /\ worker[w] \in Hands /\ worker[w].query \in 0 .. Queries
         /\ worker[w].error \in Errors \cup {"none", "unnamed"}
         /\ worker[w].pc # "stopped" => outcome = "none"
         /\ w \in late => worker[w].pc \notin {"ready", "stopped"}
         /\ worker[w].pc \in Busy => worker[w].query \in 1 .. Queries
         /\ worker[w].pc = "failing" => worker[w].error # "none"
         /\ worker[w].error = "unnamed" => worker[w].pc = "failing"
<1>1. worker[w] \in Hands
  BY DEF BatchInv, TypeOK, Hands
<1>2. /\ worker[w].query \in 0 .. Queries
      /\ worker[w].error \in Errors \cup {"none", "unnamed"}
  BY <1>1 DEF Hands
<1>3. worker[w].pc \in Busy => worker[w].query \in 1 .. Queries
  BY <1>2, Parameters DEF BatchInv, Employed
<1>4. w \in late => worker[w].pc \notin {"ready", "stopped"}
  BY DEF BatchInv, TypeOK
<1>5. /\ worker[w].pc # "stopped" => outcome = "none"
      /\ worker[w].pc = "failing" => worker[w].error # "none"
      /\ worker[w].error = "unnamed" => worker[w].pc = "failing"
  BY DEF BatchInv, Quiet, Employed
<1> QED
  BY <1>1, <1>2, <1>3, <1>4, <1>5

\* A worker's state, written out.
LEMMA Parts ==
  ASSUME BatchInv, NEW w \in Workers, NEW pc
  PROVE  /\ worker[w] = [pc |-> worker[w].pc, query |-> worker[w].query, error |-> worker[w].error]
         /\ [worker[w] EXCEPT !.pc = pc] =
              [pc |-> pc, query |-> worker[w].query, error |-> worker[w].error]
<1>1. PICK a, b, c : worker[w] = [pc |-> a, query |-> b, error |-> c]
  BY Hand DEF Hands
<1>2. worker[w].pc = a /\ worker[w].query = b /\ worker[w].error = c
  BY <1>1
<1> QED
  BY <1>1, <1>2

\* A worker goes on with its query: the state s, and what the batch keeps of
\* the answer; nothing is taken, answered or failed.
LEMMA GoesOn ==
  ASSUME BatchInv, NEW w \in Workers, worker[w].pc \in Busy,
         NEW pc \in Busy, NEW error \in Errors \cup {"none", "unnamed"},
         worker' = [worker EXCEPT ![w] = [pc |-> pc, query |-> worker[w].query, error |-> error]],
         pc = "failing" => error # "none", error = "unnamed" => pc = "failing",
         kept' \in [1 .. Queries -> 0 .. MaxResponse], consumed' \in Nat,
         UNCHANGED <<nextIndex, late, responses, firstError, left, outcome, causes>>
  PROVE  BatchInv'
<1> DEFINE s == [pc |-> pc, query |-> worker[w].query, error |-> error]
<1>1. /\ s \in Hands /\ s.pc = pc /\ s.query = worker[w].query /\ s.error = error
      /\ s.query >= 1 /\ outcome = "none"
  BY Hand, Parameters DEF Hands, Busy
<1>2. worker' = [worker EXCEPT ![w] = s]
  OBVIOUS
<1> HIDE DEF s
<1>3. \A q \in 1 .. Queries : q <= nextIndex' =>
        \/ q <= nextIndex /\ worker[w].query # q
        \/ q <= nextIndex /\ worker[w].pc \notin Busy
        \/ q \in responses' \/ Aborted'
        \/ s.pc \in Busy /\ s.query = q
  BY <1>1
<1>4. /\ nextIndex' \in Nat /\ nextIndex <= nextIndex' /\ responses' \subseteq 1 .. Queries
      /\ firstError' \in Errors \cup {"none"} /\ causes' \subseteq Errors
  BY DEF BatchInv, TypeOK
<1>5. Aborted' = Aborted /\ Caused'
  BY DEF BatchInv, Aborted, Caused
<1>6. /\ s.pc \in {"ready", "stopped"} => w \notin late'
      /\ s.pc = "stopped" => nextIndex' >= Queries \/ Aborted'
      /\ s.pc = "failing" => s.error # "none"
      /\ s.error = "unnamed" => s.pc = "failing"
  BY <1>1 DEF Busy
<1>7. /\ responses \subseteq responses' /\ causes \subseteq causes' /\ left' = left
      /\ late' \subseteq late \cup {w} /\ outcome' = "none"
  BY <1>1
<1> QED
  BY <1>1, <1>2, <1>3, <1>4, <1>5, <1>6, <1>7, MoveKeeps

\* Responses come in, and the pieces of their bodies.
LEMMA RespondKeeps ==
  ASSUME BatchInv, NEW w \in Workers, Respond(w)
  PROVE  BatchInv'
<1> USE DEF Respond
<1>1. worker[w].pc \in Busy /\ worker[w].error # "unnamed" /\ worker[w] \in Hands
  BY Hand DEF Busy
<1>2. kept' \in [1 .. Queries -> 0 .. MaxResponse] /\ consumed' \in Nat
  BY DEF BatchInv, TypeOK
<1>3. ASSUME NEW error \in {"http", "too_large"}, Cancel(w, error)
      PROVE  BatchInv'
  <2>1. worker' = [worker EXCEPT ![w] = [pc |-> "failing", query |-> worker[w].query,
                                          error |-> error]]
    BY <1>3 DEF Cancel, Become
  <2>2. error \in Errors
    BY DEF Errors
  <2> QED
    BY <1>1, <1>2, <1>3, <2>1, <2>2, GoesOn DEF Cancel, Busy, Errors
<1>4. CASE Become(w, [worker[w] EXCEPT !.pc = "reading"]) /\ UNCHANGED causes
  <2>1. worker' = [worker EXCEPT ![w] = [pc |-> "reading", query |-> worker[w].query,
                                          error |-> worker[w].error]]
    BY <1>4, Parts DEF Become
  <2>2. worker[w].error \in Errors \cup {"none", "unnamed"} /\ "reading" \in Busy
    BY Hand DEF Busy
  <2> QED
    BY <1>1, <1>2, <1>4, <2>1, <2>2, GoesOn
<1> QED
  BY <1>3, <1>4

LEMMA ReadKeeps ==
  ASSUME BatchInv, NEW w \in Workers, NEW size \in 1 .. MaxChunk, Read(w, size)
  PROVE  BatchInv'
<1> DEFINE q == worker[w].query
<1>1. /\ worker[w].pc = "reading" /\ worker[w].pc \in Busy /\ worker[w].error # "unnamed"
      /\ worker[w] \in Hands /\ q \in 1 .. Queries /\ size \in Nat
      /\ worker[w].error \in Errors \cup {"none", "unnamed"}
  BY Hand, Parameters DEF Read, Busy
<1>2. kept \in [1 .. Queries -> 0 .. MaxResponse] /\ consumed \in Nat
  BY DEF BatchInv, TypeOK
<1>3. UNCHANGED <<nextIndex, late, responses, firstError, left, outcome, causes>>
  BY DEF Read, Cancel
<1>4. ASSUME NEW error \in {"too_large", "budget"}, Cancel(w, error), UNCHANGED <<kept, consumed>>
      PROVE  BatchInv'
  <2>1. worker' = [worker EXCEPT ![w] = [pc |-> "failing", query |-> worker[w].query,
                                          error |-> error]]
    BY <1>4 DEF Cancel, Become
  <2>2. error \in Errors
    BY DEF Errors
  <2> QED
    BY <1>1, <1>2, <1>3, <1>4, <2>1, <2>2, GoesOn DEF Busy, Errors
<1>5. ASSUME kept[q] + size <= MaxResponse, consumed' = consumed + size,
             kept' = [kept EXCEPT ![q] = @ + size], UNCHANGED <<worker, causes>>
      PROVE  BatchInv'
  <2>1. kept' \in [1 .. Queries -> 0 .. MaxResponse] /\ consumed' \in Nat
    <3>1. kept[q] \in Nat /\ kept[q] + size \in 0 .. MaxResponse
      BY <1>1, <1>2, <1>5, Parameters
    <3> QED
      BY <1>1, <1>2, <1>5, <3>1
  <2>2. worker' = [worker EXCEPT ![w] = [pc |-> worker[w].pc, query |-> worker[w].query,
                                          error |-> worker[w].error]]
    <3>1. worker[w] = [pc |-> worker[w].pc, query |-> worker[w].query, error |-> worker[w].error]
      BY <1>1 DEF Hands
    <3>2. worker \in [Workers -> Hands]
      BY DEF BatchInv, TypeOK, Hands
    <3> QED
      BY <1>5, <3>1, <3>2
  <2> QED
    BY <1>1, <1>3, <2>1, <2>2, GoesOn
<1>6. kept[q] \in Nat
  BY <1>1, <1>2, Parameters
<1> QED
  BY <1>1, <1>4, <1>5, <1>6, Parameters DEF Read, Spent

\* A call fails with an error that has its name: the first one aborts the batch.
LEMMA FailKeeps ==
  ASSUME BatchInv, NEW w \in Workers, worker[w].pc \in Busy, NEW error \in Errors,
         Fail(w, error), Cause(error),
         UNCHANGED <<nextIndex, kept, consumed, responses, left, outcome>>
  PROVE  BatchInv'
<1>1. /\ Stopped \in Hands /\ Stopped.pc = "stopped" /\ Stopped.error = "none"
      /\ outcome = "none"
  BY Hand, Parameters DEF Stopped, Hands, Busy
<1>2. worker' = [worker EXCEPT ![w] = Stopped] /\ late' = late \ {w}
  BY DEF Fail, Become
<1>3. firstError' # "none" /\ firstError' \in Errors
  BY DEF BatchInv, TypeOK, Fail, First, Errors
<1>4. Aborted'
  BY <1>3 DEF Aborted
<1>5. causes \subseteq causes' /\ causes' \subseteq Errors
  BY DEF BatchInv, TypeOK, Cause
<1>6. Caused'
  <2>1. CASE firstError # "none"
    <3>1. firstError' = firstError /\ left' = left
      BY <2>1 DEF Fail, First
    <3> QED
      BY <2>1, <3>1, <1>5 DEF BatchInv, Caused
  <2>2. CASE firstError = "none"
    <3>1. firstError' = error /\ left' = left
      BY <2>2 DEF Fail, First
    <3>2. error \in causes' \/ (error = "network" /\ left)
      BY <2>2 DEF Cause, Aborted
    <3> QED
      BY <3>1, <3>2 DEF Caused
  <2> QED
    BY <2>1, <2>2
<1>7. /\ nextIndex' \in Nat /\ nextIndex <= nextIndex' /\ responses' \subseteq 1 .. Queries
      /\ kept' \in [1 .. Queries -> 0 .. MaxResponse] /\ consumed' \in Nat
      /\ responses \subseteq responses' /\ left' = left /\ outcome' = "none"
  BY <1>1 DEF BatchInv, TypeOK
<1>8. /\ late' \subseteq late \cup {w} /\ w \notin late'
      /\ firstError' \in Errors \cup {"none"}
  BY <1>2, <1>3
<1>9. /\ Stopped.pc \in Busy => Stopped.query >= 1
      /\ Stopped.pc = "failing" => Stopped.error # "none"
      /\ Stopped.error = "unnamed" => Stopped.pc = "failing"
  BY <1>1 DEF Busy
<1> QED
  BY <1>1, <1>2, <1>4, <1>5, <1>6, <1>7, <1>8, <1>9, MoveKeeps

LEMMA Named ==
  ASSUME NEW w
  PROVE  Name(w) \in Errors
BY DEF Name, Errors

LEMMA RejectsKeeps ==
  ASSUME BatchInv, NEW w \in Workers, Rejects(w)
  PROVE  BatchInv'
<1> USE DEF Rejects
<1>1. CASE worker[w].pc = "fetching" /\ Fail(w, Name(w)) /\ Cause(Name(w))
  BY <1>1, Named, FailKeeps DEF Busy
<1>2. CASE worker[w].pc = "reading" /\ Cancel(w, "unnamed") /\ UNCHANGED <<late, firstError>>
  <2>1. worker[w].pc \in Busy
    BY <1>2 DEF Busy
  <2>2. worker' = [worker EXCEPT ![w] = [pc |-> "failing", query |-> worker[w].query,
                                          error |-> "unnamed"]]
    BY <1>2 DEF Cancel, Become
  <2>3. kept' \in [1 .. Queries -> 0 .. MaxResponse] /\ consumed' \in Nat
    BY DEF BatchInv, TypeOK
  <2> QED
    BY <1>2, <2>1, <2>2, <2>3, GoesOn DEF Cancel, Busy
<1> QED
  BY <1>1, <1>2

LEMMA CancelledKeeps ==
  ASSUME BatchInv, NEW w \in Workers, Cancelled(w)
  PROVE  BatchInv'
<1> DEFINE error == IF worker[w].error = "unnamed" THEN Name(w) ELSE worker[w].error
<1>1. worker[w].pc = "failing" /\ Fail(w, error) /\ Cause(error)
  BY DEF Cancelled
<1>2. error \in Errors
  BY <1>1, Hand, Named
<1>3. UNCHANGED <<nextIndex, kept, consumed, responses, left, outcome>>
  BY DEF Cancelled
<1> HIDE DEF error
<1> QED
  BY <1>1, <1>2, <1>3, FailKeeps DEF Busy

\* The body of an answer ends.
LEMMA EndKeeps ==
  ASSUME BatchInv, NEW w \in Workers, End(w)
  PROVE  BatchInv'
<1>1. worker[w].pc = "reading" /\ worker[w].pc \in Busy
  BY DEF End, Busy
<1>2. CASE Fail(w, "invalid") /\ Cause("invalid") /\ UNCHANGED responses
  <2>1. "invalid" \in Errors
    BY DEF Errors
  <2>2. UNCHANGED <<nextIndex, kept, consumed, responses, left, outcome>>
    BY <1>2 DEF End
  <2> QED
    BY <1>1, <1>2, <2>1, <2>2, FailKeeps
<1>3. CASE /\ responses' = responses \cup {worker[w].query}
           /\ Become(w, Ready) /\ late' = late \ {w} /\ UNCHANGED <<firstError, causes>>
  <2>1. /\ Ready \in Hands /\ Ready.pc = "ready" /\ Ready.error = "none" /\ outcome = "none"
        /\ worker[w].query \in 1 .. Queries
    BY <1>1, Hand, Parameters DEF Ready, Hands
  <2>2. worker' = [worker EXCEPT ![w] = Ready]
    BY <1>3 DEF Become
  <2>3. UNCHANGED <<nextIndex, kept, consumed, left, outcome>>
    BY DEF End
  <2>4. \A q \in 1 .. Queries : q <= nextIndex' =>
          \/ q <= nextIndex /\ worker[w].query # q
          \/ q <= nextIndex /\ worker[w].pc \notin Busy
          \/ q \in responses' \/ Aborted'
          \/ Ready.pc \in Busy /\ Ready.query = q
    BY <1>3, <2>3
  <2>5. /\ responses \subseteq responses' /\ responses' \subseteq 1 .. Queries
        /\ late' \subseteq late \cup {w} /\ w \notin late'
    BY <1>3, <2>1 DEF BatchInv, TypeOK
  <2>8. /\ nextIndex' \in Nat /\ nextIndex <= nextIndex'
        /\ kept' \in [1 .. Queries -> 0 .. MaxResponse] /\ consumed' \in Nat
        /\ left' = left /\ outcome' = "none"
        /\ firstError' \in Errors \cup {"none"} /\ causes \subseteq causes'
        /\ causes' \subseteq Errors
    BY <1>3, <2>1, <2>3 DEF BatchInv, TypeOK
  <2>6. Caused' /\ (Aborted => Aborted')
    BY <1>3, <2>3 DEF BatchInv, Caused, Aborted
  <2>7. /\ Ready.pc \in Busy => Ready.query >= 1
        /\ Ready.pc = "failing" => Ready.error # "none"
        /\ Ready.error = "unnamed" => Ready.pc = "failing"
        /\ Ready.pc = "stopped" => nextIndex' >= Queries \/ Aborted'
    BY <2>1 DEF Busy
  <2> QED
    BY <2>1, <2>2, <2>4, <2>5, <2>6, <2>7, <2>8, MoveKeeps
<1> QED
  BY <1>2, <1>3 DEF End

\* A worker without a query takes the next one, or stops.
LEMMA TakeKeeps ==
  ASSUME BatchInv, NEW w \in Workers, Take(w)
  PROVE  BatchInv'
<1>1. worker[w].pc = "ready" /\ worker[w].pc \notin Busy /\ outcome = "none" /\ w \notin late
  BY Hand DEF Take, Busy
<1>2. UNCHANGED <<late, kept, consumed, responses, firstError, left, outcome, causes>>
  BY DEF Take
<1>3. /\ nextIndex \in Nat /\ responses' \subseteq 1 .. Queries
      /\ kept' \in [1 .. Queries -> 0 .. MaxResponse] /\ consumed' \in Nat
      /\ responses \subseteq responses' /\ left' = left /\ outcome' = "none"
      /\ firstError' \in Errors \cup {"none"} /\ causes \subseteq causes'
      /\ causes' \subseteq Errors /\ late' \subseteq late \cup {w} /\ w \notin late'
  BY <1>1, <1>2 DEF BatchInv, TypeOK
<1>4. Caused' /\ (Aborted' <=> Aborted)
  BY <1>2 DEF BatchInv, Caused, Aborted
<1>5. ASSUME worker' = [worker EXCEPT ![w] = Stopped], nextIndex' \in Nat, nextIndex <= nextIndex',
             \/ nextIndex' = nextIndex /\ Aborted
             \/ nextIndex' = nextIndex + 1 /\ nextIndex' > Queries
      PROVE  BatchInv'
  <2>1. /\ Stopped \in Hands /\ Stopped.pc = "stopped" /\ Stopped.error = "none"
    BY Parameters DEF Stopped, Hands
  <2>2. \A q \in 1 .. Queries : q <= nextIndex' =>
          \/ q <= nextIndex /\ worker[w].query # q
          \/ q <= nextIndex /\ worker[w].pc \notin Busy
          \/ q \in responses' \/ Aborted'
          \/ Stopped.pc \in Busy /\ Stopped.query = q
    BY <1>1, <1>3, <1>4, <1>5, Parameters
  <2>3. /\ Stopped.pc \in Busy => Stopped.query >= 1
        /\ Stopped.pc = "failing" => Stopped.error # "none"
        /\ Stopped.error = "unnamed" => Stopped.pc = "failing"
        /\ nextIndex' >= Queries \/ Aborted'
    BY <1>4, <1>5, <2>1, Parameters DEF Busy
  <2> QED
    BY <1>1, <1>3, <1>4, <1>5, <2>1, <2>2, <2>3, MoveKeeps
<1>6. ASSUME nextIndex' = nextIndex + 1, nextIndex' <= Queries,
             NEW s \in Opening(nextIndex'), worker' = [worker EXCEPT ![w] = s]
      PROVE  BatchInv'
  <2>1. nextIndex' \in 1 .. Queries /\ nextIndex' \in Nat /\ nextIndex <= nextIndex'
    BY <1>3, <1>6, Parameters
  <2>2. PICK pc \in {"fetching", "failing"}, error \in {"none", "input"} :
          /\ s = [pc |-> pc, query |-> nextIndex', error |-> error]
          /\ pc = "failing" => error = "input"
    BY <1>6 DEF Opening
  <2>3. nextIndex' \in 0 .. Queries
    BY <2>1, Parameters
  <2>4. /\ s \in Hands /\ s.pc \in Busy /\ s.query = nextIndex' /\ s.query >= 1
        /\ s.pc = "failing" => s.error # "none"
        /\ s.error # "unnamed" /\ s.pc \notin {"ready", "stopped"}
    BY <2>1, <2>2, <2>3 DEF Hands, Errors, Busy
  <2>5. \A q \in 1 .. Queries : q <= nextIndex' =>
          \/ q <= nextIndex /\ worker[w].query # q
          \/ q <= nextIndex /\ worker[w].pc \notin Busy
          \/ q \in responses' \/ Aborted'
          \/ s.pc \in Busy /\ s.query = q
    BY <1>1, <1>3, <1>6, <2>4, Parameters
  <2> QED
    BY <1>1, <1>3, <1>4, <1>6, <2>1, <2>4, <2>5, MoveKeeps
<1>7. CASE Aborted
  <2>1. worker' = [worker EXCEPT ![w] = Stopped] /\ nextIndex' = nextIndex
    BY <1>7 DEF Take, Become
  <2> QED
    BY <1>3, <1>5, <1>7, <2>1
<1>8. CASE ~ Aborted
  <2>1. nextIndex' = nextIndex + 1
    BY <1>8 DEF Take
  <2>2. nextIndex' \in Nat /\ nextIndex <= nextIndex'
    BY <1>3, <2>1
  <2>3. CASE nextIndex' > Queries
    <3>1. worker' = [worker EXCEPT ![w] = Stopped]
      BY <1>8, <2>3 DEF Take, Become
    <3> QED
      BY <1>5, <2>1, <2>2, <2>3, <3>1
  <2>4. CASE ~ (nextIndex' > Queries)
    <3>1. PICK s \in Opening(nextIndex') : worker' = [worker EXCEPT ![w] = s]
      BY <1>8, <2>4 DEF Take, Become
    <3>2. nextIndex' <= Queries
      BY <2>2, <2>4, Parameters
    <3> QED
      BY <1>6, <2>1, <3>1, <3>2
  <2> QED
    BY <2>3, <2>4
<1> QED
  BY <1>7, <1>8

\* A timer expires: only how a rejection will be named changes.
LEMMA TimeoutKeeps ==
  ASSUME BatchInv, NEW w \in Workers, Timeout(w)
  PROVE  BatchInv'
<1>1. UNCHANGED <<nextIndex, worker, kept, consumed, responses, firstError, left, outcome, causes>>
  BY DEF Timeout
<1>2. worker[w].pc \notin {"ready", "stopped"}
  BY Hand DEF Timeout, Timed
<1>3. TypeOK'
  <2>1. late' \subseteq {v \in Workers : worker'[v].pc \notin {"ready", "stopped"}}
    BY <1>1, <1>2 DEF BatchInv, TypeOK, Timeout
  <2> QED
    BY <1>1, <2>1 DEF BatchInv, TypeOK
<1>4. Held' /\ Employed' /\ Quiet' /\ Caused' /\ WholeOrCause'
  BY <1>1 DEF BatchInv, Held, Employed, Quiet, Caused, WholeOrCause, Aborted
<1> QED
  BY <1>3, <1>4 DEF BatchInv

\* The client goes: the batch is aborted.
LEMMA LeaveKeeps ==
  ASSUME BatchInv, Leave
  PROVE  BatchInv'
<1>1. /\ UNCHANGED <<nextIndex, worker, late, kept, consumed, responses, firstError, outcome, causes>>
      /\ left' = TRUE /\ outcome = "none"
  BY DEF Leave
<1>2. TypeOK'
  BY <1>1 DEF BatchInv, TypeOK
<1>3. Held' /\ Employed' /\ Quiet' /\ Caused' /\ WholeOrCause'
  BY <1>1 DEF BatchInv, Held, Employed, Quiet, Caused, WholeOrCause, Aborted
<1> QED
  BY <1>2, <1>3 DEF BatchInv

\* All workers have stopped. Without an error and with the client there all
\* queries were taken, and none is in anyone's hands: all are answered.
LEMMA FinishKeeps ==
  ASSUME BatchInv, Finish
  PROVE  BatchInv'
<1>1. /\ UNCHANGED <<nextIndex, worker, late, kept, consumed, responses, firstError, left, causes>>
      /\ outcome' = Result /\ \A w \in Workers : worker[w].pc = "stopped"
  BY DEF Finish
<1>2. TypeOK'
  <2>1. Result \in Errors \cup {"none", "answers"}
    BY DEF BatchInv, TypeOK, Result, Errors
  <2> QED
    BY <1>1, <2>1 DEF BatchInv, TypeOK
<1>3. Held' /\ Employed' /\ Quiet' /\ Caused'
  BY <1>1 DEF BatchInv, Held, Employed, Quiet, Caused, Aborted
<1>4. WholeOrCause'
  <2>1. CASE firstError # "none"
    BY <1>1, <2>1 DEF BatchInv, Caused, WholeOrCause, Result
  <2>2. CASE firstError = "none" /\ left
    BY <1>1, <2>2 DEF WholeOrCause, Result
  <2>3. CASE firstError = "none" /\ ~ left
    <3>1. ~ Aborted
      BY <2>3 DEF Aborted
    <3>2. nextIndex >= Queries
      BY <1>1, <3>1, Parameters DEF BatchInv, Employed
    <3>3. ASSUME NEW q \in 1 .. Queries
          PROVE  q \in responses
      <4>1. q <= nextIndex
        BY <3>2, Parameters DEF BatchInv, TypeOK
      <4> QED
        BY <1>1, <3>1, <4>1 DEF BatchInv, Held, Busy
    <3>4. responses = 1 .. Queries
      BY <3>3 DEF BatchInv, TypeOK
    <3> QED
      BY <1>1, <2>3, <3>4 DEF WholeOrCause, Result
  <2> QED
    BY <2>1, <2>2, <2>3 DEF BatchInv, TypeOK
<1> QED
  BY <1>2, <1>3, <1>4 DEF BatchInv

LEMMA StepKeeps == BatchInv /\ [Next]_vars => BatchInv'
<1> SUFFICES ASSUME BatchInv, [Next]_vars PROVE BatchInv'
  OBVIOUS
<1>1. ASSUME NEW w \in Workers,
             \/ Take(w) \/ Respond(w) \/ End(w) \/ Timeout(w) \/ Rejects(w) \/ Cancelled(w)
             \/ \E size \in 1 .. MaxChunk : Read(w, size)
      PROVE  BatchInv'
  BY <1>1, TakeKeeps, RespondKeeps, EndKeeps, TimeoutKeeps, RejectsKeeps, CancelledKeeps, ReadKeeps
<1>2. CASE UNCHANGED vars
  <2>1. TypeOK'
    BY <1>2 DEF BatchInv, TypeOK, vars
  <2>2. Held' /\ Employed' /\ Quiet' /\ Caused' /\ WholeOrCause'
    BY <1>2 DEF BatchInv, Held, Employed, Quiet, Caused, WholeOrCause, Aborted, vars
  <2> QED
    BY <2>1, <2>2 DEF BatchInv
<1> QED
  BY <1>1, <1>2, LeaveKeeps, FinishKeeps DEF Next
-----------------------------------------------------------------------------
\* The invariant of the batch: what is taken is answered, in hand or given up,
\* and its error is one of its own (executeSearchBatch).
THEOREM BatchCorrect == Spec => []BatchInv
<1>1. Init => BatchInv
  BY Initially
<1>2. BatchInv /\ [Next]_vars => BatchInv'
  BY StepKeeps
<1> QED
  BY <1>1, <1>2, PTL DEF Spec

\* Every variable has its type.
THEOREM TypeCorrect == Spec => []TypeOK
<1>1. BatchInv => TypeOK
  BY DEF BatchInv
<1> QED
  BY <1>1, BatchCorrect, PTL

\* A batch is answered whole, or with an error that a query of it has met by
\* itself, or as aborted when the client has gone (executeSearchBatch).
THEOREM Whole == Spec => []WholeOrCause
<1>1. BatchInv => WholeOrCause
  BY DEF BatchInv
<1> QED
  BY <1>1, BatchCorrect, PTL

\* After a failure, or when the client has gone, no further query is sent
\* (executeSearchBatch).
THEOREM NothingMore == Spec => NoneAfterFailure
<1>1. ASSUME [Next]_vars
      PROVE  [firstError # "none" \/ left => nextIndex' = nextIndex]_vars
  <2>1. ASSUME NEW w \in Workers, Take(w), firstError # "none" \/ left
        PROVE  nextIndex' = nextIndex
    BY <2>1 DEF Take, Aborted
  <2>2. ASSUME NEW w \in Workers,
               \/ Respond(w) \/ End(w) \/ Timeout(w) \/ Rejects(w) \/ Cancelled(w)
               \/ \E size \in 1 .. MaxChunk : Read(w, size)
        PROVE  nextIndex' = nextIndex
    BY <2>2 DEF Respond, End, Timeout, Rejects, Cancelled, Read
  <2>3. ASSUME Leave \/ Finish
        PROVE  nextIndex' = nextIndex
    BY <2>3 DEF Leave, Finish
  <2> QED
    BY <1>1, <2>1, <2>2, <2>3 DEF Next
<1> QED
  BY <1>1, PTL DEF Spec, NoneAfterFailure
-----------------------------------------------------------------------------
\* What is kept of all answers together is what the budget has consumed.
Budgeted == SumOf(kept) = consumed /\ consumed <= MaxBatch

LEMMA Answers ==
  ASSUME BatchInv
  PROVE  kept \in Seq(Nat) /\ DOMAIN kept = 1 .. Queries /\ consumed \in Nat
<1>1. kept \in [1 .. Queries -> 0 .. MaxResponse] /\ consumed \in Nat
  BY DEF BatchInv, TypeOK
<1>2. kept \in [1 .. Queries -> Nat]
  BY <1>1
<1> QED
  BY <1>1, <1>2, Parameters

LEMMA BudgetedInitially == Init => Budgeted
<1> SUFFICES ASSUME Init PROVE Budgeted
  OBVIOUS
<1>1. kept = [q \in 1 .. Queries |-> 0] /\ consumed = 0
  BY DEF Init
<1>2. kept \in [1 .. Queries -> Nat]
  BY <1>1
<1>3. kept \in Seq(Nat) /\ \A q \in DOMAIN kept : kept[q] = 0
  BY <1>1, <1>2, Parameters
<1>4. SumOf(kept) = 0
  BY <1>3, SumOfZeros
<1> QED
  BY <1>1, <1>4, Parameters DEF Budgeted

\* A piece is kept when the budget has it; nothing else touches the two.
LEMMA BudgetedStays == BatchInv /\ BatchInv' /\ Budgeted /\ [Next]_vars => Budgeted'
<1> SUFFICES ASSUME BatchInv, BatchInv', Budgeted, [Next]_vars PROVE Budgeted'
  OBVIOUS
<1>1. CASE UNCHANGED <<kept, consumed>>
  BY <1>1 DEF Budgeted
<1>2. ASSUME NEW w \in Workers, NEW size \in 1 .. MaxChunk, Read(w, size)
      PROVE  Budgeted'
  <2> DEFINE q == worker[w].query
  <2>1. CASE UNCHANGED <<kept, consumed>>
    BY <1>1, <2>1
  <2>2. CASE /\ ~ (consumed + size > MaxBatch)
             /\ consumed' = consumed + size
             /\ kept' = [kept EXCEPT ![q] = kept[q] + size]
    <3>1. q \in DOMAIN kept /\ size \in Nat
      BY <1>2, Answers, Hand, Parameters DEF Read, Busy
    <3>2. kept \in Seq(Nat) /\ consumed \in Nat
      BY Answers
    <3>3. kept' \in Seq(Nat)
      <4>1. kept' \in [1 .. Queries -> Nat]
        BY DEF BatchInv, TypeOK
      <4> QED
        BY <4>1, Parameters
    <3> HIDE DEF q
    <3>4. SumOf(kept) \in Nat /\ SumOf(kept') = SumOf(kept) + size
      <4>1. \A i \in DOMAIN kept, d \in Nat, t \in Seq(Nat) :
              t = [kept EXCEPT ![i] = kept[i] + d] =>
                SumOf(kept) \in Nat /\ SumOf(t) = SumOf(kept) + d
        BY <3>2, SumGrows
      <4> QED
        BY <2>2, <3>1, <3>3, <4>1
    <3> QED
      BY <2>2, <3>1, <3>2, <3>4, Parameters DEF Budgeted
  <2> QED
    BY <1>2, <2>1, <2>2 DEF Read, Spent
<1>3. ASSUME NEW w \in Workers,
             Take(w) \/ Respond(w) \/ End(w) \/ Timeout(w) \/ Rejects(w) \/ Cancelled(w)
      PROVE  UNCHANGED <<kept, consumed>>
  BY <1>3 DEF Take, Respond, End, Timeout, Rejects, Cancelled
<1>4. ASSUME Leave \/ Finish \/ UNCHANGED vars
      PROVE  UNCHANGED <<kept, consumed>>
  BY <1>4 DEF Leave, Finish, vars
<1> QED
  BY <1>1, <1>2, <1>3, <1>4 DEF Next

\* What is kept of all answers of a batch together is within its budget, in
\* whatever order their pieces come (consume, readBodyWithinLimit).
THEOREM WithinBudget == Spec => []BudgetHolds
<1>1. Init => BatchInv /\ Budgeted
  BY Initially, BudgetedInitially
<1>2. (BatchInv /\ Budgeted) /\ [Next]_vars => (BatchInv /\ Budgeted)'
  BY StepKeeps, BudgetedStays
<1>3. Budgeted => BudgetHolds
  BY DEF Budgeted, BudgetHolds
<1> QED
  BY <1>1, <1>2, <1>3, PTL DEF Spec
-----------------------------------------------------------------------------
(* The pages of the sessions: SessionPages.tla. *)

\* What a request may be at.
Statuses == {"new", "called", "rejected"} \cup Settled
Moments == [pc : {"idle", "paging", "mapping", "over", "failed"},
            cursor : Digests \cup {0, Finished}, page : Seq(Entries),
            item : Seq(Statuses), listed : Seq(Entries)]

Entry(d) == [digest |-> d, binding |-> row[d]]

In(entry, list) == \E n \in DOMAIN list : list[n] = entry

Ascending(list) == \A m, n \in DOMAIN list : m < n => list[m].digest < list[n].digest

\* Where the pages so far have been.
Behind(cursor, d) == cursor = Finished \/ d <= cursor

\* The answer shows d once the page is done, or it is no longer steady.
Shows(request, d) ==
  \E n \in DOMAIN request.page :
    request.page[n] = Entry(d) /\ request.item[n] \in {"new", "shown"}

Kept ==
  /\ req \in [Requests -> Moments]
  /\ \A r \in Requests : /\ DOMAIN req[r].item = DOMAIN req[r].page
                         /\ Len(req[r].page) <= Limit
  /\ steady \in [Requests -> SUBSET Digests]

Bindings ==
  /\ record \in [Digests -> Nat] /\ row \in [Digests -> Nat]
  /\ issued \in [Digests -> 0 .. MaxBindings]
  /\ \A d \in Digests : record[d] <= issued[d] /\ row[d] <= issued[d]

\* A page begins behind what was listed, and ends at its cursor.
Orderly(r) ==
  LET request == req[r]
  IN /\ Ascending(request.page) /\ Ascending(request.listed)
     /\ \A n \in DOMAIN request.page :
          /\ Behind(request.cursor, request.page[n].digest)
          /\ \A m \in DOMAIN request.listed : request.listed[m].digest < request.page[n].digest
     /\ \A m \in DOMAIN request.listed : Behind(request.cursor, request.listed[m].digest)

\* No page skips a steady session: it is listed, or the page in hand has it, or
\* the cursor has not come to it.
Reached(r) ==
  LET request == req[r]
  IN /\ \A d \in steady[r] : row[d] = record[d] /\ row[d] # 0
     /\ request.pc = "idle" => request = Idle
     /\ request.pc = "paging" => request.cursor # Finished
     /\ request.pc = "over" => request.cursor = Finished
     /\ request.pc \in {"paging", "mapping", "over"} =>
          \A d \in steady[r] : Behind(request.cursor, d) =>
            In(Entry(d), request.listed) \/ (request.pc = "mapping" /\ Shows(request, d))

\* A clear shows nothing.
Silent(r) ==
  r \in Clears => req[r].listed = <<>> /\ \A n \in DOMAIN req[r].item : req[r].item[n] # "shown"

PagesInv ==
  /\ Bindings
  /\ Kept
  /\ \A r \in Requests : Orderly(r) /\ Reached(r) /\ Silent(r)

\* The steps of others leave a request where it is, and its steady sessions be.
Watched(r) ==
  /\ steady'[r] \subseteq steady[r]
  /\ \A d \in steady'[r] : row'[d] = row[d] /\ record'[d] = record[d]
-----------------------------------------------------------------------------
\* The rows that are asked for, in their order.
LEMMA SortedRows ==
  ASSUME NEW rows \in SUBSET Digests
  PROVE  LET sorted == Sorted(rows)
         IN /\ sorted \in Seq(Digests)
            /\ \A n \in DOMAIN sorted : sorted[n] \in rows
            /\ \A m, n \in DOMAIN sorted : m < n => sorted[m] < sorted[n]
            /\ \A d \in rows : \E n \in DOMAIN sorted : sorted[n] = d
<1> DEFINE s == [d \in Digests |-> d]
           sorted == Filter(s, rows)
<1>1. Sessions \in Nat /\ Digests = 1 .. Sessions
  BY SessionPagesAssumption DEF Digests
<1>2. s \in Seq(Digests) /\ DOMAIN s = Digests /\ \A d \in Digests : s[d] = d
  BY <1>1
<1> HIDE DEF s
<1>3. /\ sorted \in Seq(Digests)
      /\ \E at \in [DOMAIN sorted -> rows \cap DOMAIN s] :
           /\ \A n \in DOMAIN sorted : sorted[n] = s[at[n]]
           /\ \A m, n \in DOMAIN sorted : m < n => at[m] < at[n]
           /\ \A i \in rows \cap DOMAIN s : \E n \in DOMAIN sorted : at[n] = i
  BY <1>2, FilterKeeps
<1> HIDE DEF sorted
<1>4. PICK at \in [DOMAIN sorted -> rows \cap DOMAIN s] :
           /\ \A n \in DOMAIN sorted : sorted[n] = s[at[n]]
           /\ \A m, n \in DOMAIN sorted : m < n => at[m] < at[n]
           /\ \A i \in rows \cap DOMAIN s : \E n \in DOMAIN sorted : at[n] = i
  BY <1>3
<1>5. \A n \in DOMAIN sorted : sorted[n] = at[n] /\ at[n] \in rows
  BY <1>2, <1>4
<1>6. rows \cap DOMAIN s = rows
  BY <1>2
<1>7. \A d \in rows : \E n \in DOMAIN sorted : sorted[n] = d
  BY <1>4, <1>5, <1>6
<1>8. \A m, n \in DOMAIN sorted : m < n => sorted[m] < sorted[n]
  BY <1>4, <1>5
<1> QED
  BY <1>3, <1>5, <1>7, <1>8 DEF Sorted, sorted, s

\* What a page holds: the first of the rows behind the cursor, and the next
\* cursor is the last of them if there are more (listPage).
LEMMA PageOf ==
  ASSUME Bindings, NEW cursor \in Digests \cup {0}
  PROVE  LET page == Page(cursor)
             next == NextCursor(cursor)
         IN /\ page \in Seq(Entries) /\ Len(page) <= Limit
            /\ next \in Digests \cup {Finished} /\ (next # Finished => next > cursor)
            /\ Ascending(page)
            /\ \A n \in DOMAIN page : page[n].digest > cursor /\ Behind(next, page[n].digest)
            /\ \A d \in Digests : row[d] # 0 /\ d > cursor /\ Behind(next, d) => In(Entry(d), page)
<1> DEFINE rows == Rows(cursor)
           sorted == Sorted(rows)
           m == IF Len(sorted) <= Limit THEN Len(sorted) ELSE Limit
           page == [n \in 1 .. m |-> Entry(sorted[n])]
           next == IF Len(sorted) > Limit THEN sorted[Limit] ELSE Finished
<1>1. Limit \in Nat /\ Limit > 0 /\ Sessions \in Nat /\ Digests = 1 .. Sessions
  BY SessionPagesAssumption DEF Digests
<1>2. rows \in SUBSET Digests /\ \A d \in Digests : d \in rows <=> row[d] # 0 /\ d > cursor
  BY DEF Rows
<1> HIDE DEF rows
<1>3. /\ sorted \in Seq(Digests)
      /\ \A n \in DOMAIN sorted : sorted[n] \in rows
      /\ \A k, n \in DOMAIN sorted : k < n => sorted[k] < sorted[n]
      /\ \A d \in rows : \E n \in DOMAIN sorted : sorted[n] = d
  BY <1>2, SortedRows
<1> HIDE DEF sorted
<1>4. Len(sorted) \in Nat /\ DOMAIN sorted = 1 .. Len(sorted)
  BY <1>3
<1>5. /\ m \in Nat /\ m <= Limit /\ m <= Len(sorted)
      /\ {k \in DOMAIN sorted : k <= Limit} = 1 .. m
      /\ Len(sorted) > Limit => m = Limit /\ Limit \in DOMAIN sorted
      /\ Len(sorted) <= Limit => m = Len(sorted)
  <2>1. PICK k \in Nat : k = Len(sorted) /\ DOMAIN sorted = 1 .. k
    BY <1>4
  <2>2. m = IF k <= Limit THEN k ELSE Limit
    BY <2>1
  <2> HIDE DEF m
  <2>3. /\ m \in Nat /\ m <= Limit /\ m <= k
        /\ k > Limit => m = Limit /\ Limit \in 1 .. k
        /\ k <= Limit => m = k
    BY <1>1, <2>1, <2>2
  <2>4. {i \in DOMAIN sorted : i <= Limit} = 1 .. m
    BY <1>1, <2>1, <2>2
  <2> QED
    BY <2>1, <2>3, <2>4
<1>6. Page(cursor) = page /\ NextCursor(cursor) = next
  BY <1>5 DEF Page, NextCursor, Entry, sorted, rows
<1> HIDE DEF m
<1>7. \A n \in 1 .. m : n \in DOMAIN sorted /\ sorted[n] \in rows /\ sorted[n] \in Digests
  BY <1>2, <1>3, <1>4, <1>5
<1>8. \A n \in 1 .. m : Entry(sorted[n]) \in Entries /\ Entry(sorted[n]).digest = sorted[n]
  BY <1>2, <1>7 DEF Entry, Entries, Bindings
<1>9. page \in Seq(Entries) /\ Len(page) = m /\ DOMAIN page = 1 .. m
      /\ \A n \in 1 .. m : page[n] = Entry(sorted[n]) /\ page[n].digest = sorted[n]
  BY <1>5, <1>8
<1> HIDE DEF page
<1>10. next \in Digests \cup {Finished} /\ (next # Finished => next > cursor)
  BY <1>2, <1>3, <1>5
<1>11. Ascending(page)
  BY <1>3, <1>7, <1>9 DEF Ascending
<1>12. ASSUME NEW n \in DOMAIN page PROVE page[n].digest > cursor /\ Behind(next, page[n].digest)
  <2>1. n \in 1 .. m /\ page[n].digest = sorted[n] /\ n \in DOMAIN sorted
    BY <1>7, <1>9
  <2>2. sorted[n] > cursor
    BY <1>2, <1>7, <2>1
  <2>3. CASE Len(sorted) > Limit
    <3>1. n = Limit \/ n < Limit
      BY <1>1, <1>5, <2>1
    <3>2. sorted[n] <= sorted[Limit]
      BY <1>1, <1>3, <1>5, <2>1, <2>3, <3>1
    <3> QED
      BY <2>1, <2>2, <2>3, <3>2 DEF Behind
  <2>4. CASE ~ (Len(sorted) > Limit)
    BY <2>1, <2>2, <2>4 DEF Behind
  <2> QED
    BY <2>3, <2>4
<1>13. ASSUME NEW d \in Digests, row[d] # 0, d > cursor, Behind(next, d)
       PROVE  In(Entry(d), page)
  <2>1. PICK n \in DOMAIN sorted : sorted[n] = d
    BY <1>2, <1>3, <1>13
  <2>2. n \in Nat /\ n >= 1 /\ n <= Len(sorted)
    BY <1>4
  <2>3. n \in 1 .. m
    <3>1. CASE Len(sorted) <= Limit
      BY <1>5, <2>2, <3>1
    <3>2. CASE Len(sorted) > Limit
      <4>1. sorted[Limit] \in Digests /\ next = sorted[Limit] /\ Limit \in DOMAIN sorted
        BY <1>2, <1>3, <1>5, <3>2
      <4>2. d <= sorted[Limit]
        BY <1>1, <1>13, <4>1 DEF Behind, Finished
      <4>3. ~ (Limit < n)
        BY <1>1, <1>3, <2>1, <4>1, <4>2
      <4> QED
        BY <1>1, <1>5, <2>2, <3>2, <4>3
    <3> QED
      BY <1>1, <1>4, <3>1, <3>2
  <2> QED
    BY <1>9, <2>1, <2>3 DEF In
<1> QED
  BY <1>5, <1>6, <1>9, <1>10, <1>11, <1>12, <1>13
-----------------------------------------------------------------------------
\* What leaves a request alone leaves what is known of it.
LEMMA OthersKeep ==
  ASSUME NEW r \in Requests, Orderly(r), Reached(r), Silent(r),
         req'[r] = req[r], Watched(r)
  PROVE  Orderly(r)' /\ Reached(r)' /\ Silent(r)'
<1>1. Orderly(r)'
  BY DEF Orderly
<1>2. Silent(r)'
  BY DEF Silent
<1>3. \A d \in steady'[r] : d \in steady[r] /\ Entry(d)' = Entry(d)
  BY DEF Watched, Entry
<1>4. \A d \in steady'[r] : Shows(req[r], d) => Shows(req[r], d)'
  BY <1>3 DEF Shows
<1>5. Reached(r)'
  BY <1>3, <1>4 DEF Reached, Watched
<1> QED
  BY <1>1, <1>2, <1>5

\* A request that moves leaves the others alone.
LEMMA OneKeeps ==
  ASSUME PagesInv, NEW r \in Requests,
         \A q \in Requests \ {r} : req'[q] = req[q] /\ Watched(q),
         Bindings', Kept', Orderly(r)' /\ Reached(r)' /\ Silent(r)'
  PROVE  PagesInv'
<1>1. ASSUME NEW q \in Requests PROVE Orderly(q)' /\ Reached(q)' /\ Silent(q)'
  <2>1. CASE q = r
    BY <2>1
  <2>2. CASE q # r
    BY <2>2, OthersKeep DEF PagesInv
  <2> QED
    BY <2>1, <2>2
<1> QED
  BY <1>1 DEF PagesInv

LEMMA StillWatched ==
  ASSUME PagesInv, UNCHANGED <<sessions, steady>>, NEW q \in Requests
  PROVE  Watched(q)
BY DEF Watched, sessions

LEMMA WatchWatches ==
  ASSUME Watch, NEW q \in Requests
  PROVE  Watched(q) /\ steady'[q] \subseteq steady[q]
BY DEF Watch, Watched, Unchanged

LEMMA WatchTyped ==
  ASSUME PagesInv, Watch
  PROVE  steady' \in [Requests -> SUBSET Digests]
<1>1. \A q \in Requests : Unchanged(q) \in SUBSET Digests
  BY DEF Unchanged, PagesInv, Kept
<1> QED
  BY <1>1 DEF Watch

LEMMA Digested ==
  ASSUME NEW entries \in Seq(Entries), NEW n \in DOMAIN entries
  PROVE  entries[n] \in Entries /\ entries[n].digest \in Digests
<1>1. entries[n] \in Entries
  OBVIOUS
<1> QED
  BY <1>1 DEF Entries

LEMMA BeginKeeps ==
  ASSUME PagesInv, NEW r \in Requests, Begin(r)
  PROVE  PagesInv'
<1>1. /\ req \in [Requests -> Moments] /\ steady \in [Requests -> SUBSET Digests]
      /\ req[r] = Idle /\ UNCHANGED sessions
  BY DEF Begin, PagesInv, Kept, Reached
<1>2. 0 \in Digests \cup {0, Finished} /\ 0 # Finished
  BY DEF Finished
<1> DEFINE paging == [pc |-> "paging", cursor |-> 0, page |-> <<>>, item |-> <<>>, listed |-> <<>>]
           bound == {d \in Digests : record[d] # 0 /\ row[d] = record[d]}
<1>3. [req[r] EXCEPT !.pc = "paging"] = paging /\ paging \in Moments
  BY <1>1, <1>2 DEF Idle, Moments
<1>4. req' = [req EXCEPT ![r] = paging] /\ steady' = [steady EXCEPT ![r] = bound]
  BY <1>3 DEF Begin
<1>5. req'[r] = paging /\ steady'[r] = bound
      /\ \A q \in Requests \ {r} : req'[q] = req[q] /\ steady'[q] = steady[q]
  BY <1>1, <1>4
<1>6. Kept'
  <2>1. bound \in SUBSET Digests
    OBVIOUS
  <2>2. req' \in [Requests -> Moments] /\ steady' \in [Requests -> SUBSET Digests]
    BY <1>1, <1>3, <1>4, <2>1
  <2>3. DOMAIN paging.item = DOMAIN paging.page /\ Len(paging.page) <= Limit
    BY SessionPagesAssumption
  <2>4. \A q \in Requests : DOMAIN req'[q].item = DOMAIN req'[q].page /\ Len(req'[q].page) <= Limit
    <3> HIDE DEF paging
    <3> QED
      BY <1>5, <2>3 DEF PagesInv, Kept
  <2> QED
    BY <2>2, <2>4 DEF Kept
<1>7. Bindings'
  BY <1>1 DEF Bindings, PagesInv, sessions
<1>8. \A q \in Requests \ {r} : req'[q] = req[q] /\ Watched(q)
  BY <1>1, <1>5 DEF Watched, sessions
<1>9. Orderly(r)' /\ Silent(r)'
  BY <1>5 DEF Orderly, Silent, Ascending
<1>10. Reached(r)'
  <2>1. \A d \in bound : row'[d] = record'[d] /\ row'[d] # 0 /\ ~ Behind(0, d)
    <3>1. \A d \in Digests : ~ Behind(0, d)
      BY SessionPagesAssumption DEF Behind, Digests, Finished
    <3> QED
      BY <1>1, <3>1 DEF sessions
  <2> HIDE DEF bound
  <2> QED
    BY <1>2, <1>5, <2>1 DEF Reached
<1> QED
  BY <1>6, <1>7, <1>8, <1>9, <1>10, OneKeeps

LEMMA ListPageKeeps ==
  ASSUME PagesInv, NEW r \in Requests, ListPage(r)
  PROVE  PagesInv'
<1>1. /\ req \in [Requests -> Moments] /\ req[r] \in Moments /\ req[r].pc = "paging"
      /\ Orderly(r) /\ Reached(r) /\ Silent(r) /\ UNCHANGED <<sessions, steady>>
  BY DEF ListPage, PagesInv, Kept
<1>2. Bindings'
  BY <1>1 DEF Bindings, PagesInv, sessions
<1>3. \A q \in Requests : Watched(q)
  BY <1>1, StillWatched
<1>4. CASE Faults /\ req' = [req EXCEPT ![r].pc = "failed"]
  <2> DEFINE failed == [req[r] EXCEPT !.pc = "failed"]
  <2>1. /\ failed \in Moments /\ failed.pc = "failed" /\ failed.page = req[r].page
        /\ failed.item = req[r].item /\ failed.listed = req[r].listed
        /\ failed.cursor = req[r].cursor
    BY <1>1 DEF Moments
  <2>2. req' = [req EXCEPT ![r] = failed]
    BY <1>4
  <2> HIDE DEF failed
  <2>3. req' \in [Requests -> Moments] /\ req'[r] = failed
        /\ \A q \in Requests \ {r} : req'[q] = req[q]
    BY <1>1, <2>1, <2>2
  <2>4. Kept'
    BY <1>1, <2>1, <2>3 DEF Kept, PagesInv
  <2>5. Orderly(r)' /\ Silent(r)'
    BY <1>1, <2>1, <2>3 DEF Orderly, Silent
  <2>6. Reached(r)'
    BY <1>1, <2>1, <2>3 DEF Reached, sessions
  <2> QED
    BY <1>2, <1>3, <2>3, <2>4, <2>5, <2>6, OneKeeps
<1>5. CASE ~ (Faults /\ req' = [req EXCEPT ![r].pc = "failed"])
  <2> DEFINE cursor == req[r].cursor
             page == Page(cursor)
             next == NextCursor(cursor)
             item == [n \in DOMAIN page |-> "new"]
             mapping == [pc |-> "mapping", cursor |-> next, page |-> page, item |-> item,
                         listed |-> req[r].listed]
  <2>1. cursor \in Digests \cup {0}
    BY <1>1 DEF Moments, Reached
  <2>2. req' = [req EXCEPT ![r] = mapping]
    BY <1>5 DEF ListPage
  <2>3. /\ page \in Seq(Entries) /\ Len(page) <= Limit
        /\ next \in Digests \cup {Finished} /\ (next # Finished => next > cursor)
        /\ Ascending(page)
        /\ \A n \in DOMAIN page : page[n].digest > cursor /\ Behind(next, page[n].digest)
        /\ \A d \in Digests : row[d] # 0 /\ d > cursor /\ Behind(next, d) => In(Entry(d), page)
    BY <2>1, PageOf DEF PagesInv
  <2> HIDE DEF page, next
  <2>4. item \in Seq(Statuses) /\ DOMAIN item = DOMAIN page /\ \A n \in DOMAIN item : item[n] = "new"
    BY <2>3 DEF Statuses
  <2> HIDE DEF item
  <2>5. /\ mapping \in Moments /\ mapping.pc = "mapping" /\ mapping.page = page
        /\ mapping.item = item /\ mapping.listed = req[r].listed /\ mapping.cursor = next
    BY <1>1, <2>3, <2>4 DEF Moments
  <2> HIDE DEF mapping
  <2>6. req' \in [Requests -> Moments] /\ req'[r] = mapping
        /\ \A q \in Requests \ {r} : req'[q] = req[q]
    BY <1>1, <2>2, <2>5
  <2>7. Kept'
    BY <1>1, <2>3, <2>4, <2>5, <2>6 DEF Kept, PagesInv
  <2>8. Silent(r)'
    BY <1>1, <2>4, <2>5, <2>6 DEF Silent
  <2>9. ASSUME NEW m \in DOMAIN req[r].listed
        PROVE  /\ Behind(next, req[r].listed[m].digest)
               /\ \A n \in DOMAIN page : req[r].listed[m].digest < page[n].digest
    <3>1. req[r].listed[m].digest <= cursor /\ req[r].listed[m].digest \in Digests
      <4>1. req[r].listed \in Seq(Entries)
        BY <1>1 DEF Moments
      <4>2. Behind(cursor, req[r].listed[m].digest) /\ cursor # Finished
        BY <1>1 DEF Orderly, Reached
      <4> QED
        BY <4>1, <4>2, Digested DEF Behind
    <3>2. next = Finished \/ next >= req[r].listed[m].digest
      BY <2>1, <2>3, <3>1, SessionPagesAssumption DEF Digests
    <3>3. \A n \in DOMAIN page : page[n].digest \in Digests
      BY <2>3, Digested
    <3> QED
      BY <2>1, <2>3, <3>1, <3>2, <3>3, SessionPagesAssumption DEF Behind, Digests
  <2>10. Orderly(r)'
    BY <1>1, <2>3, <2>5, <2>6, <2>9 DEF Orderly
  <2>11. ASSUME NEW d \in steady[r], Behind(next, d)
         PROVE  In(Entry(d), req[r].listed) \/ In(Entry(d), page)
    <3>1. d \in Digests /\ row[d] # 0
      BY <1>1 DEF Reached, PagesInv, Kept
    <3>2. CASE Behind(cursor, d)
      BY <1>1, <3>2 DEF Reached
    <3>3. CASE d > cursor
      BY <2>3, <2>11, <3>1, <3>3
    <3> QED
      BY <2>1, <3>1, <3>2, <3>3, SessionPagesAssumption DEF Behind, Digests
  <2>12. Reached(r)'
    <3>1. \A d \in steady[r] : Entry(d)' = Entry(d)
      BY <1>1 DEF Entry, sessions
    <3>2. \A d \in steady[r] : In(Entry(d), page) => Shows(req[r], d)'
      BY <2>4, <2>5, <2>6, <3>1 DEF Shows, In
    <3> QED
      BY <1>1, <2>5, <2>6, <2>11, <3>1, <3>2 DEF Reached, sessions
  <2> QED
    BY <1>2, <1>3, <2>6, <2>7, <2>8, <2>10, <2>12, OneKeeps
<1> QED
  BY <1>4, <1>5

\* What becomes of a request whose entry n is at s.
LEMMA MovedTo ==
  ASSUME PagesInv, NEW r \in Requests, NEW n \in DOMAIN req[r].item, NEW s \in Statuses,
         req' = Moved(r, n, s)
  PROVE  /\ req' \in [Requests -> Moments]
         /\ \A q \in Requests \ {r} : req'[q] = req[q]
         /\ req'[r].page = req[r].page /\ req'[r].cursor = req[r].cursor
         /\ req'[r].listed = req[r].listed
         /\ DOMAIN req'[r].item = DOMAIN req[r].item /\ req'[r].item[n] = s
         /\ \A k \in DOMAIN req[r].item \ {n} : req'[r].item[k] = req[r].item[k]
         /\ req'[r].pc \in {req[r].pc, "failed"}
         /\ s = "rejected" => req'[r].pc = "failed"
<1> DEFINE item == [req[r].item EXCEPT ![n] = s]
           pc == IF s = "rejected" THEN "failed" ELSE req[r].pc
           moved == [req[r] EXCEPT !.item = item, !.pc = pc]
<1>1. req \in [Requests -> Moments] /\ req[r] \in Moments
  BY DEF PagesInv, Kept
<1>2. req' = [req EXCEPT ![r] = moved]
  BY DEF Moved
<1>3. req[r].item \in Seq(Statuses)
  BY <1>1 DEF Moments
<1>4. /\ item \in Seq(Statuses) /\ DOMAIN item = DOMAIN req[r].item /\ item[n] = s
      /\ \A k \in DOMAIN req[r].item \ {n} : item[k] = req[r].item[k]
  BY <1>3
<1>5. pc \in {req[r].pc, "failed"} /\ (s = "rejected" => pc = "failed")
  OBVIOUS
<1> HIDE DEF item, pc
<1>6. /\ moved \in Moments /\ moved.item = item /\ moved.pc = pc
      /\ moved.page = req[r].page /\ moved.cursor = req[r].cursor
      /\ moved.listed = req[r].listed
  BY <1>1, <1>4, <1>5 DEF Moments
<1> HIDE DEF moved
<1>7. req' \in [Requests -> Moments] /\ req'[r] = moved
      /\ \A q \in Requests \ {r} : req'[q] = req[q]
  BY <1>1, <1>2, <1>6
<1> QED
  BY <1>4, <1>5, <1>6, <1>7

\* An entry that moves on shows what is steady, or the request has failed.
LEMMA MovedKeeps ==
  ASSUME PagesInv, NEW r \in Requests, NEW n \in DOMAIN req[r].item, NEW s \in Statuses,
         req' = Moved(r, n, s), Bindings', steady' \in [Requests -> SUBSET Digests],
         \A q \in Requests : Watched(q),
         r \in Clears => s # "shown",
         \A d \in steady'[r] :
           req[r].page[n] = Entry(d) /\ req[r].item[n] \in {"new", "shown"}
             => s \in {"shown", "rejected"}
  PROVE  PagesInv'
<1>1. /\ req' \in [Requests -> Moments]
      /\ \A q \in Requests \ {r} : req'[q] = req[q]
      /\ req'[r].page = req[r].page /\ req'[r].cursor = req[r].cursor
      /\ req'[r].listed = req[r].listed
      /\ DOMAIN req'[r].item = DOMAIN req[r].item /\ req'[r].item[n] = s
      /\ \A k \in DOMAIN req[r].item \ {n} : req'[r].item[k] = req[r].item[k]
      /\ req'[r].pc \in {req[r].pc, "failed"}
      /\ s = "rejected" => req'[r].pc = "failed"
  BY MovedTo
<1>2. Orderly(r) /\ Reached(r) /\ Silent(r) /\ Watched(r) /\ DOMAIN req[r].item = DOMAIN req[r].page
  BY DEF PagesInv, Kept
<1>3. Kept'
  BY <1>1 DEF Kept, PagesInv
<1>4. Orderly(r)'
  BY <1>1, <1>2 DEF Orderly
<1>5. Silent(r)'
  BY <1>1, <1>2 DEF Silent
<1>6. req[r].pc # "idle"
  BY <1>2 DEF Reached, Idle
<1>7. \A d \in steady'[r] : Entry(d)' = Entry(d) /\ d \in steady[r]
  BY <1>2 DEF Watched, Entry
<1>8. ASSUME NEW d \in steady'[r], Shows(req[r], d), s # "rejected" PROVE Shows(req[r], d)'
  <2>1. PICK k \in DOMAIN req[r].page : req[r].page[k] = Entry(d) /\ req[r].item[k] \in {"new", "shown"}
    BY <1>8 DEF Shows
  <2>2. req'[r].item[k] \in {"new", "shown"}
    BY <1>1, <1>2, <1>8, <2>1
  <2> QED
    BY <1>1, <1>7, <2>1, <2>2 DEF Shows
<1>9. Reached(r)'
  BY <1>1, <1>2, <1>6, <1>7, <1>8 DEF Reached, Watched
<1> QED
  BY <1>1, <1>3, <1>4, <1>5, <1>9, OneKeeps

LEMMA EntryKeeps ==
  ASSUME PagesInv, NEW r \in Requests, NEW n \in DOMAIN req[r].item,
         ClearEntry(r, n) \/ GetStatus(r, n) \/ RemoveRow(r, n)
  PROVE  PagesInv'
<1> DEFINE entry == req[r].page[n]
<1>1. entry \in Entries /\ entry.digest \in Digests /\ Bindings /\ Reached(r)
  <2>1. req[r].page \in Seq(Entries) /\ n \in DOMAIN req[r].page
    BY DEF PagesInv, Kept, Moments
  <2> QED
    BY <2>1, Digested DEF PagesInv
<1>2. ASSUME NEW d \in steady[r], entry = Entry(d)
      PROVE  entry.digest = d /\ entry.binding = record[d] /\ record[d] # 0
  BY <1>1, <1>2 DEF Reached, Entry
<1>3. r \in Clears => r \notin Lists
  BY SessionPagesAssumption
<1>4. CASE ClearEntry(r, n)
  <2>1. PICK s \in {"called", "rejected"} :
          /\ req' = Moved(r, n, s)
          /\ s = "called" =>
               record' = IF record[entry.digest] = entry.binding
                         THEN [record EXCEPT ![entry.digest] = 0] ELSE record
    BY <1>4 DEF ClearEntry, Outcome, Rejected
  <2>2. Watch /\ UNCHANGED <<row, issued>>
        /\ record' \in {record, [record EXCEPT ![entry.digest] = 0]}
    BY <1>4 DEF ClearEntry
  <2>3. Bindings'
    <3>1. record' \in [Digests -> Nat] /\ \A d \in Digests : record'[d] \in {0, record[d]}
      BY <1>1, <2>2 DEF Bindings
    <3>2. \A d \in Digests : issued[d] \in Nat
      BY <1>1, SessionPagesAssumption DEF Bindings
    <3> QED
      BY <1>1, <2>2, <3>1, <3>2 DEF Bindings
  <2>4. ASSUME NEW d \in steady'[r], entry = Entry(d) PROVE s = "rejected"
    <3>1. d \in steady[r] /\ record'[d] = record[d]
      BY <2>2, WatchWatches DEF Watched
    <3>2. entry.digest = d /\ entry.binding = record[d] /\ record[d] # 0 /\ record[d] = record[entry.digest]
      BY <1>2, <2>4, <3>1
    <3>3. s = "called" => record'[d] = 0
      <4>1. s = "called" => record' = [record EXCEPT ![entry.digest] = 0]
        BY <2>1, <3>2
      <4>2. record \in [Digests -> Nat] /\ d \in Digests /\ entry.digest = d
        BY <1>1, <3>2 DEF Bindings
      <4> QED
        BY <4>1, <4>2
    <3> QED
      BY <3>1, <3>2, <3>3
  <2>5. steady' \in [Requests -> SUBSET Digests] /\ \A q \in Requests : Watched(q)
    BY <2>2, WatchTyped, WatchWatches
  <2>6. s \in Statuses /\ s # "shown"
    BY DEF Statuses
  <2> QED
    BY <2>1, <2>3, <2>4, <2>5, <2>6, MovedKeeps
<1>5. CASE GetStatus(r, n)
  <2>1. PICK s \in {"called", "shown", "rejected"} :
          /\ req' = Moved(r, n, s)
          /\ record[entry.digest] = entry.binding => s \in {"shown", "rejected"}
    BY <1>5 DEF GetStatus, Outcome, Rejected
  <2>2. UNCHANGED <<sessions, steady>> /\ r \in Lists
    BY <1>5 DEF GetStatus
  <2>3. Bindings'
    BY <1>1, <2>2 DEF Bindings, sessions
  <2>4. ASSUME NEW d \in steady'[r], entry = Entry(d) PROVE s \in {"shown", "rejected"}
    BY <1>2, <2>1, <2>2, <2>4
  <2>5. steady' \in [Requests -> SUBSET Digests] /\ \A q \in Requests : Watched(q)
    BY <2>2, StillWatched DEF PagesInv, Kept
  <2>6. s \in Statuses
    BY DEF Statuses, Settled
  <2> QED
    BY <1>3, <2>1, <2>2, <2>3, <2>4, <2>5, <2>6, MovedKeeps
<1>6. CASE RemoveRow(r, n)
  <2>1. PICK s \in {"done", "rejected"} : req' = Moved(r, n, s)
    BY <1>6 DEF RemoveRow, Outcome, Rejected
  <2>2. Watch /\ UNCHANGED <<record, issued>> /\ req[r].item[n] = "called"
        /\ row' \in {row, [row EXCEPT ![entry.digest] = 0]}
    BY <1>6 DEF RemoveRow
  <2>3. Bindings'
    <3>1. row' \in [Digests -> Nat] /\ \A d \in Digests : row'[d] \in {0, row[d]}
      BY <1>1, <2>2 DEF Bindings
    <3>2. \A d \in Digests : issued[d] \in Nat
      BY <1>1, SessionPagesAssumption DEF Bindings
    <3> QED
      BY <1>1, <2>2, <3>1, <3>2 DEF Bindings
  <2>5. steady' \in [Requests -> SUBSET Digests] /\ \A q \in Requests : Watched(q)
    BY <2>2, WatchTyped, WatchWatches
  <2>6. s \in Statuses /\ s # "shown"
    BY DEF Statuses, Settled
  <2> QED
    BY <2>1, <2>2, <2>3, <2>5, <2>6, MovedKeeps
<1> QED
  BY <1>4, <1>5, <1>6

\* The page is done: what it shows is listed, and all that is steady up to the
\* cursor is shown.
LEMMA TurnKeeps ==
  ASSUME PagesInv, NEW r \in Requests, Turn(r)
  PROVE  PagesInv'
<1> DEFINE shown == Shown(req[r])
           page == req[r].page
           item == req[r].item
           old == req[r].listed
           cursor == req[r].cursor
           pc == IF cursor = Finished THEN "over" ELSE "paging"
           listed == old \o shown
           turned == [pc |-> pc, cursor |-> cursor, page |-> <<>>, item |-> <<>>,
                      listed |-> listed]
<1>1. /\ req \in [Requests -> Moments] /\ req[r] \in Moments /\ req[r].pc = "mapping"
      /\ Orderly(r) /\ Reached(r) /\ Silent(r) /\ UNCHANGED <<sessions, steady>>
      /\ DOMAIN item = DOMAIN page /\ \A n \in DOMAIN item : item[n] \in Settled
      /\ req' = [req EXCEPT ![r] = turned]
  BY DEF Turn, PagesInv, Kept
<1>2. /\ page \in Seq(Entries) /\ old \in Seq(Entries)
      /\ cursor \in Digests \cup {0, Finished}
  BY <1>1 DEF Moments
<1>3. /\ shown \in Seq(Entries)
      /\ \E at \in [DOMAIN shown -> {n \in DOMAIN page : item[n] = "shown"} \cap DOMAIN page] :
           /\ \A n \in DOMAIN shown : shown[n] = page[at[n]]
           /\ \A m, n \in DOMAIN shown : m < n => at[m] < at[n]
           /\ \A i \in {n \in DOMAIN page : item[n] = "shown"} \cap DOMAIN page :
                \E n \in DOMAIN shown : at[n] = i
  <2> DEFINE positions == {n \in DOMAIN page : item[n] = "shown"}
  <2>1. shown = Filter(page, positions)
    BY DEF Shown
  <2> HIDE DEF positions, shown, page
  <2>2. /\ shown \in Seq(Entries)
        /\ \E at \in [DOMAIN shown -> positions \cap DOMAIN page] :
             /\ \A n \in DOMAIN shown : shown[n] = page[at[n]]
             /\ \A m, n \in DOMAIN shown : m < n => at[m] < at[n]
             /\ \A i \in positions \cap DOMAIN page : \E n \in DOMAIN shown : at[n] = i
    BY <1>2, <2>1, FilterKeeps
  <2> QED
    BY <2>2 DEF positions, page
<1> HIDE DEF shown
<1>4. /\ \A n \in DOMAIN shown : \E i \in DOMAIN page : item[i] = "shown" /\ shown[n] = page[i]
      /\ Ascending(shown)
      /\ \A i \in DOMAIN page : item[i] = "shown" => In(page[i], shown)
  <2>1. PICK at \in [DOMAIN shown -> {n \in DOMAIN page : item[n] = "shown"} \cap DOMAIN page] :
           /\ \A n \in DOMAIN shown : shown[n] = page[at[n]]
           /\ \A m, n \in DOMAIN shown : m < n => at[m] < at[n]
           /\ \A i \in {n \in DOMAIN page : item[n] = "shown"} \cap DOMAIN page :
                \E n \in DOMAIN shown : at[n] = i
    BY <1>3
  <2>2. \A n \in DOMAIN shown : at[n] \in DOMAIN page /\ item[at[n]] = "shown" /\ shown[n] = page[at[n]]
    BY <2>1
  <2>3. Ascending(shown)
    BY <1>1, <2>1, <2>2 DEF Ascending, Orderly
  <2>4. \A i \in DOMAIN page : item[i] = "shown" => In(page[i], shown)
    BY <2>1 DEF In
  <2> QED
    BY <2>2, <2>3, <2>4
<1> DEFINE a == Len(old)
           b == Len(shown)
<1>5. /\ a \in Nat /\ b \in Nat /\ DOMAIN old = 1 .. a /\ DOMAIN shown = 1 .. b
      /\ listed \in Seq(Entries) /\ DOMAIN listed = 1 .. a + b
      /\ \A n \in 1 .. a : listed[n] = old[n]
      /\ \A n \in 1 .. b : listed[a + n] = shown[n]
  BY <1>2, <1>3
<1> HIDE DEF listed, a, b
<1>6. \A n \in DOMAIN listed :
        \/ n \in DOMAIN old /\ listed[n] = old[n]
        \/ n - a \in DOMAIN shown /\ listed[n] = shown[n - a] /\ n > a
  <2> SUFFICES ASSUME NEW n \in DOMAIN listed, n > a
               PROVE  n - a \in DOMAIN shown /\ listed[n] = shown[n - a]
    BY <1>5
  <2>1. n - a \in 1 .. b /\ a + (n - a) = n
    BY <1>5
  <2>2. listed[a + (n - a)] = shown[n - a]
    BY <1>5, <2>1
  <2> QED
    BY <1>5, <2>1, <2>2
<1>7. /\ \A n \in DOMAIN old : In(old[n], listed)
      /\ \A n \in DOMAIN shown : In(shown[n], listed)
  <2>1. \A n \in 1 .. a : n \in DOMAIN listed
    BY <1>5
  <2>2. \A n \in 1 .. b : a + n \in DOMAIN listed
    BY <1>5
  <2> QED
    BY <1>5, <2>1, <2>2 DEF In
<1>8. \A m \in DOMAIN old, n \in DOMAIN shown : old[m].digest < shown[n].digest
  BY <1>1, <1>4 DEF Orderly
<1>9. Ascending(listed)
  <2> SUFFICES ASSUME NEW m \in DOMAIN listed, NEW n \in DOMAIN listed, m < n
               PROVE  listed[m].digest < listed[n].digest
    BY DEF Ascending
  <2>1. m \in Nat /\ n \in Nat
    BY <1>5
  <2>2. CASE n \in DOMAIN old /\ listed[n] = old[n]
    <3>1. m \in DOMAIN old /\ listed[m] = old[m]
      BY <1>5, <2>1, <2>2
    <3> QED
      BY <1>1, <2>2, <3>1 DEF Orderly, Ascending
  <2>3. CASE n - a \in DOMAIN shown /\ listed[n] = shown[n - a] /\ n > a
    <3>1. CASE m \in DOMAIN old /\ listed[m] = old[m]
      BY <1>8, <2>3, <3>1
    <3>2. CASE m - a \in DOMAIN shown /\ listed[m] = shown[m - a]
      <4>1. m - a < n - a
        BY <1>5, <2>1
      <4> QED
        BY <1>4, <2>3, <3>2, <4>1 DEF Ascending
    <3> QED
      BY <1>6, <3>1, <3>2
  <2> QED
    BY <1>6, <2>2, <2>3
<1>10. \A n \in DOMAIN listed : Behind(cursor, listed[n].digest)
  <2>1. \A n \in DOMAIN old : Behind(cursor, old[n].digest)
    BY <1>1 DEF Orderly
  <2>2. \A n \in DOMAIN shown : Behind(cursor, shown[n].digest)
    BY <1>1, <1>4 DEF Orderly
  <2> QED
    BY <1>6, <2>1, <2>2
<1>11. ASSUME NEW d \in steady[r], Behind(cursor, d) PROVE In(Entry(d), listed)
  <2>1. CASE In(Entry(d), old)
    <3>1. PICK n \in DOMAIN old : old[n] = Entry(d)
      BY <2>1 DEF In
    <3> QED
      BY <1>7, <3>1
  <2>2. CASE Shows(req[r], d)
    <3>1. PICK n \in DOMAIN page : page[n] = Entry(d) /\ item[n] \in {"new", "shown"}
      BY <2>2 DEF Shows
    <3>2. item[n] = "shown"
      BY <1>1, <3>1 DEF Settled
    <3>3. In(Entry(d), shown)
      BY <1>4, <3>1, <3>2
    <3>4. PICK k \in DOMAIN shown : shown[k] = Entry(d)
      BY <3>3 DEF In
    <3> QED
      BY <1>7, <3>4
  <2> QED
    BY <1>1, <1>11, <2>1, <2>2 DEF Reached
<1>12. r \in Clears => listed = <<>>
  <2> SUFFICES ASSUME r \in Clears PROVE listed = <<>>
    OBVIOUS
  <2>1. old = <<>> /\ \A n \in DOMAIN item : item[n] # "shown"
    BY <1>1 DEF Silent
  <2>2. \A n \in DOMAIN shown : FALSE
    BY <1>1, <1>4, <2>1
  <2>3. a = 0
    BY <2>1 DEF a
  <2>4. b = 0
    BY <1>5, <2>2
  <2> QED
    BY <1>5, <2>3, <2>4
<1>13. turned \in Moments
  <2>1. pc \in {"idle", "paging", "mapping", "over", "failed"}
    OBVIOUS
  <2>2. <<>> \in Seq(Entries) /\ <<>> \in Seq(Statuses)
    OBVIOUS
  <2> HIDE DEF pc, cursor
  <2> QED
    BY <1>2, <1>5, <2>1, <2>2 DEF Moments
<1>14. /\ turned.pc = pc /\ turned.cursor = cursor /\ turned.page = <<>>
       /\ turned.item = <<>> /\ turned.listed = listed
  OBVIOUS
<1>15. pc \in {"over", "paging"} /\ (pc = "over" <=> cursor = Finished)
  OBVIOUS
<1> HIDE DEF turned, pc
<1>16. req' \in [Requests -> Moments] /\ req'[r] = turned
       /\ \A q \in Requests \ {r} : req'[q] = req[q]
  BY <1>1, <1>13
<1>17. Kept'
  <2>1. DOMAIN turned.item = DOMAIN turned.page /\ Len(turned.page) <= Limit
    BY <1>14, SessionPagesAssumption
  <2> QED
    BY <1>1, <1>16, <2>1 DEF Kept, PagesInv
<1>18. Bindings'
  BY <1>1 DEF Bindings, PagesInv, sessions
<1>19. Orderly(r)'
  <2>1. DOMAIN turned.page = {} /\ Ascending(turned.page)
    BY <1>14 DEF Ascending
  <2> QED
    BY <1>9, <1>10, <1>14, <1>16, <2>1 DEF Orderly
<1>20. Silent(r)'
  <2>1. DOMAIN turned.item = {}
    BY <1>14
  <2> QED
    BY <1>12, <1>14, <1>16, <2>1 DEF Silent
<1>21. Reached(r)'
  <2>1. \A d \in steady[r] : Entry(d)' = Entry(d)
    BY <1>1 DEF Entry, sessions
  <2> QED
    BY <1>1, <1>11, <1>14, <1>15, <1>16, <2>1 DEF Reached, sessions
<1> QED
  BY <1>1, <1>16, <1>17, <1>18, <1>19, <1>20, <1>21, OneKeeps, StillWatched

\* What other requests do to the sessions leaves the pages right.
LEMMA ChangeKeeps ==
  ASSUME PagesInv, Change
  PROVE  PagesInv'
<1>1. Watch /\ req' = req
  BY DEF Change
<1>2. PICK d \in Restless : Bind(d) \/ Expire(d) \/ Index(d)
  BY DEF Change
<1>3. d \in Digests /\ MaxBindings \in Nat
  BY SessionPagesAssumption
<1>4. /\ record \in [Digests -> Nat] /\ row \in [Digests -> Nat]
      /\ issued \in [Digests -> 0 .. MaxBindings]
      /\ \A c \in Digests : record[c] <= issued[c] /\ row[c] <= issued[c] /\ issued[c] \in Nat
  BY <1>3 DEF PagesInv, Bindings
<1>5. ASSUME Bind(d) PROVE Bindings'
  <2>1. /\ issued' = [issued EXCEPT ![d] = issued[d] + 1] /\ row' = row
        /\ record' = [record EXCEPT ![d] = issued'[d]] /\ issued[d] < MaxBindings
    BY <1>5 DEF Bind
  <2>2. /\ issued' \in [Digests -> 0 .. MaxBindings] /\ issued'[d] = issued[d] + 1
        /\ \A c \in Digests \ {d} : issued'[c] = issued[c]
    BY <1>3, <1>4, <2>1
  <2>3. /\ record' \in [Digests -> Nat] /\ record'[d] = issued'[d]
        /\ \A c \in Digests \ {d} : record'[c] = record[c]
    BY <1>3, <1>4, <2>1, <2>2
  <2> QED
    BY <1>4, <2>1, <2>2, <2>3 DEF Bindings
<1>6. ASSUME Expire(d) PROVE Bindings'
  <2>1. /\ record' = [record EXCEPT ![d] = 0] /\ UNCHANGED <<row, issued>>
    BY <1>6 DEF Expire
  <2>2. record' \in [Digests -> Nat] /\ \A c \in Digests : record'[c] \in {0, record[c]}
    BY <1>3, <1>4, <2>1
  <2> QED
    BY <1>4, <2>1, <2>2 DEF Bindings
<1>7. ASSUME Index(d) PROVE Bindings'
  <2>1. PICK b \in 0 .. issued[d] : row' = [row EXCEPT ![d] = b]
    BY <1>7 DEF Index
  <2>2. UNCHANGED <<record, issued>>
    BY <1>7 DEF Index
  <2>3. b \in Nat /\ b <= issued[d]
    BY <1>3, <1>4, <2>1
  <2>4. /\ row' \in [Digests -> Nat] /\ row'[d] = b
        /\ \A c \in Digests \ {d} : row'[c] = row[c]
    BY <1>3, <1>4, <2>1, <2>3
  <2> QED
    BY <1>4, <2>2, <2>3, <2>4 DEF Bindings
<1>8. Bindings'
  BY <1>2, <1>5, <1>6, <1>7
<1>9. Kept'
  BY <1>1, WatchTyped DEF Kept, PagesInv
<1>10. ASSUME NEW q \in Requests PROVE Orderly(q)' /\ Reached(q)' /\ Silent(q)'
  BY <1>1, <1>10, OthersKeep, WatchWatches DEF PagesInv
<1> QED
  BY <1>8, <1>9, <1>10 DEF PagesInv

LEMMA PagesInitially == SPInit => PagesInv
<1> SUFFICES ASSUME SPInit PROVE PagesInv
  OBVIOUS
<1> USE DEF SPInit
<1>1. Bindings
  BY SessionPagesAssumption DEF Bindings
<1>2. Idle \in Moments /\ DOMAIN Idle.item = DOMAIN Idle.page /\ Len(Idle.page) <= Limit
  BY SessionPagesAssumption DEF Idle, Moments
<1>3. Kept
  BY <1>2 DEF Kept
<1>4. ASSUME NEW r \in Requests PROVE Orderly(r) /\ Reached(r) /\ Silent(r)
  <2>1. req[r] = Idle /\ steady[r] = {}
    OBVIOUS
  <2> QED
    BY <2>1 DEF Orderly, Reached, Silent, Idle, Ascending, Finished
<1> QED
  BY <1>1, <1>3, <1>4 DEF PagesInv

LEMMA PagesStay ==
  ASSUME PagesInv, [SPNext]_spvars
  PROVE  PagesInv'
<1>1. ASSUME NEW r \in Requests, Begin(r) \/ Step(r) PROVE PagesInv'
  BY <1>1, BeginKeeps, ListPageKeeps, EntryKeeps, TurnKeeps DEF Step
<1>2. CASE Change
  BY <1>2, ChangeKeeps
<1>3. CASE UNCHANGED spvars
  <2>1. UNCHANGED <<sessions, steady, req>>
    BY <1>3 DEF spvars
  <2>2. Bindings' /\ Kept'
    BY <2>1 DEF PagesInv, Bindings, Kept, sessions
  <2>3. ASSUME NEW q \in Requests PROVE Orderly(q)' /\ Reached(q)' /\ Silent(q)'
    BY <2>1, <2>3, OthersKeep, StillWatched DEF PagesInv
  <2> QED
    BY <2>2, <2>3 DEF PagesInv
<1> QED
  BY <1>1, <1>2, <1>3 DEF SPNext

\* Pages skip no session that stays, for any number of sessions, requests and
\* workers and any limit (listPage, handleSessionList, handleSessionClearAll).
THEOREM PagesCorrect == SPSpec => []PagesInv
BY PagesInitially, PagesStay, PTL DEF SPSpec

\* Rows, pages and answers have their types, and no page exceeds its limit
\* (listPage).
THEOREM PagesTyped == SPSpec => []SPTypeOK
<1>1. ASSUME PagesInv PROVE SPTypeOK
  <2>1. ASSUME NEW r \in Requests
        PROVE  /\ req[r] \in Moments /\ Len(req[r].page) <= Limit
               /\ req[r].item \in [DOMAIN req[r].page -> {"new", "called", "rejected"} \cup Settled]
               /\ steady[r] \subseteq Digests
    <3>1. req[r].item \in Seq(Statuses) /\ DOMAIN req[r].item = DOMAIN req[r].page
      BY <1>1 DEF PagesInv, Kept, Moments
    <3> QED
      BY <1>1, <3>1 DEF PagesInv, Kept, Statuses
  <2> QED
    BY <1>1, <2>1 DEF SPTypeOK, PagesInv, Bindings, Moments
<1> QED
  BY <1>1, PagesCorrect, PTL

\* An answered clear of everything left no binding that was listed all the while
\* (handleSessionClearAll).
THEOREM ClearsAll == SPSpec => []ClearedIsGone
<1>1. ASSUME PagesInv PROVE ClearedIsGone
  <2> SUFFICES ASSUME NEW r \in Clears, req[r].pc = "over", NEW d \in steady[r] PROVE FALSE
    BY DEF ClearedIsGone
  <2>1. Reached(r) /\ Silent(r)
    BY <1>1 DEF PagesInv, Requests
  <2>2. In(Entry(d), req[r].listed)
    BY <2>1 DEF Reached, Behind
  <2> QED
    BY <2>1, <2>2 DEF Silent, In
<1> QED
  BY <1>1, PagesCorrect, PTL

\* A client that follows the cursors to the end is shown every binding that was
\* listed all the while, each session once (handleSessionList).
THEOREM ListsAll == SPSpec => []ListedIsShown
<1>1. ASSUME PagesInv PROVE ListedIsShown
  <2>1. ASSUME NEW r \in Lists PROVE Orderly(r) /\ Reached(r)
    BY <1>1 DEF PagesInv, Requests
  <2> QED
    BY <2>1 DEF ListedIsShown, Orderly, Ascending, Reached, Behind, In, Entry
<1> QED
  BY <1>1, PagesCorrect, PTL

=============================================================================
