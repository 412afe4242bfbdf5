---------------------------- MODULE SearchBatch -----------------------------
(***************************************************************************)
(* One batch of standalone searches: executeSearchBatch and fetchProvider  *)
(* of src/search-executor.ts over readBodyWithinLimit of src/body.ts.      *)
(* Workers take the queries of the batch one after the other, share a      *)
(* budget of bytes, and stop each other by an abort signal.  What the      *)
(* provider does is free: it answers in pieces, refuses, breaks off, or    *)
(* says nothing at all.  After an abort an answer that is in already may   *)
(* still be taken before the rejection is.                                 *)
(***************************************************************************)
EXTENDS Arrays, FiniteSets

CONSTANTS
  Queries,              \* how many queries the batch has
  ProviderConcurrency,  \* SEARCH_PROVIDER_CONCURRENCY
  MaxResponse,          \* MAX_SEARCH_PROVIDER_RESPONSE_BYTES, in pieces
  MaxBatch,             \* MAX_SEARCH_BATCH_RESPONSE_BYTES, in pieces
  MaxChunk              \* bound of what one read returns, in pieces

ASSUME BatchAssumption ==
  /\ Queries \in Nat \ {0}
  /\ ProviderConcurrency \in Nat \ {0}
  /\ MaxResponse \in Nat
  /\ MaxBatch \in Nat
  /\ MaxChunk \in Nat \ {0}

\* ProviderInputError, ProviderHttpError, ProviderResponseTooLargeError,
\* SearchBatchBudgetExceededError, other ProviderProtocolErrors,
\* ProviderTimeoutError, ProviderNetworkError.
Errors == {"input", "http", "too_large", "budget", "invalid", "timeout", "network"}

Workers == 1 .. (IF ProviderConcurrency < Queries THEN ProviderConcurrency ELSE Queries)

VARIABLES
  nextIndex,   \* queries taken
  worker,      \* worker[w]: what it does, the query and the error in its hands
  late,        \* workers whose 15 s are over
  kept,        \* kept[q]: totalBytes of the answer to query q
  consumed,    \* consumedBytes of the budget
  responses,   \* queries that have been answered
  firstError,  \* the error that aborts the batch
  left,        \* the client has gone: requestSignal.aborted
  outcome,     \* what executeSearchBatch returns or throws
  causes       \* history: errors that no abort has brought about

vars == <<nextIndex, worker, late, kept, consumed, responses, firstError, left, outcome, causes>>

Ready == [pc |-> "ready", query |-> 0, error |-> "none"]
Stopped == [pc |-> "stopped", query |-> 0, error |-> "none"]

\* Wrong on purpose, as are all the definitions named Wrong...: the workers do
\* not listen to each other.
WrongAborted == left

\* signal.aborted: the first error aborts batchController at once.
Aborted == left \/ firstError # "none"

\* fetchProvider begins: the request is sent, or has too many domains.
Opening(q) == {[pc |-> "fetching", query |-> q, error |-> "none"],
               [pc |-> "failing", query |-> q, error |-> "input"]}

\* The workers are started one after the other before anything else happens.
Init ==
  /\ left \in BOOLEAN
  /\ nextIndex = IF left THEN 0 ELSE Cardinality(Workers)
  /\ worker \in {[w \in Workers |-> IF left THEN Stopped ELSE f[w]] :
                   f \in {g \in [Workers -> UNION {Opening(w) : w \in Workers}] :
                            \A w \in Workers : g[w] \in Opening(w)}}
  /\ late = {}
  /\ kept = [q \in 1 .. Queries |-> 0]
  /\ consumed = 0
  /\ responses = {}
  /\ firstError = "none"
  /\ outcome = "none"
  /\ causes = {}

Become(w, state) == worker' = [worker EXCEPT ![w] = state]

\* Wrong: the last error stands.
WrongFirst(error) == error

\* The catch clause of a worker.
First(error) == IF firstError = "none" THEN error ELSE firstError

Fail(w, error) ==
  /\ firstError' = First(error)
  /\ Become(w, Stopped)
  /\ late' = late \ {w}

\* A call that breaks off after an abort is put down to the abort.
Cause(error) == causes' = IF error = "network" /\ Aborted THEN causes ELSE causes \cup {error}

\* The loop of a worker: the next query, if there is one and nothing has failed.
Take(w) ==
  /\ worker[w].pc = "ready"
  /\ IF Aborted
     THEN Become(w, Stopped) /\ UNCHANGED nextIndex
     ELSE /\ nextIndex' = nextIndex + 1
          /\ IF nextIndex' > Queries THEN Become(w, Stopped)
             ELSE \E state \in Opening(nextIndex') : Become(w, state)
  /\ UNCHANGED <<late, kept, consumed, responses, firstError, left, outcome, causes>>

\* A body is given up, and cancelled before the error is thrown.
Cancel(w, error) ==
  /\ Become(w, [pc |-> "failing", query |-> worker[w].query, error |-> error])
  /\ UNCHANGED causes

\* fetch() returns: a refusal, a length beyond the limit, or a body to read.
Respond(w) ==
  /\ worker[w].pc = "fetching"
  /\ \/ Cancel(w, "http")
     \/ Cancel(w, "too_large")
     \/ Become(w, [worker[w] EXCEPT !.pc = "reading"]) /\ UNCHANGED causes
  /\ UNCHANGED <<nextIndex, late, kept, consumed, responses, firstError, left, outcome>>

\* Wrong: the budget is that of one answer.
WrongSpent(q, size) == kept[q] + size

\* What the budget has consumed with the piece.
Spent(q, size) == consumed + size

\* readBodyWithinLimit: a read, first held against the limit of an answer and
\* then against what is left of the budget.
Read(w, size) ==
  LET q == worker[w].query
  IN /\ worker[w].pc = "reading"
     /\ IF kept[q] + size > MaxResponse
        THEN Cancel(w, "too_large") /\ UNCHANGED <<kept, consumed>>
        ELSE IF Spent(q, size) > MaxBatch
        THEN Cancel(w, "budget") /\ UNCHANGED <<kept, consumed>>
        ELSE /\ consumed' = Spent(q, size)
             /\ kept' = [kept EXCEPT ![q] = @ + size]
             /\ UNCHANGED <<worker, causes>>
     /\ UNCHANGED <<nextIndex, late, responses, firstError, left, outcome>>

\* The body ends; it is an answer, or it is not.
End(w) ==
  /\ worker[w].pc = "reading"
  /\ \/ /\ responses' = responses \cup {worker[w].query}
        /\ Become(w, Ready)
        /\ late' = late \ {w}
        /\ UNCHANGED <<firstError, causes>>
     \/ /\ Fail(w, "invalid")
        /\ Cause("invalid")
        /\ UNCHANGED responses
  /\ UNCHANGED <<nextIndex, kept, consumed, left, outcome>>

\* Wrong: the timer is cleared when the head of the response is in.
WrongTimed(w) == worker[w].pc = "fetching"

\* The timer runs until fetchProvider is done; an error that has a name keeps it.
Timed(w) == worker[w].pc \in {"fetching", "reading"} \/ worker[w].error = "unnamed"

Timeout(w) ==
  /\ Timed(w)
  /\ w \notin late
  /\ late' = late \cup {w}
  /\ UNCHANGED <<nextIndex, worker, kept, consumed, responses, firstError, left, outcome, causes>>

\* What a failed call is called in the end.
Name(w) == IF w \in late /\ ~Aborted THEN "timeout" ELSE "network"

\* fetch() or a read rejects: the connection breaks, or is aborted.
Rejects(w) ==
  /\ \/ /\ worker[w].pc = "fetching"
        /\ Fail(w, Name(w))
        /\ Cause(Name(w))
     \/ /\ worker[w].pc = "reading"
        /\ Cancel(w, "unnamed")
        /\ UNCHANGED <<late, firstError>>
  /\ UNCHANGED <<nextIndex, kept, consumed, responses, left, outcome>>

\* The body, if there is one, is cancelled and the error is thrown.
Cancelled(w) ==
  LET error == IF worker[w].error = "unnamed" THEN Name(w) ELSE worker[w].error
  IN /\ worker[w].pc = "failing"
     /\ Fail(w, error)
     /\ Cause(error)
     /\ UNCHANGED <<nextIndex, kept, consumed, responses, left, outcome>>

Leave ==
  /\ outcome = "none"
  /\ ~left
  /\ left' = TRUE
  /\ UNCHANGED <<nextIndex, worker, late, kept, consumed, responses, firstError, outcome, causes>>

\* Wrong: that the client has gone is not looked at.
WrongResult == IF firstError # "none" THEN firstError ELSE "answers"

Result ==
  IF firstError # "none" THEN firstError
  ELSE IF left THEN "network"
  ELSE "answers"

\* executeSearchBatch: all workers have stopped.
Finish ==
  /\ outcome = "none"
  /\ \A w \in Workers : worker[w].pc = "stopped"
  /\ outcome' = Result
  /\ UNCHANGED <<nextIndex, worker, late, kept, consumed, responses, firstError, left, causes>>

Next ==
  \/ \E w \in Workers :
       \/ Take(w) \/ Respond(w) \/ End(w) \/ Timeout(w) \/ Rejects(w) \/ Cancelled(w)
       \/ \E size \in 1 .. MaxChunk : Read(w, size)
  \/ Leave
  \/ Finish

Spec == Init /\ [][Next]_vars

\* What is aborted rejects; the provider need not answer.
Fairness ==
  /\ \A w \in Workers :
       /\ WF_vars(Take(w))
       /\ WF_vars(Timeout(w))
       /\ WF_vars((Aborted \/ w \in late) /\ Rejects(w))
       /\ WF_vars(Cancelled(w))
  /\ WF_vars(Finish)

FairSpec == Spec /\ Fairness
-----------------------------------------------------------------------------
TypeOK ==
  /\ nextIndex \in Nat
  /\ worker \in [Workers -> [pc : {"ready", "fetching", "reading", "failing", "stopped"},
                             query : 0 .. Queries, error : Errors \cup {"none", "unnamed"}]]
  /\ late \subseteq {w \in Workers : worker[w].pc \notin {"ready", "stopped"}}
  /\ kept \in [1 .. Queries -> 0 .. MaxResponse]
  /\ consumed \in Nat
  /\ responses \subseteq 1 .. Queries
  /\ firstError \in Errors \cup {"none"}
  /\ left \in BOOLEAN
  /\ outcome \in Errors \cup {"none", "answers"}
  /\ causes \subseteq Errors

\* "Adapter responses are limited to 2 MiB per query and 4 MiB for the complete
\* request batch" (src/README.md:198): what is kept of all answers together is
\* within the budget, in whatever order their pieces come (consume,
\* readBodyWithinLimit).
BudgetHolds == SumOf(kept) <= MaxBatch

\* A batch is answered whole, or with an error that one of its queries has met
\* by itself, or as aborted when the client has gone: never with a hole, and
\* never with the echo of an abort (executeSearchBatch).
WholeOrCause ==
  \/ outcome = "none"
  \/ outcome = "answers" /\ responses = 1 .. Queries
  \/ outcome \in causes
  \/ outcome = "network" /\ left

\* "Crossing either response budget cancels the remaining batch"
\* (src/README.md:198): after the first failure, or when the client has gone, no
\* further query is sent (executeSearchBatch).
NoneAfterFailure == [][firstError # "none" \/ left => nextIndex' = nextIndex]_vars

\* Every batch ends, even when the provider falls silent in the middle of an
\* answer (fetchProvider).
EveryBatchEnds == <>(outcome # "none")
=============================================================================
