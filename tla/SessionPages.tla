---------------------------- MODULE SessionPages ----------------------------
(***************************************************************************)
(* GET /sessions and DELETE /sessions of src/session-bindings.ts over the  *)
(* many sessions of one client key: pages of the index (listPage of        *)
(* src/session-affinity-index.ts), and for every entry of a page the calls *)
(* that mapWithConcurrency of src/concurrency.ts makes for it, while       *)
(* sessions are bound, moved, expired and indexed behind them.  What one   *)
(* session's object and row do among themselves is SessionAffinity.tla;    *)
(* here a row may come, change and go at any time, as late index tasks     *)
(* have it, and pages must be right whatever the rows do.                  *)
(* A digest is its place in the order of all digests, 0 is before the      *)
(* first of them; binding b of a session is the b-th pair of a binding and *)
(* a generation that was issued to it, since calls name both, 0 is none.   *)
(* SP tells names from those of SearchBatch.tla, the other fan-out.        *)
(***************************************************************************)
EXTENDS Arrays, FiniteSets

CONSTANTS
  Sessions,     \* how many sessions there are
  Restless,     \* the sessions that requests use meanwhile, for a smaller instance
  Clears,       \* requests that clear all
  Lists,        \* clients that list from page to page
  Limit,        \* SESSION_LIST_MAX_LIMIT, or the limit that a client asks for
  Concurrency,  \* SERVICE_FAN_OUT_CONCURRENCY
  Faults,       \* whether calls may fail
  MaxBindings   \* bound of the bindings of a session

Digests == 1 .. Sessions

ASSUME SessionPagesAssumption ==
  /\ Sessions \in Nat
  /\ Restless \subseteq Digests
  /\ Clears \cap Lists = {}
  /\ Limit \in Nat \ {0}
  /\ Concurrency \in Nat \ {0}
  /\ Faults \in BOOLEAN
  /\ MaxBindings \in Nat \ {0}

Requests == Clears \cup Lists

VARIABLES
  record,   \* record[d]: the binding of session d
  row,      \* row[d]: the binding that the index has for it
  issued,   \* issued[d]: how many bindings it has had
  req,      \* req[r]: where request r is
  steady    \* history: the sessions that were bound and listed when r began, and
            \* have had the same binding and row ever since

sessions == <<record, row, issued>>
spvars == <<sessions, req, steady>>
-----------------------------------------------------------------------------
Idle == [pc |-> "idle", cursor |-> 0, page |-> <<>>, item |-> <<>>, listed |-> <<>>]

\* After the last page.
Finished == -1

\* Wrong on purpose, as are all the definitions named Wrong...: a page begins
\* with the last row of the one before.
WrongRows(cursor) == {d \in Digests : row[d] # 0 /\ d >= cursor}

Rows(cursor) == {d \in Digests : row[d] # 0 /\ d > cursor}

\* In the order of their digests.
Sorted(rows) == Filter([d \in Digests |-> d], rows)

\* Wrong: the row that tells that there are more is in the page.
WrongPage(cursor) ==
  LET sorted == Sorted(Rows(cursor))
  IN [n \in {k \in DOMAIN sorted : k <= Limit + 1} |->
       [digest |-> sorted[n], binding |-> row[sorted[n]]]]

Page(cursor) ==
  LET sorted == Sorted(Rows(cursor))
  IN [n \in {k \in DOMAIN sorted : k <= Limit} |->
       [digest |-> sorted[n], binding |-> row[sorted[n]]]]

\* Wrong: the cursor is the row that told that there are more.
WrongCursor(cursor) ==
  LET sorted == Sorted(Rows(cursor))
  IN IF Len(sorted) > Limit THEN sorted[Limit + 1] ELSE Finished

\* One row more than the page holds tells whether there are more.
NextCursor(cursor) ==
  LET sorted == Sorted(Rows(cursor))
  IN IF Len(sorted) > Limit THEN sorted[Limit] ELSE Finished

Settled == {"done", "shown"}

\* Wrong: a worker makes one call and no more.
WrongBegun(r, n) == n <= Concurrency

\* The workers take the entries in their order; one that is through with its
\* entry takes the next, one whose call was rejected is gone.
Begun(r, n) == n <= Concurrency + Cardinality({k \in DOMAIN req[r].item : req[r].item[k] \in Settled})

\* req[r] once entry n is at s.  A call that is rejected fails the request at
\* once; the other workers go on behind the answer.
Moved(r, n, s) ==
  LET request == req[r]
  IN [req EXCEPT ![r] =
       [request EXCEPT !.item = [request.item EXCEPT ![n] = s],
                       !.pc = IF s = "rejected" THEN "failed" ELSE request.pc]]

Rejected(r, n) == Faults /\ req' = Moved(r, n, "rejected")

\* What a call comes to that was made: s, or a rejection all the same.
Outcome(r, n, s) == req' = Moved(r, n, s) \/ Rejected(r, n)

Unchanged(r) ==
  {d \in steady[r] : record'[d] = record[d] /\ row'[d] = row[d]}

Watch == steady' = [r \in Requests |-> Unchanged(r)]

SPInit ==
  /\ record \in [Digests -> {0, 1}]
  /\ row = record
  /\ issued = record
  /\ req = [r \in Requests |-> Idle]
  /\ steady = [r \in Requests |-> {}]

Begin(r) ==
  /\ req[r].pc = "idle"
  /\ req' = [req EXCEPT ![r].pc = "paging"]
  /\ steady' = [steady EXCEPT ![r] = {d \in Digests : record[d] # 0 /\ row[d] = record[d]}]
  /\ UNCHANGED sessions

ListPage(r) ==
  /\ req[r].pc = "paging"
  /\ \/ LET page == Page(req[r].cursor)
        IN req' = [req EXCEPT ![r] =
             [pc |-> "mapping", cursor |-> NextCursor(req[r].cursor), page |-> page,
              item |-> [n \in DOMAIN page |-> "new"], listed |-> req[r].listed]]
     \/ Faults /\ req' = [req EXCEPT ![r].pc = "failed"]
  /\ UNCHANGED <<sessions, steady>>

\* clearIfBindingId, for an entry of a clear.
ClearEntry(r, n) ==
  LET entry == req[r].page[n]
  IN /\ r \in Clears
     /\ req[r].item[n] = "new"
     /\ Begun(r, n)
     /\ \/ /\ record' = IF record[entry.digest] = entry.binding
                       THEN [record EXCEPT ![entry.digest] = 0] ELSE record
           /\ Outcome(r, n, "called")
        \/ Rejected(r, n) /\ record' = record
     /\ UNCHANGED <<row, issued>>
     /\ Watch

\* getStatus, for an entry of a list.
GetStatus(r, n) ==
  LET entry == req[r].page[n]
  IN /\ r \in Lists
     /\ req[r].item[n] = "new"
     /\ Begun(r, n)
     /\ Outcome(r, n, IF record[entry.digest] = entry.binding THEN "shown" ELSE "called")
     /\ UNCHANGED <<sessions, steady>>

\* index.remove, for an entry that was cleared or had no binding any more.
RemoveRow(r, n) ==
  LET entry == req[r].page[n]
  IN /\ req[r].item[n] = "called"
     /\ \/ /\ row' = IF row[entry.digest] = entry.binding
                    THEN [row EXCEPT ![entry.digest] = 0] ELSE row
           /\ Outcome(r, n, "done")
        \/ Rejected(r, n) /\ row' = row
     /\ UNCHANGED <<record, issued>>
     /\ Watch

\* What the answer shows of a page, in the order of the page.
Shown(request) ==
  Filter(request.page, {n \in DOMAIN request.page : request.item[n] = "shown"})

\* The page is done: the next one, or the answer.  A client that lists may take
\* its time, or never come again.
Turn(r) ==
  /\ req[r].pc = "mapping"
  /\ \A n \in DOMAIN req[r].item : req[r].item[n] \in Settled
  /\ req' = [req EXCEPT ![r] =
       [pc |-> IF req[r].cursor = Finished THEN "over" ELSE "paging",
        cursor |-> req[r].cursor, page |-> <<>>, item |-> <<>>,
        listed |-> req[r].listed \o Shown(req[r])]]
  /\ UNCHANGED <<sessions, steady>>

\* A request binds the session or moves it, or a registration that met a row of
\* a higher generation goes on under the next one.
Bind(d) ==
  /\ issued[d] < MaxBindings
  /\ issued' = [issued EXCEPT ![d] = @ + 1]
  /\ record' = [record EXCEPT ![d] = issued'[d]]
  /\ row' = row

Expire(d) ==
  /\ record[d] # 0
  /\ record' = [record EXCEPT ![d] = 0]
  /\ UNCHANGED <<row, issued>>

\* An index task of one of its bindings writes the row, or takes it away.
Index(d) ==
  /\ \E b \in 0 .. issued[d] : b # row[d] /\ row' = [row EXCEPT ![d] = b]
  /\ UNCHANGED <<record, issued>>

Change ==
  /\ \E d \in Restless : Bind(d) \/ Expire(d) \/ Index(d)
  /\ Watch
  /\ req' = req

Step(r) ==
  \/ ListPage(r)
  \/ \E n \in DOMAIN req[r].item : ClearEntry(r, n) \/ GetStatus(r, n) \/ RemoveRow(r, n)
  \/ Turn(r)

SPNext ==
  \/ \E r \in Requests : Begin(r) \/ Step(r)
  \/ Change

SPSpec == SPInit /\ [][SPNext]_spvars

\* Calls return or are rejected.  A client that lists need not come back.
SPFairSpec == SPSpec /\ \A r \in Clears : WF_spvars(Step(r))
-----------------------------------------------------------------------------
Entries == [digest : Digests, binding : Nat \ {0}]

SPTypeOK ==
  /\ record \in [Digests -> Nat]
  /\ row \in [Digests -> Nat]
  /\ issued \in [Digests -> 0 .. MaxBindings]
  /\ \A d \in Digests : record[d] <= issued[d] /\ row[d] <= issued[d]
  /\ \A r \in Requests :
       /\ req[r].pc \in {"idle", "paging", "mapping", "over", "failed"}
       /\ req[r].cursor \in Digests \cup {0, Finished}
       /\ req[r].page \in Seq(Entries) /\ Len(req[r].page) <= Limit
       /\ req[r].item \in [DOMAIN req[r].page -> {"new", "called", "rejected"} \cup Settled]
       /\ req[r].listed \in Seq(Entries)
       /\ steady[r] \subseteq Digests

\* A clear of everything that is answered has left no binding that was listed
\* when it began and ever since: pages that are cut while rows come and go in
\* front of the cursor and behind it skip none.
ClearedIsGone ==
  \A r \in Clears : req[r].pc = "over" => steady[r] = {}

\* A client that follows the cursors to the end is shown every binding that was
\* listed all the while, and no session twice, whatever came and went between
\* two pages, and whoever else cleared or listed.
ListedIsShown ==
  \A r \in Lists :
    LET listed == req[r].listed
    IN /\ \A m, n \in DOMAIN listed : m < n => listed[m].digest < listed[n].digest
       /\ req[r].pc = "over" =>
            \A d \in steady[r] :
              \E n \in DOMAIN listed : listed[n] = [digest |-> d, binding |-> row[d]]

\* A clear of everything ends, and does not chase the rows that come meanwhile.
EveryClearEnds ==
  \A r \in Clears : req[r].pc = "paging" ~> req[r].pc \in {"over", "failed"}
=============================================================================
