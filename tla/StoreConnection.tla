--------------------------- MODULE StoreConnection ---------------------------
(***************************************************************************)
(* The one Turso connection every store of the backend shares, statement   *)
(* by statement.  runSerializedOperation chains the transactions and the   *)
(* single writes of all stores behind one another: an operation waits for  *)
(* the promise that was the tail when it was called, holds a lease in its  *)
(* async context while it runs, and work called under an active lease runs *)
(* at once inside it.  Plain reads pass the chain by: the statements of    *)
(* CanvasService.queryItems run between those of an open transaction.      *)
(*                                                                         *)
(* A statement of the connection sees what the open transaction wrote; the *)
(* driver runs one statement at a time and rejects a BEGIN inside another. *)
(***************************************************************************)
EXTENDS StoreRows

CONSTANTS
  Parent,      \* Parent[t]: the operation in whose async context t is called
  None,        \* no operation
  Queries,     \* callers of queryItems
  MaxAttempts, \* maxCommitAttempts
  MaxFaults    \* bound: operations that fail

\* Work is nested in the transactions of other stores only, never a
\* transaction in a transaction.
ASSUME ParentAssumption ==
  /\ None \notin Tasks
  /\ \A t \in Tasks :
       \/ Parent[t] = None
       \/ Parent[t] \in Tasks /\ Kind[Parent[t]] = "batch" /\ Kind[t] = "write"

ASSUME BoundAssumption == MaxAttempts \in Nat \ {0} /\ MaxFaults \in Nat

VARIABLES
  \* runSerializedOperation
  phase,    \* idle, waiting for prev, active as long as its lease is, settled
  nested,   \* operations that ran inside the lease of their parent
  prev,     \* the operation a waiting one was chained behind
  tail,     \* DATABASE_OPERATION_TAILS of the connection
  \* the database
  saved,    \* durable rows
  view,     \* the rows as a statement of this connection sees them
  open,     \* the transaction in progress
  \* locals and results
  step,     \* the next statement of an operation
  todo,     \* items a commit has yet to write
  got,      \* rows a snapshot has read
  result,   \* what the transaction is about to return
  outcome,  \* what the caller was told
  query,    \* where each queryItems stands
  record,   \* history variable: the canvas as it was saved at each revision
  faults

chain == <<phase, nested, prev, tail>>
database == <<saved, view, open>>
locals == <<step, todo, got, result, outcome>>
vars == <<chain, database, locals, query, record, faults>>

Shown == [t \in Tasks |-> IF outcome[t] = "ok" THEN got[t] ELSE NoRows]
Ended == [t \in Tasks |-> IF t \in nested THEN "none" ELSE outcome[t]]
Contract == INSTANCE StoreContract WITH outcome <- Ended, shown <- Shown

Query == [at : {"idle", "revision", "page", "recheck", "done", "refused"},
          attempt : Nat, seen : Nat, page : [Items -> Nat]]

Steps == {"begin", "receipt", "revision", "items", "rows", "keep", "commit"}

TypeOK ==
  /\ phase \in [Tasks -> {"idle", "waiting", "active", "settled"}]
  /\ nested \subseteq Tasks
  /\ prev \in [Tasks -> Tasks \cup {None}] /\ tail \in Tasks \cup {None}
  /\ saved \in Rows /\ view \in Rows /\ open \in Tasks \cup {None}
  /\ \A i \in Items : saved.rows[i] <= saved.rev /\ view.rows[i] <= view.rev
  /\ step \in [Tasks -> Steps]
  /\ todo \in [Tasks -> SUBSET Items] /\ got \in [Tasks -> Rows]
  /\ {result, outcome} \subseteq [Tasks -> Outcome]
  /\ query \in [Queries -> Query]
  /\ record \in [0 .. saved.rev -> Rows]
  /\ faults \in Nat

Init ==
  /\ phase = [t \in Tasks |-> "idle"] /\ nested = {}
  /\ prev = [t \in Tasks |-> None] /\ tail = None
  /\ saved = NoRows /\ view = NoRows /\ open = None
  /\ step = [t \in Tasks |-> "begin"] /\ todo = Changes
  /\ got = [t \in Tasks |-> NoRows]
  /\ result = [t \in Tasks |-> "ok"] /\ outcome = [t \in Tasks |-> "none"]
  /\ query = [q \in Queries |-> [at |-> "idle", attempt |-> 0, seen |-> 0,
                                  page |-> NoRows.rows]]
  /\ record = [r \in {0} |-> NoRows]
  /\ faults = 0

-----------------------------------------------------------------------------
(***************************************************************************)
(* The chain of operations.                                                *)
(***************************************************************************)
Callable(t) ==
  /\ phase[t] = "idle"
  /\ Parent[t] # None => step[Parent[t]] \in {"keep", "commit"}

InLease(t) == Parent[t] # None /\ phase[Parent[t]] = "active"

\* Inside an active lease: the operation runs at once, under that lease.
CallNested(t) ==
  /\ Callable(t) /\ InLease(t)
  /\ phase' = [phase EXCEPT ![t] = "active"]
  /\ nested' = nested \cup {t}
  /\ UNCHANGED <<prev, tail, database, locals, query, record, faults>>

\* Outside of one, or after the inherited lease expired: behind the tail.
CallChained(t) ==
  /\ Callable(t) /\ ~InLease(t)
  /\ phase' = [phase EXCEPT ![t] = "waiting"]
  /\ prev' = [prev EXCEPT ![t] = tail] /\ tail' = t
  /\ UNCHANGED <<nested, database, locals, query, record, faults>>

\* Mutant: the chain does not wait for what is before it.
StartAtOnce(t) ==
  /\ phase[t] = "waiting"
  /\ phase' = [phase EXCEPT ![t] = "active"]
  /\ UNCHANGED <<nested, prev, tail, database, locals, query, record, faults>>

\* Mutant: a failed operation poisons the chain, as previous.then(run) would.
StartAfterSuccess(t) ==
  /\ prev[t] # None => outcome[prev[t]] \in {"ok", "duplicate", "conflict"}
  /\ StartAtOnce(t)

\* previous.then(run, run): whether the operation before it failed or not.
Start(t) ==
  /\ phase[t] = "waiting"
  /\ prev[t] # None => phase[prev[t]] = "settled"
  /\ phase' = [phase EXCEPT ![t] = "active"]
  /\ UNCHANGED <<nested, prev, tail, database, locals, query, record, faults>>

\* Mutant: a tail that settled is dropped even if another took its place.
DropAnyTail ==
  /\ tail # None /\ \E t \in Tasks : phase[t] = "settled"
  /\ tail' = None
  /\ UNCHANGED <<phase, nested, prev, database, locals, query, record, faults>>

\* The tail is dropped once it settled, unless another took its place.
DropTail ==
  /\ tail # None /\ phase[tail] = "settled"
  /\ tail' = None
  /\ UNCHANGED <<phase, nested, prev, database, locals, query, record, faults>>

-----------------------------------------------------------------------------
(***************************************************************************)
(* Statements.  An operation awaits the work nested in it.                 *)
(***************************************************************************)
Runs(t, s) ==
  /\ phase[t] = "active" /\ step[t] = s
  /\ \A n \in nested : Parent[n] = t => phase[n] = "settled"

Goto(t, s) == step' = [step EXCEPT ![t] = s]
Return(t, r) == Goto(t, "commit") /\ result' = [result EXCEPT ![t] = r]

Settle(t, o) ==
  /\ phase' = [phase EXCEPT ![t] = "settled"]
  /\ outcome' = [outcome EXCEPT ![t] = o]

FirstStep == [commit |-> "receipt", snapshot |-> "revision", batch |-> "keep"]

Begin(t) ==
  /\ Kind[t] # "write" /\ Runs(t, "begin")
  /\ IF open = None
     THEN /\ open' = t /\ Goto(t, FirstStep[Kind[t]])
          /\ UNCHANGED <<phase, outcome>>
     ELSE Settle(t, "failed") /\ UNCHANGED <<open, step>>
  /\ UNCHANGED <<nested, prev, tail, saved, view, todo, got, result, query, record,
                 faults>>

\* A single write: durable at once, unless a transaction is open around it.
Write(t) ==
  /\ Kind[t] = "write" /\ Runs(t, "begin")
  /\ view' = Put(view, {t})
  /\ saved' = IF open = None THEN view' ELSE saved
  /\ Settle(t, "ok")
  /\ UNCHANGED <<nested, prev, tail, open, step, todo, got, result, query, record,
                 faults>>

\* applyMutations: the receipt of an earlier commit of the same command, the
\* compare-and-swap of the revision, the items one by one, the receipt.
ReadReceipt(t) ==
  /\ Runs(t, "receipt")
  /\ IF Key[t] \in view.keys
     THEN Return(t, "duplicate")
     ELSE Goto(t, "revision") /\ UNCHANGED result
  /\ UNCHANGED <<chain, database, todo, got, outcome, query, record, faults>>

SwapRevision(t) ==
  /\ Kind[t] = "commit" /\ Runs(t, "revision")
  /\ IF view.rev # Expected[t]
     THEN Return(t, "conflict") /\ UNCHANGED view
     ELSE view' = Bump(view) /\ Goto(t, "items") /\ UNCHANGED result
  /\ UNCHANGED <<chain, saved, open, todo, got, outcome, query, record, faults>>

WriteItem(t) ==
  /\ Runs(t, "items")
  /\ \E i \in todo[t] :
       /\ view' = Touch(view, {i})
       /\ todo' = [todo EXCEPT ![t] = @ \ {i}]
  /\ UNCHANGED <<chain, saved, open, step, got, result, outcome, query, record, faults>>

WriteReceipt(t) ==
  /\ Runs(t, "items") /\ todo[t] = {}
  /\ view' = Put(view, {t}) /\ Return(t, "ok")
  /\ UNCHANGED <<chain, saved, open, todo, got, outcome, query, record, faults>>

\* getSnapshot: the revision, then the rows.
ReadRevision(t) ==
  /\ Kind[t] = "snapshot" /\ Runs(t, "revision")
  /\ got' = [got EXCEPT ![t].rev = view.rev] /\ Goto(t, "rows")
  /\ UNCHANGED <<chain, database, todo, result, outcome, query, record, faults>>

ReadRows(t) ==
  /\ Runs(t, "rows")
  /\ got' = [got EXCEPT ![t].rows = view.rows] /\ Return(t, "ok")
  /\ UNCHANGED <<chain, database, todo, outcome, query, record, faults>>

\* A transaction of another store writes its row, before or after the work
\* nested in it.
KeepRow(t) ==
  /\ Runs(t, "keep")
  /\ view' = Put(view, {t}) /\ Return(t, "ok")
  /\ UNCHANGED <<chain, saved, open, todo, got, outcome, query, record, faults>>

\* Mutant: the changes of a failed transaction stay on the connection.
RollBackNothing(t) ==
  /\ open = t /\ open' = None /\ UNCHANGED <<saved, view>>

RollBack(t) ==
  /\ open = t /\ open' = None /\ view' = saved /\ UNCHANGED saved

Commit(t) ==
  /\ Runs(t, "commit")
  /\ saved' = view /\ open' = None /\ UNCHANGED view
  /\ record' = IF view.rev \in DOMAIN record THEN record
               ELSE [r \in 0 .. view.rev |->
                       IF r = view.rev THEN Canvas(view) ELSE record[r]]
  /\ Settle(t, result[t])
  /\ UNCHANGED <<nested, prev, tail, step, todo, got, result, query, faults>>

\* A statement fails, or the operation throws: a transaction is rolled back.
Fail(t) ==
  /\ faults < MaxFaults /\ faults' = faults + 1
  /\ \E s \in Steps : Runs(t, s)
  /\ IF step[t] = "begin" THEN UNCHANGED database ELSE RollBack(t)
  /\ Settle(t, "failed")
  /\ UNCHANGED <<nested, prev, tail, step, todo, got, result, query, record>>

-----------------------------------------------------------------------------
(***************************************************************************)
(* CanvasService.queryItems: the revision, the page, the revision again,   *)
(* each a statement of its own outside of the chain.                       *)
(***************************************************************************)
QueryRevision(q) ==
  /\ query[q].at \in {"idle", "revision"}
  /\ query' = [query EXCEPT ![q].at = "page", ![q].seen = view.rev,
                            ![q].attempt = @ + 1]
  /\ UNCHANGED <<chain, database, locals, record, faults>>

QueryPage(q) ==
  /\ query[q].at = "page"
  /\ query' = [query EXCEPT ![q].at = "recheck", ![q].page = view.rows]
  /\ UNCHANGED <<chain, database, locals, record, faults>>

\* Mutant: the revision is not read again.
QueryNoRecheck(q) ==
  /\ query[q].at = "recheck"
  /\ query' = [query EXCEPT ![q].at = "done"]
  /\ UNCHANGED <<chain, database, locals, record, faults>>

QueryRecheck(q) ==
  /\ query[q].at = "recheck"
  /\ query' = [query EXCEPT ![q].at =
                 IF query[q].seen = view.rev THEN "done"
                 ELSE IF query[q].attempt < MaxAttempts THEN "revision"
                 ELSE "refused"]
  /\ UNCHANGED <<chain, database, locals, record, faults>>

-----------------------------------------------------------------------------
Statement(t) ==
  \/ Begin(t) \/ Write(t)
  \/ ReadReceipt(t) \/ SwapRevision(t) \/ WriteItem(t) \/ WriteReceipt(t)
  \/ ReadRevision(t) \/ ReadRows(t)
  \/ KeepRow(t)
  \/ Commit(t)

Read(q) == QueryRevision(q) \/ QueryPage(q) \/ QueryRecheck(q)

Next ==
  \/ \E t \in Tasks : CallNested(t) \/ CallChained(t) \/ Start(t)
                      \/ Statement(t) \/ Fail(t)
  \/ DropTail
  \/ \E q \in Queries : Read(q)

Spec == Init /\ [][Next]_vars

\* The driver completes statements and the event loop runs continuations;
\* nobody has to call an operation.
FairSpec ==
  /\ Spec
  /\ \A t \in Tasks : WF_vars(Start(t) \/ Statement(t))

-----------------------------------------------------------------------------
(***************************************************************************)
(* Properties.                                                             *)
(***************************************************************************)
\* Two operations that both hold the connection are one inside the other:
\* the tail an operation is chained behind always stands for every operation
\* called before it, although the tail is dropped, inherited leases expire
\* and operations fail (run-database-transaction.ts, runSerializedOperation).
Owners == {t \in Tasks : phase[t] = "active" /\ t \notin nested}
SingleOwner ==
  /\ \A t, u \in Owners : t = u
  /\ \A n \in nested : phase[n] = "active" => Parent[n] \in Owners

\* No BEGIN meets an open transaction, which the driver would reject, and no
\* single write slips into a transaction of another store, which may roll it
\* back after the writer was told it is done.
NothingIntrudes ==
  \A t \in Tasks \ nested : Runs(t, "begin") => open = None

\* The operations that were called settle, all of them, whatever failed before
\* them and although nested work is awaited by the owner of the lease.
Pending(t) == phase[t] \in {"waiting", "active"}
EveryCallSettles ==
  (\E t \in Tasks : Pending(t)) ~> (\A t \in Tasks : ~Pending(t))

\* Statement by statement, transactions, snapshots and single writes take
\* effect as the contract says: at once and entirely, or not at all.
ImplementsContract == Contract!Spec

\* As long as no transaction is rolled back, reading the revision on both
\* sides keeps queryItems from mixing more than two revisions: every item of
\* the page is as the revision seen wrote it, as it was saved with it, or as
\* it was saved right before.
PageSpansOneCommit ==
  faults = 0 =>
    \A q \in Queries, i \in Items : query[q].at = "done" =>
      LET seen == query[q].seen IN
        \/ query[q].page[i] = seen
        \/ \E r \in DOMAIN record : seen \in {r, r + 1} /\ query[q].page[i] = record[r].rows[i]

\* A page that queryItems returns was the content of the canvas at some
\* revision that was saved.
PageWasCommitted ==
  \A q \in Queries : query[q].at = "done" =>
    \E r \in DOMAIN record : query[q].page = record[r].rows
=============================================================================
