# TLA+ verification of omnidraw

omnidraw is a local-first infinite canvas with AI widgets: a backend that owns
the canvases, a browser client that edits them optimistically, and services
that keep resources, run widgets, functions and agents. This directory models
the parts of it where a mistake loses or corrupts a user's work, or leaves
somebody waiting for ever: the **canvas authority** with its store, client and
deletion, the **resources** (databases, key-value stores, their lifecycle and
drains), the **files of a widget** (publication, deletion, build) and the
**services** between backend and client (event streams, functions, preview
inspections).

Source paths are relative to the repository; in the text a file is named by its
last part (`CanvasService.ts` is
`apps/backend/src/shell/canvas/authority/CanvasService.ts`). `PROJECT.json`
lists every component with its sources, the lines each definition models, and
every hazard at its line with the properties that cover it.

## 1. Inventory

| Component | State it keeps | Operations | Talks to | What makes it hard | Correct when |
|---|---|---|---|---|---|
| **Canvas authority** `CanvasService.ts` | per canvas: promise chain, cached items and revision, replay log, subscribers, `releasing` | execute, getSnapshot, queryItems, subscribe/next/return, begin/abort/commitDeletion, stop | the store (await), the streams (push), `txDeleteCanvas` | every operation awaits several times; decisions are made on cached items; outcomes of a transaction can be unclear | commits are linear and admissible, acknowledgements are true, no consumer misses a commit silently |
| **Durable store** `CanvasItemStoreTurso.ts`, `CanvasDeletionStoreTurso.ts` | `canvases`, `canvas_items`, receipts in `key_values` | getCommandResult, getRevision, getSnapshot, queryItems, applyMutations, plan/commit of a deletion | one Turso connection shared by all stores | compare-and-swap, durable but reported as failed | one revision per command, all or nothing |
| **Canvas deletion** `tx.delete-canvas.ts` | none of its own | claim, dispose chats, commit, abort or release | authority, agent, store | failure or interruption between two steps | one owner, the claim is always resolved |
| **Canvas contract** `packages/canvas-contract` | none | validation of documents and commands | both sides | bounded validation against whole-document rules | what commits can be read back |
| **Canvas client** `packages/canvas/src/services` | accepted items and revision, pending transactions, outbox, history | commit, acknowledge, accept event, recover, undo/redo, upload | transport, engine | answers and event stream race; recovery drops optimistic state | accepted state is the authority's, no edit is lost silently |
| **Serialization primitives** `run-serialized-operation.ts`, `run-database-transaction.ts` | tail per scope, leases in async context | run | every store | re-entrancy by inherited context | mutual exclusion, no self-deadlock |
| **RPC transport** `layer.effect-rpc.ts`, `rpc.ts` | connection generation, stream cursors | request, resumable stream, reconnect | client, server | answers of a retired generation, overlapping resume | no event lost or repeated |
| **Backend events** `EventBus.ts` | numbered log, bounded subscribers | publish, subscribe | transport | slow consumers, trimmed replay | a gap is reported, never silent |
| **Function execution** `shell/function-execution` | child processes, write permits | invoke, time out, kill, revoke | resources, canvas | timeout against late answer | no write begins after the deadline |
| **Database apply and restore** `DbResourceCoordinator.ts`, `DbResource.ts` | drafts, runs, backups, markers, catalogue status | draft, apply, restore, reconcile | file system, control database | three records no transaction spans; a crash between any two | recovery reaches a consistent database, nothing acknowledged is lost |
| **Key-value store** `ResourceKeyValueStore.ts` | open handles, write tails, admission queue | get/set/…, evict, sweep, delete, verify, close | resource files | eviction and close against use; waiting at the bound | never more than the bound, closed under a call only by a sweep that had listed it |
| **Resource catalogue** `ResourceStoreService.ts`, `ResourceManager.ts` | rows, placements, gates, blocks | create, delete, use, apply, stop, reconcile | providers | crash between row and files | a ready row stands for a whole resource |
| **Resource use drain** `ResourceUseDrainCoordinator.ts` | attached consumers, leases | attach, drain, release | consumers | late answers, expiries | while a lease is held, every consumer has stopped |
| **Widget publication** `widget-filesystem/publication` | folders, journals, writer lock, barrier | publish, write metadata, recover | file system | crash between two renames | the last good folder is in place or restorable |
| **Widget deletion** `WidgetFilesystemManagementService.ts` | plan, journal, trash | plan, commit, recover | canvas, chats, build | partial progress over five stores | only what was reviewed is removed, all of it |
| **Widget build** `WidgetBuildGenerationService.ts` | shared operation, stages, projection | ensure, rebuild, cancel, recover | bundler, file system | callers share and cancel one build; projection by renames | dist is a build that was verified |
| **Preview inspection** `preview-inspection` | queue, jobs, one browser | run, cancel, stop | Chromium, shell server | everything may answer late or never | nothing stays open behind a job |
| **Agent**, **previews and runtime catalogue**, **timing**, **hosting**, **frontend UI**, **SDK/theme/chat** | see `PROJECT.json` | | | external processes, presentation | not modelled |

## 2. Modules

A component has a module; `MC…` modules instantiate them for TLC, `…Proofs`
modules hold theorems. `MCResources`, `MCWidgets` and `MCServices`
put components that share no state side by side: a behaviour is one of the
component named by the variable `part`, the variables of the others stay as
they begin, so a run of such a module is the sum of the runs of its parts.

| Module | Models |
|---|---|
| `CanvasItems` | items, operations, preconditions, the reduction of a command and the two forms of validation: over a whole document (`WellFormed`, `Readable`) and bounded (`LocallyValid`) |
| `CanvasContract` | abstract specification: one history of commits, acknowledgements, deletion |
| `CanvasAuthority` | the authority with its store, streams and deletion for one canvas |
| `StoreRows` | the operations of the stores and the rows they write |
| `StoreContract` | abstract specification: an operation takes effect at once and entirely, or not at all |
| `StoreConnection` | the shared connection statement by statement: promises, leases, transactions, single writes, `queryItems` |
| `CanvasDocument` | the client of one canvas against an authority with other clients |
| `DatabaseApply` | drafts, apply and restore runs of one database |
| `KeyValueHandles` | the pool of open databases of the key-value store |
| `ResourceLifecycle` | a resource from its reservation to its deletion, over crashes |
| `UseDrain` | the coordinator of a resource's uses and its leases |
| `WidgetPublication` | publication, metadata, recovery, barrier, writer lock |
| `WidgetDeletion` | the confirmed deletion of a widget with its journal |
| `WidgetBuild` | the shared build of a draft and the projection of its output |
| `EventStream` | `EventBus` and the resumable stream that reads it over one socket |
| `FunctionExecution` | executor, child driver, write permits and write lanes |
| `PreviewInspection` | preflight, queue, jobs, the shared browser, the stop |
| `MCCanvasAuthority`, `MCStoreConnection`, `MCCanvasDocument`, `MCResources`, `MCWidgets`, `MCServices` | instances for the runs |
| `MCKeyValueHandles`, `MCWidgetPublication`, `MCWidgetDeletion`, `MCWidgetBuild` | instances of single components, for `deletion_scans` and the observations of section 4 |
| `CanvasAuthorityProofs`, `CanvasDocumentProofs`, `StoreConnectionProofs`, `EventStreamProofs`, `KeyValueHandlesProofs`, `ServicesProofs`, `ResourcesProofs`, `WidgetsProofs` | theorems, section 5 |

An action is a stretch of code between two awaits, so that whatever can happen
during an await (new calls, other callers, late answers, crashes) is interleaved
there. Each module's header says what its state stands for; the sections below
give what the headers do not.

The two halves of the canvas meet at the store interface. `CanvasAuthority`
takes `applyMutations`, `getSnapshot` and a deletion as single steps;
`StoreConnection` shows that their statements deserve it (`ImplementsContract`).
The one operation that is not covered by the contract, `queryItems`, is not
among the steps of `CanvasAuthority`. The reads the authority makes by itself
(`getRevision`, `getCommandResult`, `queryItems` of `#validateAttempt`) are not
serialized either, but they run in the queue of their canvas, and within one
process only that queue and the deletion it waits for write its rows.

### CanvasAuthority

`CanvasService` gives each canvas a promise chain; an operation is a task on
it. `queue` is that chain, `run` the local variables of the task at its head.

| Variables | Code |
|---|---|
| `exists, revision, items, receipts` | rows of `canvases`, `canvas_items`, `key_values` |
| `history` | history variable: who made each revision |
| `releasing, known, cache, events, queue` | `TCanvasState` (`releasing`, `revision`, `items`, `events`, `tail`) |
| `run` | locals of `#executeSerialized` |
| `reader` | `TSubscriber` and what its consumer last received |
| `answers, calls, deletion, plan` | what callers of `execute` were told; where each `txDeleteCanvas` stands |
| `spent` | how much of the bounds has been used |

| Actions | Code |
|---|---|
| `Execute`, `StartCommand`, `ReadRevision`, `LoadItems`, `CheckGuards`, `Validate`, `CheckRevision`, `ApplyMutations`, `RevisionConflict`, `AcceptResult`, `ResyncAfterFailure`, `ReadFails` | `execute`, `#executeSerialized` await by await |
| `GetSnapshot`, `ServeSnapshot`, `Subscribe`, `ServeSubscribe`, `ReadStream`, `Return` | `getSnapshot`, `#createSubscriberIterator` |
| `PlanDeletion`, `BeginDeletion`, `ServeBegin`, `DisposeChats`, `CommitDeletion`, `ServeAbort`, `ReleaseDeleted`, `ServeRelease`, `Interrupt` | `txDeleteCanvas`, `beginDeletion`, `abortDeletion`, `commitDeletion`, the deletion store |
| `CommitElsewhere` | another authority on the same `ICanvasStore`, the case the compare-and-swap is written for |
| `Restart` | the process dies or stops and comes back |

- The awaits of `#validateAttempt` are one step, and so are those of a
  snapshot or a subscription: nothing they read is used unless a later
  re-read of the revision confirms it, or a single transaction delivers it.
- A failing `beginDeletion` clears `releasing` a few microtasks after its task;
  both are in `ServeBegin`.
- `commitDeletion` drops the state object, and the tasks still on its chain
  fail one by one at `assertUsable`; `ServeRelease` answers them all.
- `stop` and a crash are both `Restart`; `release` (323-338) has no callers.
- A command has one operation per item. The value of an item stands for all
  paths a precondition compares; node kinds, JSON limits, widget admission and
  image claims do not appear. `maxTouchedItems` does, with the cache pruning.
- The deletion plan is the canvas revision; a repeated call with the same
  deletion id, answered from an in-memory receipt, is left out.

### StoreConnection

| Variables | Code |
|---|---|
| `phase, nested` | a call of `runSerializedOperation`: waiting for `previous`, running under its lease, or running at once under the lease it inherited from `AsyncLocalStorage` |
| `prev, tail` | `previous` of each call, and the scope's entry in the map of tails |
| `saved, view, open` | durable rows, what a statement of the connection sees, the transaction in progress |
| `step, todo, got, result` | the next statement and the locals of `applyMutations`, `getSnapshot` and other stores' transactions |
| `outcome` | what the caller was told |
| `query` | where each `queryItems` stands |

| Actions | Code |
|---|---|
| `CallNested`, `CallChained`, `Start`, `DropTail` | `runSerializedOperation` |
| `Begin`, `Commit`, `Fail` | `runDatabaseTransaction`: BEGIN, COMMIT, ROLLBACK and rethrow |
| `ReadReceipt`, `SwapRevision`, `WriteItem`, `WriteReceipt` | `applyMutations`, statement by statement |
| `ReadRevision`, `ReadRows` | `getSnapshot` of the store |
| `KeepRow`, `Write` | a transaction of another store (one row stands for all it writes); a single serialized write |
| `QueryRevision`, `QueryPage`, `QueryRecheck` | `CanvasService.queryItems` |

Assumed: work under an inherited lease is called inside the transactions of
other stores and awaited by them, so a lease never ends before the work it
admitted; nobody else writes the database file; a `COMMIT` that is durable
although it is reported as failed is left to `CanvasAuthority`, where
`ApplyMutations` has that outcome.

### CanvasDocument

`Edit`, `Undo` and `Redo` are the mutations of `CanvasDocumentService`; each
forks a fiber (`fiber`, `lane`) that sends its command. The authority is its
log of commits; `Execute` appends, `RequestLost` loses a request or an answer,
`Remote` is another client. `NextEvent` consumes the event stream;
`ReadSnapshot` and `InstallSnapshot` are the recovery. Left out: the structure
of nodes (children that follow a deleted parent), images and the gate of their
uploads, the engine's own scene, coalescing of history entries,
`commitWithoutHistory`, dispose. Whether a request fails is decided before it is
reported. Fresh command ids are taken in order (`InOrder`), which only renames.

### Resources

`DatabaseApply` keeps the three records that no transaction spans: the files
(`live`, `backup`, `draft`), the control rows (`run`) and the catalogue status.
`Execute` walks through `executeApply` and `executeRestore`, `Reconcile` through
`reconcileApply`, at startup (`BootRun`) or after a client's poll
(`PollStaleRun`). Draining the functions that use the resource is one step that
may time out; the grace of a stale run is left open; the reconcile that
`requireNoActiveApply` starts is `PollStaleRun` and a retry. `close()` of the
coordinator is left out.

`KeyValueHandles` leaves open which idle handle is evicted and when a handle
counts as expired: any candidate may be chosen. Retried closes succeed all or
none. `ResourceLifecycle` has one provider for key-value, secret and database
resources; of a run it keeps whether it is an apply or a restore (`run`) and
whether the file carries its marker (`marked`). A run that its process left is
reconciled at startup (`SettleRun`), by a client that asks for it (`Poll`) or by
the next confirmed run (`Accept`): `Reconcile` looks at the file, `Recopy` puts
the backup over it, `EndRun` writes the row of the run and `SettleRow` that of the
resource. Rename, draft operations, name conflicts and the parts of
`ResourceManager` no production code calls are left out, the grace of a stale run
is left open, and after a stop the manager stays closed for that process. `UseDrain` has one resource; consumers
are external: they keep their child lease until it is released or expires and
reject a release of one they do not hold. `inspect()` and altered fencing data
are left out. No production code attaches a consumer yet.

### Widgets

`WidgetPublication`: startup serves at once, as it is wired: nothing calls
`recoverAtomicPublications`, which its tests and its design document run at start
(section 4); `Recover` is that function, called while the process serves. A
validation that refuses is a fault; malformed journals, the claim window of a
compare-and-remove and draft leases are abstracted; crashes are of the process.
`WidgetDeletion`: journals and trash are per plan; one unfinished plan at a time;
the catalogue digest is the two folder versions. Editors that bypass the
admission fence, paging over canvases, receipts and torn journal files are left
out. `WidgetBuild`: a build is identified by the source it was made from; one
widget, whose jobs run one after the other. External edits of `dist`, SDK
versions, listeners and the watcher are left out; a removal that is cut short
leaves any subset.

### Services

`EventStream`: the socket is external; its disconnect hook runs before the
streams it carried fail. Opening is one step; an abandoned subscription ends in
the same step; a recovery (chat history) covers what was published when it is
read. An undefined initial cursor, an unexpected `done`, `latestNotification`,
requests and the dispatcher are left out. `FunctionExecution`: a call's clock is
one bit; the child answers anything at any time or never; the checks of
`FunctionService`, schemas, artifact admission and the worker are left out.
`PreviewInspection`: what a page does is external; digest checks, job
validation and runtime evidence are a choice to fail; job directories are not
tracked. `MCServices` looks at calls and inspections in two views each: the
admission of several, and what a few do.

## 3. Properties and runs

| Run | Instance | Properties |
|---|---|---|
| `authority_commands` | two commands called up to twice, a reader that opens twice, queue and replay log of length 1, one failure of each kind, one commit by another authority, one restart | `CommittedOnce`, `AcknowledgedIsCommitted`, `StreamHasNoGap`, `StateIsSound`, `VerdictsAreTrue`, `ImplementsContract` |
| `authority_deletions` | one command, two deletions, one of which may be interrupted, one failure; fair | `TypeOK`, `DeletionsExclude`, `ClaimIsResolved`, `EveryoneIsServed` |
| `connection` | a commit, a transaction with nested work, a snapshot, a write, a page query, one failure; fair | `SingleOwner`, `NothingIntrudes`, `PageSpansOneCommit`, `ImplementsContract`, `EveryCallSettles` |
| `document` | two items, three own commands, two of others, an undo history of two entries, one failure; fair | `AcceptedIsCommitted`, `ShownIsAcceptedAndPending`, `HistoryIsSound`, `AnswersAreTakenRight`, `Converges` |
| `resources_safety` | two runs, a draft, a write, two crashes, two faults; four calls, two of them writes, and a sweep on three stores that share two handles; three operations on a database with a crash; two consumers and two drains | `RunsAreSafe`, `HandlesAreSafe`, `VerdictIsTrue`, `ResourcesAreWhole`, `LeasesAreWhole` |
| `resources_liveness` | the same, smaller: a write and two reads share one handle, with two faults and a sweep; one lifecycle fault; fair | `EveryCallSettles`, `InterruptedWorkSettles`, `FailedDrainsAreUndone` |
| `widgets_safety` | two publications, a metadata write, a recovery and a reader; two plans and two edits; two sources and two builds; one fault and one crash each, and the start after it | `LiveIsVerified`, `ReadersSeeWhole`, `LastGoodIsKept`, `OnlyReviewedRemoved`, `EnsureIsFresh` |
| `widgets_liveness` | the same, smaller: one publication, one plan, an edit, an interruption, builds of the draft; fair | `WaitersAreServed`, `DeletionConverges` |
| `services_safety` | four events and a break; two calls with two writes; three jobs in the queue; two pages with two launches and a fault | `StreamIsWhole`, `CallsAreSafe`, `InspectionIsClean` |
| `services_liveness` | two events, one call, two timed jobs; fair | `StreamsGoOn`, `CallsEnd` |
| `authority_references` | clip q to p, then delete p | `DocumentReadable`, **violated** |
| `deletion_scans` | a deletion against a running build | `ScansAreServed`, **violated** |

Each property is commented in its module with the code it is about; those of
the group modules are conjunctions of properties of their components, which are
commented there. Each has a mutant of the code (an operator next to the
original) that its run must catch.

**Bounds.** Two items are enough for a parent, a reference, a cycle and
eviction with `MaxTouched = 2`. `MaxReplay = 1` makes the replay log trim and a
queue overflow on the second commit. `MaxAttempts = 2` lets a command both
retry and run out of attempts. On the connection each operation is called once;
the write called from the context of a transaction runs inside it or, if called
after the lease expired, behind the tail; `add` and its retry share a receipt.
Three own commands are the first that can be at once in flight, waiting in the
lane and composed on both (the third is only issued without faults and without a
second foreign commit: `ThirdAlone`). One or two handles for three stores make
every opening evict, wait or fail; two calls for one store share a handle, and a
sweep that lists two handles closes the second one after an await. A database
run needs a second one to find the first one's leftovers, and a second crash to
interrupt its recovery. Two publications, two plans, two builds are the smallest
number that can meet. The counters (`Max…`) bound only what the environment does:
calls, faults, crashes, edits, events. When they are spent the system rests,
which is why the runs do not check deadlock.

**Why another authority.** The local deployment locks its database, so
`MaxForeign = 0` there. The compare-and-swap, the re-reads and `resync-required`
exist for an injected `ICanvasStore` that others write to, and
`authority_commands` checks them against exactly that. Some promises end there,
and the properties say so: an aborted deletion forgets the revision without
telling subscribers (`CanvasService.ts:302`), so with deletions and another
authority `StreamHasNoGap` fails (`authority_commands` has no deletions, the
theorem assumes one or the other is absent); a command that another authority
commits between the receipt lookup and the attempts can be answered as a
conflict (`:383`), so `VerdictsAreTrue` speaks of `spent.foreign = 0`; a claim
does not stop the other authority. An interrupted deletion (between claim and
commit, `tx.delete-canvas.ts:53`) keeps `releasing` until a restart, which
`ClaimIsResolved` and `EveryoneIsServed` exclude.

**Fairness.** Nothing is assumed of callers, users, other authorities, pages,
children, faults or crashes. What is assumed, all of it weak unless said:

- Promise chains and fibers: a task whose await settled runs on; a failure is a
  settlement (`Start`, `Statement`, queue and deletion steps, `Step`, `OpStep`).
- Drivers, files, timers and launches of the host come to an end, possibly with
  an error; time passes (`Tick`, `DeadlinePasses`).
- A consumer that holds a stream calls `next()`; the authority answers; a broken
  socket is noticed and connected again; a failed reload is retried.
- A process that is down is started again; a client polls a stale run; a person
  retries a deletion that is pending.
- Strong fairness is used only where jobs of a widget compete for its one turn
  (`StartBuild`, `StartObserve`): `observeTail` is first come, first served, and
  the model does not keep the order.

**What the properties except.** Where the code leaves something behind, the
property names that case and requires everything else; section 4 has a
configuration for each. An exception was kept only if the property fails without
it.

| Property | Holds but for | Shown by |
|---|---|---|
| `HandlesAreSafe` (`OnlyListedAreCut`) | a call that takes a handle which the running sweep has listed | `handles_sweep` |
| `EveryCallSettles` (`LeftBehind`) | a call behind a newcomer that is parked for good: next to the idle handle of a write that settled, or for a close that failed | `handles_wakeup` |
| `ResourcesAreWhole` (`ReadyStaysWhole`, `UsesKeepFiles`) | a restore that is copied again under a ready row; a migrating row without a run, which a start sets to ready unseen; calls in progress while a left run is reconciled | `apply_broken_ready` |
| `ReadersSeeWhole` (`CutShort`) | a widget whose replacement a crash cut short and whose journal nothing reads | `publication_startup` |
| `DeletionConverges` (`Overtaken`, `Unretried`, `EachWaits`) | an edit after the first move; a lease or a stale journal that could not be removed; a build that waits for the deletion that waits for it | `deletion_retry`, `deletion_scans` |

`DeletionConverges` was also checked with three edits, which a frame that takes the
place of a reviewed one needs (`Overtaken`, second case), without crashes,
interruptions and builds; that instance takes longer than the run.

## 4. What was found

**A referenced node can be deleted, and the canvas can then not be opened**
(`authority_references`). `#validateAttempt` looks at the children of a deleted
item only (`CanvasService.ts:552-560`). A node that another one names as clip,
label or obstacle can be deleted; the commit succeeds. `getSnapshot` asserts the
whole document (`CanvasItemStoreTurso.ts:383`) including those references
(`packages/canvas-contract/src/validation.ts:1101`) and throws from then on. The
conformance reducer, which validates the whole result, would refuse the command
(`fn.reduce-command.ts:166-171`).

**A deletion can wait for a build that waits for it** (`deletion_scans`).
`retireDraft` awaits the running build inside `barrier.withWrite`
(`WidgetBuildGenerationService.ts:575-587`,
`WidgetFilesystemManagementService.ts:879`); the build ends with
`catalog.refresh`, which reads the same barrier. Both wait for ever with the
writer lock held.

Further observations, each with a configuration that shows it (they are not runs
of `PROJECT.json`):

| cfg (module), property | Code | What happens |
|---|---|---|
| `connection_page` (`MCStoreConnection`), `PageWasCommitted` | `CanvasService.ts:217` | `queryItems` reads revision, page, revision without waiting for the open transaction and, on the same connection, sees what it wrote: a page can hold half of a commit (`ICanvasService.ts:57` promises it atomic). Without rollbacks a page mixes two successive revisions at most (`PageSpansOneCommit`) |
| `apply_broken_ready` (`DatabaseApply`), `ReadyIsHealthy` | `DbResourceCoordinator.ts:632` | a restore copied again at startup fails, the catalogue stays ready over a broken file; `ReadyStaysWhole` of `ResourceLifecycle` permits this step and one other |
| `apply_failed_write`, `LostVerdictStaysOpen` | `:524` | the terminal write of a successful apply throws and the run is recorded as failed |
| `apply_restore_claim`, `OfferedBackup` | `:620` | a reconciled restore claims the backup of its source, which `getBackup` then answers with null |
| `handles_sweep` (`MCKeyValueHandles`), `NobodyCut` | `ResourceKeyValueStore.ts:1158` | the sweep closes handles that were taken since it listed them: a call is cut |
| `handles_wakeup`, `IdleGivesWay` | `:1011` | waiters are notified while the write is still pending, and nobody later (`:1196`) |
| `stream_epochs` (`EventStream`), `NothingMissed` | `EventBus.ts:109` | a cursor does not name the run of the backend: after a restart a subscriber can miss events |
| `publication_startup` (`MCWidgetPublication`), `StartupRestores` | `layer.live-mechanics.ts:952` | `recoverAtomicPublications` has no caller; the design document says startup runs it |
| `deletion_retry` (`MCWidgetDeletion`), `RetrySucceeds` | `WidgetFilesystemManagementService.ts:833` | a deletion that fails after its first move finds itself stale for ever |
| `build_kept` (`MCWidgetBuild`), `LastGoodIsKept` | `WidgetBuildGenerationService.ts:755` | with two failures a projection marker without a backup removes the live dist |
| `build_joined`, `OnlyCancellersAbort` | `:282` | a new caller joins an operation that was aborted by the others |

Seen while modelling and not in a configuration: an errored resource can never be
deleted or renamed (`ResourceStoreService.ts:253`), and a failed deletion is
marked as an error although the table of `fn.resource-lifecycle.ts:24` forbids
it; a lock left behind by a failing sync or a crash stays (only a deletion's is
cleared at startup), and a crash between lease and journal of a deletion makes
every later startup throw; a first publication whose validation after reopening
fails closes all readers; a write asked for by a cancelled call may still start
until its deadline, and a child that leaked frees its slot; a drain lease that
ends with a failure after its expiry is entered again; a directory of an aborted
inspection may be made after its cleanup, a shell opened while `stop` ends
restarts the server, and a job retires the current browser, not the one it used.


## 5. What is proved

Every theorem is proved for all values of the constants, from nothing but the
assumptions the modules name (`CommandAssumption`, `BoundsAssumption`,
`PoolAssumption` and the like: which sets are finite or disjoint, which bounds
are numbers) and the hypotheses in the last column.

| Theorem (module) | Property it states | For all … |
|---|---|---|
| `CommittedAtMostOnce`, `AcknowledgementsAreTrue`, `TypeCorrect` (`CanvasAuthorityProofs`) | `CommittedOnce`, `AcknowledgedIsCommitted`, `TypeOK` | commands, items, readers, deletions, limits |
| `StateStaysSound`, `VerdictsStayTrue`, `AuthorityImplementsContract` | `StateIsSound`, `VerdictsAreTrue`, `ImplementsContract` (refinement of `CanvasContract`) | the same |
| `DeletionsStayExclusive` | `DeletionsExclude` | the same |
| `StreamsHaveNoGap` | `StreamHasNoGap` | the same, with no deletions or no other authority |
| `OneOwnerOfTheConnection`, `NothingIntrudesEver`, `PagesSpanOneCommit`, `ConnectionImplementsContract` (`StoreConnectionProofs`) | `SingleOwner`, `NothingIntrudes`, `PageSpansOneCommit`, `ImplementsContract` (refinement of `StoreContract`) | operations, call contexts, queries, failures |
| `AcceptedStaysCommitted`, `ShownStaysInOrder`, `HistoryStaysSound`, `AnswersStayRight` (`CanvasDocumentProofs`) | `AcceptedIsCommitted`, `ShownIsAcceptedAndPending`, `HistoryIsSound`, `AnswersAreTakenRight` | items, commands, other clients, capacities, failures |
| `StreamStaysWhole` (`ServicesProofs`; `EventsComeOnce`, `NoEventIsMissed` of `EventStreamProofs`) | `StreamIsWhole` | events, replay and queue limits, restarts, breaks |
| `HandlesStaySafe` (`ResourcesProofs`; `HandlesStayBounded`, `MaintenanceIsAlone`, `CutsAreListed` of `KeyValueHandlesProofs`) | `HandlesAreSafe` | resources, calls, limits, sweeps, deletions, failures |
| `RunsStaySafe`, `VerdictsStayTrue` (`ResourcesProofs`) | `RunsAreSafe`, `VerdictIsTrue` | runs, drafts, changes, writes, crashes, faults |
| `LeasesStayWhole` (`ResourcesProofs`) | `LeasesAreWhole` | consumers, drains, expiries, timeouts, late or missing answers, failing releases |
| `LiveStaysVerified`, `AnswersStayFresh` (`WidgetsProofs`) | `LiveIsVerified`, `EnsureIsFresh` | sources, calls of the two callers, edits, builds, stops, crashes, faults |

`EventStreamProofs` and `KeyValueHandlesProofs` are about a component;
`ServicesProofs` and `ResourcesProofs` instantiate them and show that a step of
the component inside its group is one of its steps by itself. The database's runs,
the drains and the builds are proved inside their groups, as the components `Apply`
and `Drains` of `MCResources` and `Build` of `MCWidgets`.

**The arguments.**

*Canvas authority.* `CommittedOnce` is inductive with the types: a commit needs
the store's revision to be the one read and no receipt. An acknowledgement is
true because a receipt, once written, is never changed (`ReceiptKept`), and the
running command only answers with what it read or wrote (`RunOK`, `AcceptOK`).
`SafeInv` says what the running command and the cache know at each await: the
known revision is at most the store's (`KnownOK`), from its read to the
acceptance the command's revision is the known one (`SeenOK`), the items it
touches survive the pruning of the cache (`LoadedOK`), and as long as the store
has not moved, the command was reduced over the rows the store holds
(`OriginalOK`, `TwinOK`); the compare-and-swap refuses it otherwise. So each step
of the authority is a commit, a deletion or nothing of the contract.
`StreamInv` says that each stream is in order by itself, that a reader has one
request in the queue and no open stream meanwhile, and that an open stream ends
at the known revision or, after an aborted deletion forgot it, at the store's;
without another authority these agree except between transaction and acceptance.

*Connection.* `ChainInv` is the reason why one operation runs at a time: every
non-empty set of live operations that leaves out the tail has a successor
outside itself, so the chain of `previous` promises has no fork and no cycle.
In the refinement the statements of a transaction stutter, `COMMIT` is the
atomic operation, and `Progress` relates what a transaction has written so far to
the result it will have. A page (`PageInv`): without rollbacks the shown
revision only grows and is at most one ahead of the saved one, and what is read
while a revision is shown belongs to it.

*Client.* Its lane is serial, so only the oldest pending command has left
(`TurnIsHead`); the accepted items are the document of the accepted revision
because events are taken in order only, and snapshots and answers move the
revision to where their document is; the history is a pair of stacks whose
entries are linked item by item (`HistoryOK`). Every step is one of a few kinds
(`Kinds`), and each part of the invariant has a lemma for each kind.

*Event stream.* The cursor splits the log: everything behind it was given or is
covered by a history (`GivenInv`), everything ahead of it is on the wire or
queued as long as the subscriber lives (`FlightInv`), and the wire has no hole
(`WireInv`). Positions in a list are compared by a least-number principle on
sets, where an induction would be natural.

*Handles.* The bound is a sum over the four places where a database can be
open: cached, being evicted or swept, being closed for maintenance, or left
behind by a failed close. Every step moves one between the places except an
opening, which looks at the sum. Only the head of a write tail has asked for
its handle. The users of a handle are calls under way (`UseInv`), so whoever
waits until the calls of a resource are over, or finds its handle idle in the
step that closes it, cuts nobody; only a sweep closes a handle in a later step
than the one that found it idle, and then it is one of its list (`CutsFollow`).

*Database.* One run is open at a time, and a task that is not idle or about to
release the catalogue works for it (`RunsInv`); hence what the files are between
two steps is known from where that task stands (`FilesInv`): from the drained
block on no user write is admitted, from the copy on the backup is verified and
has all acknowledged writes, a verdict of success implies the marker, one of
recovery its absence. What a user may do meanwhile is write, until the block is
drained, and discard the backup of an earlier run. A marker is fresh until its
run sets it (`MarksInv`), and a marker implies that the draft was compared with
its file (`ReviewInv`), as the rows of an applying draft do not change. Startup
and polling clients re-enter the same invariant through `Look`.

*Drains.* `LeaseInv` is an invariant of each drain (`DrainOK`), a step of one drain
leaves every other one as it is (`Elsewhere`), and one part relates them: nobody
else owns the resource or runs while a drain does (`OwnersOK`). A lease is forgotten
when it expires, and entered again by a release that ends later, so what excludes a
second owner is the active lease and its expiry, which is that of the shortest child
(`LeaseOK`). A consumer answers once, so the lease it grants is new when it does
(`KnownOK`), too late or not; who is held is in the running drain, in the lease or was
told to resume (`RememberedOK`). During a release each child left is either still
asked, failed or released, and never two of these (`ReleaseOK`), and what was
released before was released in the same mode (`ModesOK`): that makes a partial
failure followed by any retries whole, and no consumer is asked again that carried
the release out.

*Builds.* `LiveIsVerified` speaks of a widget at rest, and is not inductive: in the
middle of a projection the live folder holds a dist that is not verified, or
nothing. `LiveSound` says what the recovery relies on then: what is live and not
good has a stage of its own with the projection marker set and nothing staged, so
`recoverHostBuildStages` can tell; after the recovery that happens only from the
second rename to the commit or the rollback. It needs `StagesSound` (a backup is of
a good build and a commit marker is never wrong, also when a removal was cut
short) and `Projecting` (what each step between the renames finds). While
nothing failed, `Untroubled` adds that a stage is there only for its own build, and
that the accepted generation is live or in the backup of the build that replaces
it. `EnsureIsFresh` follows from `Fresh`: a call has seen every source that the
draft had since it began, and whoever is past its observation while a build runs
has seen the input of that build, since the build captured it during the call.

**What stays with TLC.** Liveness under fairness and `ENABLED`
(`ClaimIsResolved`, `EveryoneIsServed`, `EveryCallSettles`, `Converges`,
`InterruptedWorkSettles`, `FailedDrainsAreUndone`, `WaitersAreServed`,
`DeletionConverges`, `StreamsGoOn`, `CallsEnd`) and recursion over data are out of
the provers' reach. Checked but not proved so far: `ResourcesAreWhole`,
`ReadersSeeWhole`, `LastGoodIsKept`, `OnlyReviewedRemoved`, `CallsAreSafe`,
`InspectionIsClean`.

## 6. What is left

Not modelled, with the reasons in `PROJECT.json`: the live layer around the
authority, widget previews and the runtime catalogue, the agent, timing helpers,
hosting, the frontend and the SDK. They are presentation, wiring or processes
whose behaviour is not in this repository.

Next: the proofs for the lifecycle of a resource (`ResourcesAreWhole`), then the
publication and the deletion of a widget (`LastGoodIsKept`, `OnlyReviewedRemoved`)
and the function calls (`CallsAreSafe`).
