---------------------------- MODULE CanvasAuthority ----------------------------
(***************************************************************************)
(* The canvas authority of the backend for one canvas: CanvasService with  *)
(* its durable store CanvasItemStoreTurso, the coordinated deletion        *)
(* txDeleteCanvas, and the event streams it serves.                        *)
(*                                                                         *)
(* Every operation of the service on one canvas is a task of a FIFO queue  *)
(* (the promise chain state.tail).  A task runs to its end before the next *)
(* one starts, but it awaits the store several times, and between two      *)
(* awaits callers enqueue tasks, claim or abort a deletion, read or leave  *)
(* a stream, another authority commits to the same store, or the process   *)
(* dies.  One action below is one stretch of code between two awaits.      *)
(***************************************************************************)
EXTENDS CanvasItems, Sequences, Integers

CONSTANTS
  Commands,       \* command identifiers
  Catalogue,      \* Catalogue[c]: base revision and operations of command c
  Readers,        \* consumers of the event stream
  Deletions,      \* deletion attempts (deletion ids)
  Foreign,        \* marks a commit of another authority on the same store
  ForeignBatches, \* the batches such an authority may commit
  MaxAttempts,    \* maxCommitAttempts
  MaxReplay,      \* maxReplayEvents
  MaxTouched,     \* maxTouchedItems
  MaxCalls,       \* bound: calls of one command
  MaxForeign,     \* bound: commits of other authorities
  MaxFaults,      \* bound: store and chat failures
  MaxRestarts,    \* bound: process restarts
  MaxInterrupts,  \* bound: deletions whose request fiber is interrupted
  MaxOpens        \* bound: snapshot reads and subscriptions of one reader

ASSUME CommandAssumption ==
  /\ Foreign \notin Commands
  /\ \A c \in Commands : /\ DOMAIN Catalogue[c] = {"base", "ops"}
                         /\ Catalogue[c].base \in Nat /\ IsBatch(Catalogue[c].ops)
  /\ \A ops \in ForeignBatches : IsBatch(ops)

ASSUME LimitAssumption ==
  /\ MaxAttempts \in Nat \ {0}
  /\ MaxReplay \in Nat \ {0}
  /\ MaxTouched \in Nat \ {0}

ASSUME BoundAssumption ==
  {MaxCalls, MaxForeign, MaxFaults, MaxRestarts, MaxInterrupts, MaxOpens}
    \subseteq Nat

VARIABLES
  \* durable: the canvases, canvas_items and key_values rows of the canvas
  exists, revision, items, receipts,
  history,    \* history variable: who made each revision
  \* TCanvasState of the canvas, lost when the process dies
  releasing, known, cache, events, queue,
  run,        \* where the task at the head of the queue stands
  reader,     \* the event stream of each reader
  \* callers
  answers, calls, deletion, plan,
  \* bounds
  spent

durable == <<exists, revision, items, receipts, history>>
callers == <<answers, calls, deletion, plan>>
vars == <<durable, releasing, known, cache, events, queue, run, reader, callers,
          spent>>

-----------------------------------------------------------------------------
Unknown == -1                                \* state.revision = null

Ops(c) == Catalogue[c].ops

Task == [kind : {"execute"}, by : Commands]
   \cup [kind : {"snapshot", "subscribe"}, by : Readers]
   \cup [kind : {"begin", "abort", "release"}, by : Deletions]

\* Locals of #executeSerialized: attempt, revisionBefore (seen), original and
\* the revision of the store's result.
Steps == {"start", "revision", "load", "recheck", "validate", "revalidate",
          "apply", "accept", "unclear"}
IsItemMap(m) == DOMAIN m \subseteq Items /\ m \in [DOMAIN m -> Item]
IsRun(r) ==
  /\ r \in [at : Steps, attempt : Nat, seen : Nat, original : {r.original}, result : Nat]
  /\ IsItemMap(r.original)
NoItems == [i \in {} |-> Absent]
Idle == [at |-> "start", attempt |-> 0, seen |-> 0, original |-> NoItems,
         result |-> 0]

Event == [type : {"items-changed", "resync-required"}, revision : Nat]
Changed(r) == [type |-> "items-changed", revision |-> r]
Resync(r)  == [type |-> "resync-required", revision |-> r]

\* A subscriber (queue, pending next) and what its consumer last received: a
\* snapshot or an items-changed event fixes its position in the history, a
\* resync-required event voids it.
Reader == [phase : {"idle", "reading", "ready", "opening", "open"},
           stream : Seq(Event), waiting : BOOLEAN, position : Event]

Answer == [status : {"committed"}, revision : Nat]
     \cup [status : {"rejected", "retry"}]
Committed(r) == [status |-> "committed", revision |-> r]
Rejected == [status |-> "rejected"]   \* CONFLICT, INVALID_COMMAND, NOT_FOUND, LIMIT_EXCEEDED
Retry    == [status |-> "retry"]      \* STORE_CONFLICT: the outcome is not reported

\* Where a call of txDeleteCanvas stands.
DeletionPhase ==
  {"idle", "planned", "refused", "beginning", "claimed", "disposed", "committed",
   "aborting", "failed", "releasing", "deleted", "interrupted", "lost"}

Budget == [foreign |-> MaxForeign, fault |-> MaxFaults,
           restart |-> MaxRestarts, interrupt |-> MaxInterrupts]
Spend(kind) == spent[kind] < Budget[kind] /\ spent' = [spent EXCEPT ![kind] = @ + 1]

StoreType ==
  /\ exists \in BOOLEAN /\ revision \in Nat /\ items \in Document
  /\ receipts \in [Commands -> Nat]
  /\ history \in Seq(Commands \cup {Foreign})

CanvasType ==
  /\ releasing \in BOOLEAN /\ known \in Nat \cup {Unknown}
  /\ IsItemMap(cache) /\ events \in Seq(Nat)
  /\ queue \in Seq(Task) /\ IsRun(run)
  /\ reader \in [Readers -> Reader]

CallerType ==
  /\ answers \in [Commands -> SUBSET Answer]
  /\ calls \in [Commands \cup Readers -> Nat]
  /\ deletion \in [Deletions -> DeletionPhase]
  /\ plan \in [Deletions -> Nat]
  /\ spent \in [{"foreign", "fault", "restart", "interrupt"} -> Nat]

TypeOK == StoreType /\ CanvasType /\ CallerType

Init ==
  /\ exists = TRUE /\ revision = 0 /\ items = EmptyDocument
  /\ receipts = [c \in Commands |-> 0] /\ history = <<>>
  /\ releasing = FALSE /\ known = Unknown /\ cache = NoItems /\ events = <<>>
  /\ queue = <<>> /\ run = Idle
  /\ reader = [s \in Readers |-> [phase |-> "idle", stream |-> <<>>,
                                   waiting |-> FALSE, position |-> Resync(0)]]
  /\ answers = [c \in Commands |-> {}]
  /\ calls = [x \in Commands \cup Readers |-> 0]
  /\ deletion = [d \in Deletions |-> "idle"] /\ plan = [d \in Deletions |-> 0]
  /\ spent = [k \in {"foreign", "fault", "restart", "interrupt"} |-> 0]

-----------------------------------------------------------------------------
(***************************************************************************)
(* The volatile state of the canvas and the streams fed from it.           *)
(***************************************************************************)
Forget == known' = Unknown /\ cache' = NoItems /\ events' = <<>>

\* A consumer takes an event.  Once told to resync it has no position left
\* until it reads a snapshot again.
Received(r, e) ==
  [r EXCEPT !.position = IF @.type = "resync-required" THEN Resync(e.revision) ELSE e]

\* Mutant: a full queue drops its oldest event instead of asking for a resync.
PushedDroppingOldest(e) ==
  [s \in Readers |->
     IF reader[s].phase # "open" THEN reader[s]
     ELSE IF reader[s].waiting
     THEN [Received(reader[s], e) EXCEPT !.waiting = FALSE]
     ELSE IF Len(reader[s].stream) >= MaxReplay
     THEN [reader[s] EXCEPT !.stream = Append(Tail(@), e)]
     ELSE [reader[s] EXCEPT !.stream = Append(@, e)]]

\* #pushSubscriber for every member of state.subscribers: a pending next()
\* takes the event, a full queue collapses into one resync-required event.
Pushed(e) ==
  [s \in Readers |->
     IF reader[s].phase # "open" THEN reader[s]
     ELSE IF reader[s].waiting
     THEN [Received(reader[s], e) EXCEPT !.waiting = FALSE]
     ELSE IF Len(reader[s].stream) >= MaxReplay
     THEN [reader[s] EXCEPT !.stream = <<Resync(e.revision)>>]
     ELSE [reader[s] EXCEPT !.stream = Append(@, e)]]

\* A reader whose stream or request ended; it may resume from a known position.
Detached(r) ==
  [r EXCEPT !.stream = <<>>, !.waiting = FALSE,
            !.phase = IF r.position.type = "items-changed" THEN "ready" ELSE "idle"]

\* #closeSubscriber for every member of state.subscribers.
Closed == [s \in Readers |->
             IF reader[s].phase = "open" THEN Detached(reader[s]) ELSE reader[s]]

\* Mutant: the readers are told the revision that was cached.
NotifiedOfOldRevision(r) == IF known = r THEN reader ELSE Pushed(Resync(known))

\* #synchronizeRevision with a revision that was just read: what it makes of
\* the cached state, and of the readers.
Synchronize(r) ==
  /\ known' = r
  /\ cache' = IF known = r THEN cache ELSE NoItems
  /\ events' = IF known = r THEN events ELSE <<>>
Notified(r) == IF known \in {r, Unknown} THEN reader ELSE Pushed(Resync(r))

\* #pruneCache: above the limit, unprotected entries go until the limit is
\* met or only protected ones are left.
Pruned(m, protected) ==
  LET held == DOMAIN m
      kept == held \cap protected
      size == IF Cardinality(kept) > MaxTouched THEN Cardinality(kept) ELSE MaxTouched
  IN  IF Cardinality(held) <= MaxTouched THEN {m}
      ELSE {[i \in S |-> m[i]] :
              S \in {T \in SUBSET held : kept \subseteq T /\ Cardinality(T) = size}}

\* m overlaid by what `rows` holds for the items of S
Overlay(m, rows, S) == [i \in DOMAIN m \cup S |-> IF i \in S THEN rows[i] ELSE m[i]]

\* #replayAfter: the contiguous tail of the replay log, or one resync event.
Contiguous(log, after, current) ==
  LET later == SelectSeq(log, LAMBDA r : r > after)
  IN  /\ current > after
      /\ Len(later) = current - after
      /\ \A k \in DOMAIN later : later[k] = after + k

ReplayAfter(log, after, current) ==
  IF after = current THEN <<>>
  ELSE IF Contiguous(log, after, current)
  THEN [k \in 1 .. current - after |-> Changed(after + k)]
  ELSE <<Resync(current)>>

-----------------------------------------------------------------------------
(***************************************************************************)
(* The task queue.                                                         *)
(***************************************************************************)
Enqueue(kind, x) == queue' = Append(queue, [kind |-> kind, by |-> x])

Turn(kind) == queue # <<>> /\ Head(queue).kind = kind /\ run.at = "start"
By == Head(queue).by

Done == queue' = Tail(queue) /\ run' = Idle

Reply(answer) ==
  /\ Done
  /\ answers' = [answers EXCEPT ![By] = @ \cup {answer}]

At(step) ==
  /\ queue # <<>> /\ Head(queue).kind = "execute" /\ run.at = step
Goto(step) == run' = [run EXCEPT !.at = step] /\ UNCHANGED queue
NextAttempt ==
  /\ run' = [run EXCEPT !.at = "revision", !.attempt = @ + 1]
  /\ UNCHANGED queue

-----------------------------------------------------------------------------
(***************************************************************************)
(* execute: the attempts of one command.                                   *)
(***************************************************************************)
Execute(c) ==
  /\ calls[c] < MaxCalls
  /\ calls' = [calls EXCEPT ![c] = @ + 1]
  /\ Enqueue("execute", c)
  /\ UNCHANGED <<durable, releasing, known, cache, events, run, reader,
                 answers, deletion, plan, spent>>

\* Mutant: the receipt is not looked up.
StartWithoutReceipt ==
  /\ At("start")
  /\ IF releasing THEN Reply(Retry)
     ELSE /\ run' = [run EXCEPT !.at = "revision", !.attempt = 1]
          /\ UNCHANGED <<queue, answers>>
  /\ UNCHANGED <<durable, releasing, known, cache, events, reader, calls,
                 deletion, plan, spent>>

\* Mutant: a claimed canvas is not refused.
StartWhileReleasing ==
  /\ At("start")
  /\ IF receipts[By] # 0 THEN Reply(Committed(receipts[By]))
     ELSE /\ run' = [run EXCEPT !.at = "revision", !.attempt = 1]
          /\ UNCHANGED <<queue, answers>>
  /\ UNCHANGED <<durable, releasing, known, cache, events, reader, calls,
                 deletion, plan, spent>>

\* Mutant: a command waits in its turn until the deletion is over.
StartAfterDeletion == ~releasing /\ StartWithoutReceipt

\* assertUsable, then the receipt of an earlier commit of the same command.
StartCommand ==
  /\ At("start")
  /\ IF releasing THEN Reply(Retry)
     ELSE IF receipts[By] # 0 THEN Reply(Committed(receipts[By]))
     ELSE /\ run' = [run EXCEPT !.at = "revision", !.attempt = 1]
          /\ UNCHANGED <<queue, answers>>
  /\ UNCHANGED <<durable, releasing, known, cache, events, reader, calls,
                 deletion, plan, spent>>

ReadRevision ==
  /\ At("revision")
  /\ IF run.attempt > MaxAttempts
     THEN Reply(Retry) /\ UNCHANGED <<known, cache, events, reader>>
     ELSE IF ~exists
     THEN Reply(Rejected) /\ UNCHANGED <<known, cache, events, reader>>
     ELSE /\ Synchronize(revision) /\ reader' = Notified(revision)
          /\ IF Catalogue[By].base > revision THEN Reply(Rejected)
             ELSE /\ run' = [run EXCEPT !.at = "load", !.seen = revision]
                  /\ UNCHANGED <<queue, answers>>
  /\ UNCHANGED <<durable, releasing, calls, deletion, plan, spent>>

LoadItems ==
  /\ At("load")
  /\ LET ids == DOMAIN Ops(By) IN
     IF Cardinality(ids) > MaxTouched
     THEN Reply(Rejected) /\ UNCHANGED cache
     ELSE /\ cache' \in Pruned(Overlay(cache, items, ids \ DOMAIN cache), ids)
          /\ Goto("recheck") /\ UNCHANGED answers
  /\ UNCHANGED <<durable, releasing, known, events, reader, calls, deletion,
                 plan, spent>>

\* The re-read that makes the loaded items a consistent cut, then the
\* reduction of the command over them.
CheckGuards ==
  /\ At("recheck")
  /\ IF ~exists THEN Reply(Rejected) /\ UNCHANGED <<known, cache, events, reader>>
     ELSE IF revision # run.seen
     THEN /\ Synchronize(revision) /\ reader' = Notified(revision)
          /\ NextAttempt /\ UNCHANGED answers
     ELSE LET before == [i \in DOMAIN Ops(By) |->
                           IF i \in DOMAIN cache THEN cache[i] ELSE Absent]
          IN  /\ UNCHANGED <<known, cache, events, reader>>
              /\ IF GuardsHold(Ops(By), before) /\ Altered(Ops(By), before) # {}
                 THEN /\ run' = [run EXCEPT !.at = "validate", !.original = before]
                      /\ UNCHANGED <<queue, answers>>
                 ELSE Reply(Rejected)
  /\ UNCHANGED <<durable, releasing, calls, deletion, plan, spent>>

\* Children of deleted items come from the store; ancestors and referenced
\* items from the cache or, when missing there, from the store.  All of them
\* end up in the cache.
Validate ==
  /\ At("validate")
  /\ LET ops == Ops(By)
         altered == Altered(ops, run.original)
         gone == {i \in altered : ops[i].kind = "delete"}
         fresh == Children(items, gone)
         view == [i \in Items |->
                    IF i \in fresh \/ i \notin DOMAIN cache THEN items[i] ELSE cache[i]]
         final == [i \in Items |->
                    IF i \in altered THEN Apply(ops[i], run.original[i]) ELSE view[i]]
         required == Closure(final, altered \ gone) \ altered
         authority == DOMAIN ops \cup fresh \cup required
     IN  /\ cache' \in Pruned(Overlay(cache, view, fresh \cup required),
                              IF required = {} THEN authority ELSE required)
         /\ IF LocallyValid(final, altered, fresh) /\ Cardinality(authority) <= MaxTouched
            THEN Goto("revalidate") /\ UNCHANGED answers
            ELSE Reply(Rejected)
  /\ UNCHANGED <<durable, releasing, known, events, reader, calls, deletion,
                 plan, spent>>

CheckRevision ==
  /\ At("revalidate")
  /\ IF ~exists THEN Reply(Rejected) /\ UNCHANGED <<known, cache, events, reader>>
     ELSE IF revision # run.seen
     THEN /\ Synchronize(revision) /\ reader' = Notified(revision)
          /\ NextAttempt /\ UNCHANGED answers
     ELSE Goto("apply") /\ UNCHANGED <<known, cache, events, reader, answers>>
  /\ UNCHANGED <<durable, releasing, calls, deletion, plan, spent>>

(***************************************************************************)
(* applyMutations is one store transaction.  It may also fail: rolled back *)
(* (a stale item revision, an I/O error), or made durable and reported as  *)
(* failed, which the caller cannot tell apart.                             *)
(***************************************************************************)
Targets == Altered(Ops(By), run.original)
RowsMatch == \A i \in Targets : items[i].rev = run.original[i].rev
Written(i) == Apply(Ops(By)[i], run.original[i])

\* Mutant: the receipt names the revision before the commit.
WriteRowsOldReceipt ==
  /\ revision' = revision + 1
  /\ items' = [i \in Items |-> IF i \in Targets THEN Written(i) ELSE items[i]]
  /\ receipts' = [receipts EXCEPT ![By] = revision]
  /\ history' = Append(history, By)
  /\ UNCHANGED exists

WriteRows ==
  /\ revision' = revision + 1
  /\ items' = [i \in Items |-> IF i \in Targets THEN Written(i) ELSE items[i]]
  /\ receipts' = [receipts EXCEPT ![By] = revision + 1]
  /\ history' = Append(history, By)
  /\ UNCHANGED exists

ReadyAtAnyRevision == exists /\ receipts[By] = 0   \* mutant: no compare-and-swap
Ready == exists /\ revision = run.seen /\ receipts[By] = 0

\* Mutant: a transaction that failed is taken for committed.
OutcomeAssumed(step, r) == run' = [run EXCEPT !.at = "accept", !.result = run.seen + 1]
Outcome(step, r) == run' = [run EXCEPT !.at = step, !.result = r]

ApplyMutations ==
  /\ At("apply")
  /\ \/ /\ receipts[By] # 0                            \* a duplicate: its receipt
        /\ Outcome("accept", receipts[By])
        /\ UNCHANGED <<durable, spent>>
     \/ /\ Ready
        /\ IF RowsMatch THEN WriteRows /\ Outcome("accept", revision + 1)
           ELSE Outcome("unclear", 0) /\ UNCHANGED durable
        /\ UNCHANGED spent
     \/ /\ Spend("fault") /\ Outcome("unclear", 0)
        /\ \/ Ready /\ RowsMatch /\ WriteRows
           \/ UNCHANGED durable
  /\ UNCHANGED <<releasing, known, cache, events, queue, reader, callers>>

\* The compare-and-swap on the canvas revision found another revision.
RevisionConflict ==
  /\ At("apply") /\ receipts[By] = 0
  /\ \/ /\ exists /\ revision # run.seen
        /\ Synchronize(revision)
        /\ reader' = Notified(revision) /\ NextAttempt /\ UNCHANGED answers
     \/ ~exists /\ Forget /\ Reply(Rejected) /\ UNCHANGED reader
  /\ UNCHANGED <<durable, releasing, calls, deletion, plan, spent>>

\* #forceResync
ForceResync(r) ==
  /\ known' = r /\ cache' = NoItems /\ events' = <<>>
  /\ reader' = IF r = Unknown THEN Closed ELSE Pushed(Resync(r))

Trimmed(log) ==
  IF Len(log) > MaxReplay THEN SubSeq(log, Len(log) - MaxReplay + 1, Len(log)) ELSE log

\* #acceptCommittedResult: cache, replay log and streams take the commit.
AcceptResult ==
  /\ At("accept")
  /\ IF run.result = run.seen + 1
     THEN /\ known' = run.result
          /\ cache' \in Pruned([i \in DOMAIN cache \cup Targets |->
                                  IF i \in Targets THEN Written(i) ELSE cache[i]], Targets)
          /\ events' = Trimmed(Append(events, run.result))
          /\ reader' = Pushed(Changed(run.result))
          /\ Reply(Committed(run.result))
     ELSE ForceResync(run.result) /\ Reply(Retry)
  /\ UNCHANGED <<durable, releasing, calls, deletion, plan, spent>>

\* After a failed transaction: learn the revision if the store answers.
ResyncAfterFailure ==
  /\ At("unclear")
  /\ \/ ForceResync(IF exists THEN revision ELSE Unknown) /\ UNCHANGED spent
     \/ ForceResync(Unknown) /\ Spend("fault")
  /\ Reply(Retry)
  /\ UNCHANGED <<durable, releasing, calls, deletion, plan>>

\* A read of the store fails and the call with it.
ReadFails ==
  /\ \E step \in Steps \ {"apply", "accept", "unclear"} : At(step)
  /\ Spend("fault") /\ Reply(Retry)
  /\ UNCHANGED <<durable, releasing, known, cache, events, reader, calls,
                 deletion, plan>>

ExecuteStep ==
  \/ StartCommand \/ ReadRevision \/ LoadItems \/ CheckGuards \/ Validate
  \/ CheckRevision \/ ApplyMutations \/ RevisionConflict \/ AcceptResult
  \/ ResyncAfterFailure \/ ReadFails

-----------------------------------------------------------------------------
(***************************************************************************)
(* getSnapshot and subscribe, and the consumer of a stream.                *)
(***************************************************************************)
Request(s, kind, from, to) ==
  /\ reader[s].phase \in from /\ calls[s] < MaxOpens
  /\ calls' = [calls EXCEPT ![s] = @ + 1]
  /\ reader' = [reader EXCEPT ![s].phase = to]
  /\ Enqueue(kind, s)
  /\ UNCHANGED <<durable, releasing, known, cache, events, run, answers,
                 deletion, plan, spent>>

GetSnapshot(s) == Request(s, "snapshot", {"idle", "ready"}, "reading")
Subscribe(s)   == Request(s, "subscribe", {"ready"}, "opening")

\* The request of the reader whose turn it is fails: the canvas is gone or
\* being released, the document does not pass the store's assertion, or the
\* store does not answer.
Refuse(kind) ==
  /\ Turn(kind) /\ Done
  /\ \/ /\ releasing \/ ~exists \/ (kind = "snapshot" /\ ~Readable(items))
        /\ UNCHANGED spent
     \/ Spend("fault")
  /\ reader' = [reader EXCEPT ![By] = Detached(@)]
  /\ UNCHANGED <<durable, releasing, known, cache, events, callers>>

Serve(kind) ==
  /\ Turn(kind) /\ Done
  /\ ~releasing /\ exists
  /\ Synchronize(revision)
  /\ UNCHANGED <<durable, releasing, callers, spent>>

ServeSnapshot ==
  \/ /\ Serve("snapshot") /\ Readable(items)
     /\ reader' = [Notified(revision) EXCEPT
                     ![By].phase = "ready", ![By].position = Changed(revision)]
  \/ Refuse("snapshot")

ServeSubscribe ==
  \/ /\ Serve("subscribe")
     /\ reader' = [Notified(revision) EXCEPT
                     ![By].phase = "open",
                     ![By].stream = ReplayAfter(events', reader[By].position.revision,
                                                revision)]
  \/ Refuse("subscribe")

StreamStep(s, r) ==
  /\ reader[s].phase = "open"
  /\ reader' = [reader EXCEPT ![s] = r]
  /\ UNCHANGED <<durable, releasing, known, cache, events, queue, run, callers, spent>>

\* next(): take what is queued, or park until an event is pushed.
ReadStream(s) ==
  LET r == reader[s] IN
  \/ /\ r.stream # <<>>
     /\ StreamStep(s, [Received(r, Head(r.stream)) EXCEPT !.stream = Tail(@)])
  \/ /\ r.stream = <<>> /\ ~r.waiting
     /\ StreamStep(s, [r EXCEPT !.waiting = TRUE])

Return(s) == StreamStep(s, Detached(reader[s]))

-----------------------------------------------------------------------------
(***************************************************************************)
(* txDeleteCanvas with beginDeletion, abortDeletion and commitDeletion.    *)
(***************************************************************************)
Becomes(d, from, to) ==
  deletion[d] \in from /\ deletion' = [deletion EXCEPT ![d] = to]

\* The deletion plan the user confirmed, abstracted to the canvas revision.
PlanDeletion(d) ==
  /\ exists /\ Becomes(d, {"idle", "refused", "failed"}, "planned")
  /\ plan' = [plan EXCEPT ![d] = revision]
  /\ UNCHANGED <<durable, releasing, known, cache, events, queue, run, reader,
                 answers, calls, spent>>

BeginDeletion(d) ==
  /\ IF releasing
     THEN Becomes(d, {"planned"}, "refused") /\ UNCHANGED <<releasing, queue>>
     ELSE /\ Becomes(d, {"planned"}, "beginning")
          /\ releasing' = TRUE /\ Enqueue("begin", d)
  /\ UNCHANGED <<durable, known, cache, events, run, reader, answers, calls, plan, spent>>

\* The claim settles when its turn comes: every command before it is over.
ServeBegin ==
  /\ Turn("begin") /\ Done
  /\ \/ /\ exists
        /\ deletion' = [deletion EXCEPT ![By] = IF @ = "beginning" THEN "claimed" ELSE @]
        /\ UNCHANGED <<releasing, spent>>
     \/ /\ \/ ~exists /\ UNCHANGED spent
           \/ exists /\ Spend("fault")
        /\ deletion' = [deletion EXCEPT ![By] = IF @ = "beginning" THEN "failed" ELSE @]
        /\ releasing' = FALSE
  /\ UNCHANGED <<durable, known, cache, events, reader, answers, calls, plan>>

AbortDeletion(d, from) == Becomes(d, from, "aborting") /\ Enqueue("abort", d)

DisposeChats(d) ==
  /\ \/ Becomes(d, {"claimed"}, "disposed") /\ UNCHANGED <<queue, spent>>
     \/ AbortDeletion(d, {"claimed"}) /\ Spend("fault")
  /\ UNCHANGED <<durable, releasing, known, cache, events, run, reader, answers, calls, plan>>

\* CanvasDeletionStore.commit: one transaction that checks the plan again.
\* It may fail rolled back, or durable and reported as failed.
DeleteRows ==
  /\ exists' = FALSE /\ items' = EmptyDocument
  /\ UNCHANGED <<revision, receipts, history>>

CommitDeletion(d) ==
  /\ \/ /\ exists /\ plan[d] = revision /\ DeleteRows
        /\ Becomes(d, {"disposed"}, "committed")
        /\ UNCHANGED <<queue, spent>>
     \/ /\ ~exists \/ plan[d] # revision
        /\ AbortDeletion(d, {"disposed"})
        /\ UNCHANGED <<durable, spent>>
     \/ /\ AbortDeletion(d, {"disposed"}) /\ Spend("fault")
        /\ \/ exists /\ plan[d] = revision /\ DeleteRows
           \/ UNCHANGED durable
  /\ UNCHANGED <<releasing, known, cache, events, run, reader, answers, calls, plan>>

\* Mutant: the claim is not given back.
ServeAbortKeepingClaim ==
  /\ Turn("abort") /\ Done
  /\ deletion' = [deletion EXCEPT ![By] = IF @ = "aborting" THEN "failed" ELSE @]
  /\ Forget
  /\ UNCHANGED <<durable, releasing, reader, answers, calls, plan, spent>>

ServeAbort ==
  /\ Turn("abort") /\ Done
  /\ deletion' = [deletion EXCEPT ![By] = IF @ = "aborting" THEN "failed" ELSE @]
  /\ releasing' = FALSE /\ Forget
  /\ UNCHANGED <<durable, reader, answers, calls, plan, spent>>

ReleaseDeleted(d) ==
  /\ Becomes(d, {"committed"}, "releasing")
  /\ releasing' = TRUE /\ Enqueue("release", d)
  /\ UNCHANGED <<durable, known, cache, events, run, reader, answers, calls, plan, spent>>

\* The state object is dropped.  The tasks behind in its queue fail at their
\* assertUsable one by one; a later caller gets a new state object.
ServeRelease ==
  /\ Turn("release")
  /\ deletion' = [deletion EXCEPT ![By] = IF @ = "releasing" THEN "deleted" ELSE @]
  /\ answers' = [c \in Commands |->
       IF \E k \in DOMAIN Tail(queue) : Tail(queue)[k] = [kind |-> "execute", by |-> c]
       THEN answers[c] \cup {Retry} ELSE answers[c]]
  /\ queue' = <<>> /\ run' = Idle
  /\ reader' = [s \in Readers |-> Detached(reader[s])]
  /\ releasing' = FALSE /\ Forget
  /\ UNCHANGED <<durable, calls, plan, spent>>

\* The fiber of the request is interrupted at an await of txDeleteCanvas.
\* Effect.catch runs on failures only, so nothing is aborted or released.
Interrupt(d) ==
  /\ Becomes(d, {"beginning", "claimed", "disposed", "committed"}, "interrupted")
  /\ Spend("interrupt")
  /\ UNCHANGED <<durable, releasing, known, cache, events, queue, run, reader,
                 answers, calls, plan>>

DeletionStep(d) ==
  DisposeChats(d) \/ CommitDeletion(d) \/ ReleaseDeleted(d)

QueueStep ==
  \/ ExecuteStep \/ ServeSnapshot \/ ServeSubscribe
  \/ ServeBegin \/ ServeAbort \/ ServeRelease

-----------------------------------------------------------------------------
(***************************************************************************)
(* Another authority on the same store, against which the compare-and-swap *)
(* guards: it commits a batch of its own, or a command that was also sent  *)
(* to it.                                                                  *)
(***************************************************************************)
Elsewhere(ops) ==
  /\ exists /\ Spend("foreign")
  /\ GuardsHold(ops, items) /\ Altered(ops, items) # {}
  /\ WellFormed(Result(ops, items))
  /\ items' = Result(ops, items) /\ revision' = revision + 1
  /\ UNCHANGED <<exists, releasing, known, cache, events, queue, run, reader, callers>>

CommitElsewhere ==
  \/ /\ \E ops \in ForeignBatches : Elsewhere(ops)
     /\ history' = Append(history, Foreign)
     /\ UNCHANGED receipts
  \/ \E c \in Commands :
       /\ receipts[c] = 0 /\ Catalogue[c].base <= revision /\ Elsewhere(Ops(c))
       /\ history' = Append(history, c)
       /\ receipts' = [receipts EXCEPT ![c] = revision + 1]

\* The process dies and comes back: durable rows survive, all else is gone.
Restart ==
  /\ Spend("restart")
  /\ releasing' = FALSE /\ Forget
  /\ queue' = <<>> /\ run' = Idle
  /\ reader' = [s \in Readers |-> Detached(reader[s])]
  /\ deletion' = [d \in Deletions |->
       IF deletion[d] \in {"beginning", "claimed", "disposed", "committed",
                           "aborting", "releasing", "interrupted"}
       THEN "lost" ELSE deletion[d]]
  /\ UNCHANGED <<durable, answers, calls, plan>>

Next ==
  \/ QueueStep
  \/ \E c \in Commands : Execute(c)
  \/ \E s \in Readers : GetSnapshot(s) \/ Subscribe(s) \/ ReadStream(s) \/ Return(s)
  \/ \E d \in Deletions : PlanDeletion(d) \/ BeginDeletion(d) \/ DeletionStep(d) \/ Interrupt(d)
  \/ CommitElsewhere \/ Restart

Spec == Init /\ [][Next]_vars

\* A queued task is run to its end; a deletion goes on unless interrupted; a
\* subscribed client keeps reading its stream.
Fairness ==
  /\ WF_vars(QueueStep)
  /\ \A d \in Deletions : WF_vars(DeletionStep(d))
  /\ \A s \in Readers : WF_vars(ReadStream(s))

FairSpec == Spec /\ Fairness

-----------------------------------------------------------------------------
(***************************************************************************)
(* Properties.                                                             *)
(***************************************************************************)
\* Receipts and history agree: a command id owns at most one revision, across
\* repeated calls, unclear transactions and restarts, and the receipt names it
\* (getCommandResult, the receipt row written by applyMutations).
CommittedOnce ==
  /\ Len(history) = revision
  /\ \A c \in Commands : receipts[c] # 0 => receipts[c] \in DOMAIN history
  /\ \A k \in DOMAIN history : \A c \in Commands :
       history[k] = c <=> receipts[c] = k

\* What a caller of execute is told is what the store keeps: an acknowledged
\* revision is the revision at which this very command was committed.
AcknowledgedIsCommitted ==
  \A c \in Commands : \A a \in answers[c] :
    a.status = "committed" => a.revision \in DOMAIN history /\ history[a.revision] = c

\* A caller told CONFLICT, INVALID_COMMAND or NOT_FOUND may believe it: at the
\* moment of that answer the command is not in the history. The receipt is
\* looked up once, before the attempts (CanvasService.ts:383), so this is true
\* as long as no other authority commits the same command meanwhile.
RejectedIsNotCommitted ==
  [][\A c \in Commands :
       Rejected \in answers'[c] \ answers[c] => receipts[c] = 0 \/ spent.foreign > 0]_vars

\* A commit is decided by what the store holds when it happens, although the
\* guards were evaluated on cached items several awaits earlier: the guards
\* hold on the rows it replaces and the rows become what the operations say.
CommitIsAdmissible ==
  [][\A c \in Commands : receipts[c] = 0 /\ receipts'[c] # 0 =>
       /\ GuardsHold(Ops(c), items)
       /\ items' = Result(Ops(c), items)
       /\ Catalogue[c].base <= revision]_vars

\* Every present item has a present parent and no item is its own ancestor,
\* although validation reads only ancestors and children of what changes.
DocumentWellFormed == WellFormed(items)

\* A document that commits can make is one that getSnapshot can serve: the
\* store asserts the references of every item when it reads a snapshot
\* (CanvasItemStoreTurso.getSnapshot, fnAssertValidCanvasItems).
DocumentReadable == Readable(items)

\* Cached items are the rows of the store whenever the cached revision is the
\* stored one, whatever was loaded, evicted or committed elsewhere.
CacheIsCurrent ==
  exists /\ known = revision => \A i \in DOMAIN cache : cache[i] = items[i]

\* The replay log is a gap-free run of revisions that ends at the cached one.
ReplayLogIsContiguous ==
  /\ \A k \in DOMAIN events : events[k] = known - Len(events) + k
  /\ known = Unknown => events = <<>>
  /\ Len(events) <= MaxReplay

\* What reader s has received and will receive, oldest first.
Feed(s) == <<reader[s].position>> \o reader[s].stream

\* No consumer of a stream misses a commit silently: after a snapshot or an
\* event at revision r its next event is r + 1 or a resync-required event, and
\* an open stream is never behind the revision the authority knows.
StreamHasNoGap ==
  \A s \in Readers : reader[s].phase = "open" =>
    /\ \A k \in 1 .. Len(Feed(s)) - 1 :
         Feed(s)[k + 1].type = "items-changed" =>
           Feed(s)[k + 1].revision = Feed(s)[k].revision + 1
    /\ known # Unknown => Feed(s)[Len(Feed(s))].revision = known

\* Between the settled claim of a deletion and its outcome no command commits
\* here and no stream opens, so what is deleted is what the claim found. The
\* claim binds this process only: another authority may commit.
Claimed == \E d \in Deletions : deletion[d] \in {"claimed", "disposed"}
ClaimIsExclusive ==
  [][Claimed => /\ receipts' = receipts \/ spent'.foreign > spent.foreign
                /\ \A s \in Readers : reader[s].phase = "opening" =>
                                        reader'[s].phase # "open"]_vars

\* At most one deletion owns the canvas.
Owning == {d \in Deletions :
             deletion[d] \in {"beginning", "claimed", "disposed", "committed", "releasing"}}
OneOwner == \A d, e \in Owning : d = e

\* The contract: queue, cache, attempts and crashes are invisible in it.
Contract == INSTANCE CanvasContract WITH
  alive <- exists, doc <- items, log <- history,
  acked <- {c \in Commands : \E a \in answers[c] : a.status = "committed"}
ImplementsContract == Contract!Spec

\* Every call is answered, within the bounded attempts, whatever the store
\* and the other authorities do.
CallsAreAnswered ==
  \A c \in Commands :
    (\E k \in DOMAIN queue : queue[k] = [kind |-> "execute", by |-> c])
      ~> (\A k \in DOMAIN queue : queue[k] # [kind |-> "execute", by |-> c])

\* A deletion that is not interrupted gives the canvas back or removes it: an
\* interruption between claim and commit is caught by nothing
\* (tx.delete-canvas.ts:53), and the claim stays.
ClaimIsResolved == releasing ~> ~releasing \/ \E d \in Deletions : deletion[d] = "interrupted"

\* A client that keeps its stream open catches up with the authority.
StreamsCatchUp ==
  \A s \in Readers :
    <>[](reader[s].phase = "open") => <>[](reader[s].position.revision >= known)

\* Once a deletion succeeds nobody is left waiting on a stream of the canvas,
\* unless the deletion is interrupted before it has ended them.
DeletionEndsStreams ==
  \A s \in Readers :
    (\E d \in Deletions : deletion[d] = "committed")
      ~> (reader[s].phase # "open" \/ \E d \in Deletions : deletion[d] = "interrupted")

(* What the runs check together.                                           *)

\* The document is a tree, and the cached items and the replay log are those of
\* the revision they claim.
StateIsSound == DocumentWellFormed /\ CacheIsCurrent /\ ReplayLogIsContiguous

\* Both verdicts on a command are decided by the store: a commit by the rows it
\* replaces, a rejection by the absence of the command.
VerdictsAreTrue == CommitIsAdmissible /\ RejectedIsNotCommitted

\* A canvas is owned by one deletion at most, and nothing else happens to it
\* between the claim of that deletion and its outcome.
DeletionsExclude == []OneOwner /\ ClaimIsExclusive

\* Calls are answered, open streams catch up and are ended by a deletion.
EveryoneIsServed == CallsAreAnswered /\ StreamsCatchUp /\ DeletionEndsStreams
=============================================================================
