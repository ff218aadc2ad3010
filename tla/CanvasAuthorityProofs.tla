------------------------- MODULE CanvasAuthorityProofs -------------------------
(***************************************************************************)
(* Theorems about CanvasAuthority that hold for every set of commands,     *)
(* items, readers and deletions and for every value of the limits.         *)
(***************************************************************************)
EXTENDS CanvasAuthority, SequenceTheorems, TLAPS

-----------------------------------------------------------------------------
(***************************************************************************)
(* What the helper operators return.                                       *)
(***************************************************************************)
\* Applying an operation to an item gives an item.
LEMMA ApplyType ==
  ASSUME NEW o \in Operation, NEW x \in Item
  PROVE  Apply(o, x) \in Item
  BY DEF Apply, Operation, Item, Absent, Parents

\* Every operation of a command is an operation, on an item of the canvas.
LEMMA CommandOps ==
  ASSUME NEW c \in Commands
  PROVE  /\ Catalogue[c].base \in Nat
         /\ DOMAIN Ops(c) \subseteq Items
         /\ \A i \in DOMAIN Ops(c) : Ops(c)[i] \in Operation
  BY CommandAssumption DEF IsBatch, Ops

\* The document after a batch is a document.
LEMMA ResultType ==
  ASSUME NEW ops, IsBatch(ops), NEW doc \in Document
  PROVE  Result(ops, doc) \in Document
  BY ApplyType DEF IsBatch, Result, Document

\* Loading rows into an item map, or pruning one, gives an item map.
LEMMA OverlayType ==
  ASSUME NEW m, IsItemMap(m), NEW rows, NEW S \in SUBSET Items,
         \A i \in S : rows[i] \in Item
  PROVE  IsItemMap(Overlay(m, rows, S))
  BY DEF IsItemMap, Overlay

\* Pruning the cache leaves an item map (#pruneCache).
LEMMA PrunedType ==
  ASSUME NEW m, IsItemMap(m), NEW protected, NEW x \in Pruned(m, protected)
  PROVE  IsItemMap(x)
  BY DEF IsItemMap, Pruned

\* The empty cache is an item map.
LEMMA NoItemsType == IsItemMap(NoItems)
  BY DEF IsItemMap, NoItems

\* The locals of a task that has not started are well typed.
LEMMA IdleType == IsRun(Idle)
  BY NoItemsType DEF IsRun, Idle, Steps, NoItems

\* Both kinds of event are events.
LEMMA EventType ==
  ASSUME NEW r \in Nat
  PROVE  Changed(r) \in Event /\ Resync(r) \in Event
  BY DEF Changed, Resync, Event

\* A consumer that takes an event, or loses its stream, is still a reader.
LEMMA ReceivedType ==
  ASSUME NEW r \in Reader, NEW e \in Event
  PROVE  Received(r, e) \in Reader
  BY DEF Received, Reader, Event, Resync

\* A reader whose stream ended is still a reader (#closeSubscriber).
LEMMA DetachedType ==
  ASSUME NEW r \in Reader
  PROVE  Detached(r) \in Reader
  BY EmptySeq DEF Detached, Reader

\* Pushing an event to every subscriber keeps readers readers.
LEMMA PushedType ==
  ASSUME reader \in [Readers -> Reader], NEW e \in Event
  PROVE  Pushed(e) \in [Readers -> Reader]
<1> DEFINE q(s) == reader[s].stream
<1>1. ASSUME NEW s \in Readers
      PROVE  /\ [Received(reader[s], e) EXCEPT !.waiting = FALSE] \in Reader
             /\ [reader[s] EXCEPT !.stream = <<Resync(e.revision)>>] \in Reader
             /\ [reader[s] EXCEPT !.stream = Append(@, e)] \in Reader
  <2>1. reader[s] \in Reader /\ Received(reader[s], e) \in Reader
    BY ReceivedType
  <2>2. Resync(e.revision) \in Event
    BY EventType DEF Event
  <2>3. <<Resync(e.revision)>> \in Seq(Event)
    BY <2>2
  <2>4. reader[s].stream \in Seq(Event)
    BY <2>1 DEF Reader
  <2>5. Append(reader[s].stream, e) \in Seq(Event)
    BY <2>4, AppendProperties
  <2> QED
    BY <2>1, <2>3, <2>5 DEF Reader
<1> QED
  BY <1>1 DEF Pushed

\* Closing every subscriber keeps readers readers.
LEMMA ClosedType ==
  ASSUME reader \in [Readers -> Reader]
  PROVE  Closed \in [Readers -> Reader]
  BY DetachedType DEF Closed

\* So does telling them of a revision that was just read.
LEMMA NotifiedType ==
  ASSUME reader \in [Readers -> Reader], NEW r \in Nat
  PROVE  Notified(r) \in [Readers -> Reader]
  BY PushedType, EventType DEF Notified

\* What a new subscriber is replayed is a sequence of events.
LEMMA ReplayAfterType ==
  ASSUME NEW log, NEW after \in Nat, NEW current \in Nat
  PROVE  ReplayAfter(log, after, current) \in Seq(Event)
<1>1. <<>> \in Seq(Event)
  BY EmptySeq
<1>2. <<Resync(current)>> \in Seq(Event)
  BY EventType
<1>3. ASSUME Contiguous(log, after, current)
      PROVE  [k \in 1 .. current - after |-> Changed(after + k)] \in Seq(Event)
  <2>1. current - after \in Nat
    BY <1>3 DEF Contiguous
  <2>2. \A k \in 1 .. current - after : Changed(after + k) \in Event
    BY EventType
  <2> QED
    BY <2>1, <2>2
<1> QED
  BY <1>1, <1>2, <1>3 DEF ReplayAfter

\* Trimming the replay log leaves a sequence of revisions.
LEMMA TrimmedType ==
  ASSUME NEW log \in Seq(Nat)
  PROVE  Trimmed(log) \in Seq(Nat)
<1>1. ASSUME Len(log) > MaxReplay
      PROVE  SubSeq(log, Len(log) - MaxReplay + 1, Len(log)) \in Seq(Nat)
  <2>1. Len(log) \in Nat /\ MaxReplay \in Nat
    BY LimitAssumption, LenProperties
  <2>2. \A i \in Len(log) - MaxReplay + 1 .. Len(log) : log[i] \in Nat
    BY <1>1, <2>1, ElementOfSeq
  <2> QED
    BY <2>1, <2>2, SubSeqProperties
<1> QED
  BY <1>1 DEF Trimmed

-----------------------------------------------------------------------------
(***************************************************************************)
(* The queue and the task at its head.                                     *)
(***************************************************************************)
\* The task whose turn it is belongs to a command, a reader or a deletion.
LEMMA HeadTask ==
  ASSUME queue \in Seq(Task), queue # <<>>
  PROVE  /\ Head(queue) \in Task /\ Tail(queue) \in Seq(Task)
         /\ Head(queue).kind = "execute" => By \in Commands
         /\ Head(queue).kind \in {"snapshot", "subscribe"} => By \in Readers
         /\ Head(queue).kind \in {"begin", "abort", "release"} => By \in Deletions
<1>1. Head(queue) \in Task /\ Tail(queue) \in Seq(Task)
  BY HeadTailProperties
<1> QED
  BY <1>1 DEF Task, By

\* Appending a task keeps the queue a queue (#enqueue).
LEMMA EnqueueType ==
  ASSUME queue \in Seq(Task), NEW kind, NEW x, [kind |-> kind, by |-> x] \in Task,
         Enqueue(kind, x)
  PROVE  queue' \in Seq(Task)
  BY AppendProperties DEF Enqueue

\* The end of a task keeps the queue and the locals well typed.
LEMMA DoneType ==
  ASSUME queue \in Seq(Task), queue # <<>>, Done
  PROVE  queue' \in Seq(Task) /\ IsRun(run')
  BY HeadTask, IdleType DEF Done

\* The three answers of a call are answers.
LEMMA AnswerType ==
  /\ Rejected \in Answer /\ Retry \in Answer
  /\ \A r \in Nat : Committed(r) \in Answer
  BY DEF Answer, Rejected, Retry, Committed

\* Ending a task with an answer keeps queue, locals and answers well typed.
LEMMA ReplyType ==
  ASSUME queue \in Seq(Task), queue # <<>>, answers \in [Commands -> SUBSET Answer],
         NEW answer \in Answer, Reply(answer)
  PROVE  /\ queue' \in Seq(Task) /\ IsRun(run')
         /\ answers' \in [Commands -> SUBSET Answer]
  BY DoneType DEF Reply

\* Moving the running command to another step keeps its locals.
LEMMA GotoType ==
  ASSUME queue \in Seq(Task), IsRun(run), NEW step \in Steps, Goto(step)
  PROVE  queue' \in Seq(Task) /\ IsRun(run')
  BY DEF Goto, IsRun

\* Starting the next attempt keeps the locals well typed.
LEMMA NextAttemptType ==
  ASSUME queue \in Seq(Task), IsRun(run), NextAttempt
  PROVE  queue' \in Seq(Task) /\ IsRun(run')
<1>1. run.attempt + 1 \in Nat /\ "revision" \in Steps
  BY DEF IsRun, Steps
<1> QED
  BY <1>1 DEF NextAttempt, IsRun

\* Taking over a revision that was read keeps the cached state well typed.
LEMMA SynchronizeType ==
  ASSUME CanvasType, NEW r \in Nat, Synchronize(r)
  PROVE  known' \in Nat \cup {Unknown} /\ IsItemMap(cache') /\ events' \in Seq(Nat)
  BY NoItemsType, EmptySeq DEF CanvasType, Synchronize

\* Dropping the cached state keeps it well typed (#invalidateState).
LEMMA ForgetType ==
  ASSUME Forget
  PROVE  known' \in Nat \cup {Unknown} /\ IsItemMap(cache') /\ events' \in Seq(Nat)
  BY NoItemsType, EmptySeq DEF Forget

\* Resyncing keeps cached state and readers well typed (#forceResync).
LEMMA ForceResyncType ==
  ASSUME CanvasType, NEW r \in Nat \cup {Unknown}, ForceResync(r)
  PROVE  /\ known' \in Nat \cup {Unknown} /\ IsItemMap(cache') /\ events' \in Seq(Nat)
         /\ reader' \in [Readers -> Reader]
  BY NoItemsType, EmptySeq, ClosedType, PushedType, EventType
  DEF CanvasType, ForceResync

-----------------------------------------------------------------------------
(***************************************************************************)
(* Type correctness: every action keeps every variable in its type.        *)
(***************************************************************************)
LEMMA InitType == Init => TypeOK
<1> SUFFICES ASSUME Init PROVE TypeOK
  OBVIOUS
<1>1. StoreType
  BY EmptySeq DEF Init, StoreType, EmptyDocument, Document, Absent, Item, Parents
<1>2. CanvasType
  <2>1. reader \in [Readers -> Reader]
    BY EmptySeq, EventType DEF Init, Reader, Resync, Event
  <2> QED
    BY <2>1, NoItemsType, IdleType, EmptySeq DEF Init, CanvasType
<1>3. CallerType
  BY DEF Init, CallerType, DeletionPhase
<1> QED
  BY <1>1, <1>2, <1>3 DEF TypeOK

\* The steps of execute.
LEMMA ExecuteType ==
  ASSUME TypeOK, NEW c \in Commands, Execute(c)
  PROVE  TypeOK'
<1>1. queue' \in Seq(Task)
  BY EnqueueType DEF TypeOK, CanvasType, Execute, Task
<1>2. calls' \in [Commands \cup Readers -> Nat]
  BY DEF TypeOK, CallerType, Execute
<1> QED
  BY <1>1, <1>2 DEF TypeOK, StoreType, CanvasType, CallerType, Execute, durable

\* The start of a command keeps the types.
LEMMA StartCommandType ==
  ASSUME TypeOK, StartCommand
  PROVE  TypeOK'
<1>1. queue # <<>> /\ By \in Commands
  BY HeadTask DEF TypeOK, CanvasType, StartCommand, At
<1>2. receipts[By] \in Nat
  BY <1>1 DEF TypeOK, StoreType
<1>3. queue' \in Seq(Task) /\ IsRun(run') /\ answers' \in [Commands -> SUBSET Answer]
  <2>1. CASE Reply(Retry) \/ Reply(Committed(receipts[By]))
    BY <1>1, <1>2, <2>1, ReplyType, AnswerType DEF TypeOK, CanvasType, CallerType
  <2>2. CASE /\ run' = [run EXCEPT !.at = "revision", !.attempt = 1]
             /\ UNCHANGED <<queue, answers>>
    <3>1. "revision" \in Steps
      BY DEF Steps
    <3> QED
      BY <2>2, <3>1 DEF TypeOK, CanvasType, CallerType, IsRun
  <2> QED
    BY <2>1, <2>2 DEF StartCommand
<1> QED
  BY <1>3 DEF TypeOK, StoreType, CanvasType, CallerType, StartCommand, durable

\* A revision read leaves the volatile state typed.
LEMMA ReadRevisionType ==
  ASSUME TypeOK, ReadRevision
  PROVE  TypeOK'
<1>1. queue # <<>> /\ By \in Commands
  BY HeadTask DEF TypeOK, CanvasType, ReadRevision, At
<1>2. queue' \in Seq(Task) /\ IsRun(run') /\ answers' \in [Commands -> SUBSET Answer]
  <2>1. CASE Reply(Retry) \/ Reply(Rejected)
    BY <1>1, <2>1, ReplyType, AnswerType DEF TypeOK, CanvasType, CallerType
  <2>2. CASE /\ run' = [run EXCEPT !.at = "load", !.seen = revision]
             /\ UNCHANGED <<queue, answers>>
    <3>1. "load" \in Steps /\ revision \in Nat
      BY DEF Steps, TypeOK, StoreType
    <3> QED
      BY <2>2, <3>1 DEF TypeOK, CanvasType, CallerType, IsRun
  <2> QED
    BY <2>1, <2>2 DEF ReadRevision
<1>3. /\ known' \in Nat \cup {Unknown} /\ IsItemMap(cache') /\ events' \in Seq(Nat)
      /\ reader' \in [Readers -> Reader]
  <2>1. CASE UNCHANGED <<known, cache, events, reader>>
    BY <2>1 DEF TypeOK, CanvasType
  <2>2. CASE Synchronize(revision) /\ reader' = Notified(revision)
    BY <2>2, SynchronizeType, NotifiedType DEF TypeOK, StoreType, CanvasType
  <2> QED
    BY <2>1, <2>2 DEF ReadRevision
<1> QED
  BY <1>2, <1>3 DEF TypeOK, StoreType, CanvasType, CallerType, ReadRevision, durable

\* Loading the items of a command keeps the types.
LEMMA LoadItemsType ==
  ASSUME TypeOK, LoadItems
  PROVE  TypeOK'
<1> DEFINE ids == DOMAIN Ops(By)
<1>1. queue # <<>> /\ By \in Commands
  BY HeadTask DEF TypeOK, CanvasType, LoadItems, At
<1>2. CASE Cardinality(ids) > MaxTouched
  <2>1. Reply(Rejected) /\ UNCHANGED cache
    BY <1>2 DEF LoadItems
  <2> QED
    BY <1>1, <2>1, ReplyType, AnswerType
    DEF TypeOK, StoreType, CanvasType, CallerType, LoadItems, durable
<1>3. CASE ~(Cardinality(ids) > MaxTouched)
  <2>1. /\ cache' \in Pruned(Overlay(cache, items, ids \ DOMAIN cache), ids)
        /\ Goto("recheck") /\ UNCHANGED answers
    BY <1>3 DEF LoadItems
  <2>2. ids \ DOMAIN cache \in SUBSET Items
    BY <1>1, CommandOps
  <2>3. \A i \in ids \ DOMAIN cache : items[i] \in Item
    BY <2>2 DEF TypeOK, StoreType, Document
  <2>4. IsItemMap(cache')
    BY <2>1, <2>2, <2>3, OverlayType, PrunedType DEF TypeOK, CanvasType
  <2>5. queue' \in Seq(Task) /\ IsRun(run')
    BY <2>1, GotoType DEF TypeOK, CanvasType, Steps
  <2> QED
    BY <2>1, <2>4, <2>5 DEF TypeOK, StoreType, CanvasType, CallerType, LoadItems, durable
<1> QED
  BY <1>2, <1>3

\* The re-read and the reduction of a command keep the types.
LEMMA CheckGuardsType ==
  ASSUME TypeOK, CheckGuards
  PROVE  TypeOK'
<1> DEFINE before == [i \in DOMAIN Ops(By) |-> IF i \in DOMAIN cache THEN cache[i] ELSE Absent]
<1>1. queue # <<>> /\ By \in Commands
  BY HeadTask DEF TypeOK, CanvasType, CheckGuards, At
<1>2. queue' \in Seq(Task) /\ IsRun(run') /\ answers' \in [Commands -> SUBSET Answer]
  <2>1. CASE Reply(Rejected)
    BY <1>1, <2>1, ReplyType, AnswerType DEF TypeOK, CanvasType, CallerType
  <2>2. CASE NextAttempt /\ UNCHANGED answers
    BY <2>2, NextAttemptType DEF TypeOK, CanvasType, CallerType
  <2>3. CASE /\ run' = [run EXCEPT !.at = "validate", !.original = before]
             /\ UNCHANGED <<queue, answers>>
    <3>1. IsItemMap(before)
      BY <1>1, CommandOps DEF TypeOK, CanvasType, IsItemMap, Absent, Item, Parents
    <3>2. "validate" \in Steps
      BY DEF Steps
    <3> QED
      BY <2>3, <3>1, <3>2 DEF TypeOK, CanvasType, CallerType, IsRun
  <2> QED
    BY <2>1, <2>2, <2>3 DEF CheckGuards
<1>3. /\ known' \in Nat \cup {Unknown} /\ IsItemMap(cache') /\ events' \in Seq(Nat)
      /\ reader' \in [Readers -> Reader]
  <2>1. CASE UNCHANGED <<known, cache, events, reader>>
    BY <2>1 DEF TypeOK, CanvasType
  <2>2. CASE Synchronize(revision) /\ reader' = Notified(revision)
    BY <2>2, SynchronizeType, NotifiedType DEF TypeOK, StoreType, CanvasType
  <2> QED
    BY <2>1, <2>2 DEF CheckGuards
<1> QED
  BY <1>2, <1>3 DEF TypeOK, StoreType, CanvasType, CallerType, CheckGuards, durable

\* Validation keeps the types.
LEMMA ValidateType ==
  ASSUME TypeOK, Validate
  PROVE  TypeOK'
<1> DEFINE ops == Ops(By)
           altered == Altered(ops, run.original)
           gone == {i \in altered : ops[i].kind = "delete"}
           fresh == Children(items, gone)
           view == [i \in Items |->
                      IF i \in fresh \/ i \notin DOMAIN cache THEN items[i] ELSE cache[i]]
           final == [i \in Items |->
                      IF i \in altered THEN Apply(ops[i], run.original[i]) ELSE view[i]]
           required == Closure(final, altered \ gone) \ altered
           authority == DOMAIN ops \cup fresh \cup required
<1>1. queue # <<>> /\ By \in Commands
  BY HeadTask DEF TypeOK, CanvasType, Validate, At
<1>2. IsItemMap(cache')
  <2>1. fresh \cup required \in SUBSET Items
    BY DEF Children, Present, Closure
  <2>2. \A i \in fresh \cup required : view[i] \in Item
    BY <2>1 DEF TypeOK, StoreType, CanvasType, Document, IsItemMap
  <2>3. IsItemMap(Overlay(cache, view, fresh \cup required))
    BY <2>1, <2>2, OverlayType DEF TypeOK, CanvasType
  <2>4. cache' \in Pruned(Overlay(cache, view, fresh \cup required),
                          IF required = {} THEN authority ELSE required)
    BY DEF Validate
  <2> QED
    BY <2>3, <2>4, PrunedType, SMTT(30)
<1>3. queue' \in Seq(Task) /\ IsRun(run') /\ answers' \in [Commands -> SUBSET Answer]
  <2>1. CASE Reply(Rejected)
    BY <1>1, <2>1, ReplyType, AnswerType DEF TypeOK, CanvasType, CallerType
  <2>2. CASE Goto("revalidate") /\ UNCHANGED answers
    BY <2>2, GotoType DEF TypeOK, CanvasType, CallerType, Steps
  <2> QED
    BY <2>1, <2>2 DEF Validate
<1> QED
  BY <1>2, <1>3 DEF TypeOK, StoreType, CanvasType, CallerType, Validate, durable

\* The last re-read before the transaction keeps the types.
LEMMA CheckRevisionType ==
  ASSUME TypeOK, CheckRevision
  PROVE  TypeOK'
<1>1. queue # <<>> /\ By \in Commands
  BY HeadTask DEF TypeOK, CanvasType, CheckRevision, At
<1>2. queue' \in Seq(Task) /\ IsRun(run') /\ answers' \in [Commands -> SUBSET Answer]
  <2>1. CASE Reply(Rejected)
    BY <1>1, <2>1, ReplyType, AnswerType DEF TypeOK, CanvasType, CallerType
  <2>2. CASE NextAttempt /\ UNCHANGED answers
    BY <2>2, NextAttemptType DEF TypeOK, CanvasType, CallerType
  <2>3. CASE Goto("apply") /\ UNCHANGED answers
    BY <2>3, GotoType DEF TypeOK, CanvasType, CallerType, Steps
  <2> QED
    BY <2>1, <2>2, <2>3 DEF CheckRevision
<1>3. /\ known' \in Nat \cup {Unknown} /\ IsItemMap(cache') /\ events' \in Seq(Nat)
      /\ reader' \in [Readers -> Reader]
  <2>1. CASE UNCHANGED <<known, cache, events, reader>>
    BY <2>1 DEF TypeOK, CanvasType
  <2>2. CASE Synchronize(revision) /\ reader' = Notified(revision)
    BY <2>2, SynchronizeType, NotifiedType DEF TypeOK, StoreType, CanvasType
  <2> QED
    BY <2>1, <2>2 DEF CheckRevision
<1> QED
  BY <1>2, <1>3 DEF TypeOK, StoreType, CanvasType, CallerType, CheckRevision, durable

\* While a command is between reduction and acceptance its locals describe the
\* task at the head of the queue: without this the rows it writes have no type.
RunOK ==
  run.at # "start" =>
    /\ queue # <<>> /\ Head(queue).kind = "execute"
    /\ run.at \in {"validate", "revalidate", "apply", "accept"} =>
         DOMAIN run.original = DOMAIN Ops(By)

\* What a command writes for one of its targets is an item.
LEMMA WrittenType ==
  ASSUME TypeOK, RunOK, queue # <<>>, By \in Commands, run.at \in {"apply", "accept"}
  PROVE  Targets \subseteq Items /\ \A i \in Targets : Written(i) \in Item
<1>1. DOMAIN run.original = DOMAIN Ops(By)
  BY DEF RunOK
<1>2. \A i \in DOMAIN Ops(By) : run.original[i] \in Item /\ Ops(By)[i] \in Operation
  BY <1>1, CommandOps DEF TypeOK, CanvasType, IsRun, IsItemMap
<1>3. Targets \subseteq DOMAIN Ops(By) /\ DOMAIN Ops(By) \subseteq Items
  BY CommandOps DEF Targets, Altered
<1> QED
  BY <1>2, <1>3, ApplyType DEF Written

\* The rows the transaction writes are well typed.
LEMMA WriteRowsType ==
  ASSUME TypeOK, RunOK, queue # <<>>, By \in Commands, run.at = "apply", WriteRows
  PROVE  StoreType'
<1>1. items' \in Document
  BY WrittenType DEF TypeOK, StoreType, WriteRows, Document
<1>2. history' \in Seq(Commands \cup {Foreign})
  BY AppendProperties DEF TypeOK, StoreType, WriteRows
<1>3. revision' \in Nat /\ receipts' \in [Commands -> Nat] /\ exists' \in BOOLEAN
  BY DEF TypeOK, StoreType, WriteRows
<1> QED
  BY <1>1, <1>2, <1>3 DEF StoreType

\* Spending from a bound keeps the bounds well typed.
LEMMA SpendType ==
  ASSUME CallerType, NEW kind \in {"foreign", "fault", "restart", "interrupt"}, Spend(kind)
  PROVE  spent' \in [{"foreign", "fault", "restart", "interrupt"} -> Nat]
  BY DEF CallerType, Spend

\* Every outcome of the transaction keeps the types.
LEMMA ApplyMutationsType ==
  ASSUME TypeOK, RunOK, ApplyMutations
  PROVE  TypeOK'
<1>1. queue # <<>> /\ By \in Commands /\ run.at = "apply"
  BY HeadTask DEF TypeOK, CanvasType, ApplyMutations, At
<1>2. StoreType'
  <2>1. CASE WriteRows
    BY <1>1, <2>1, WriteRowsType
  <2>2. CASE UNCHANGED durable
    BY <2>2 DEF TypeOK, StoreType, durable
  <2> QED
    BY <2>1, <2>2 DEF ApplyMutations
<1>3. IsRun(run')
  <2>1. "accept" \in Steps /\ "unclear" \in Steps
    BY DEF Steps
  <2>2. receipts[By] \in Nat /\ revision + 1 \in Nat
    BY <1>1 DEF TypeOK, StoreType
  <2>3. \E step \in Steps, r \in Nat : Outcome(step, r)
    BY <2>1, <2>2 DEF ApplyMutations
  <2> QED
    BY <2>3 DEF Outcome, IsRun, TypeOK, CanvasType
<1>4. spent' \in [{"foreign", "fault", "restart", "interrupt"} -> Nat]
  <2>1. CASE UNCHANGED spent
    BY <2>1 DEF TypeOK, CallerType
  <2>2. CASE Spend("fault")
    BY <2>2, SpendType DEF TypeOK
  <2> QED
    BY <2>1, <2>2 DEF ApplyMutations
<1> QED
  BY <1>2, <1>3, <1>4 DEF TypeOK, CanvasType, CallerType, ApplyMutations, callers

\* A lost compare-and-swap keeps the types.
LEMMA RevisionConflictType ==
  ASSUME TypeOK, RevisionConflict
  PROVE  TypeOK'
<1>1. queue # <<>> /\ By \in Commands
  BY HeadTask DEF TypeOK, CanvasType, RevisionConflict, At
<1>2. CASE Synchronize(revision) /\ reader' = Notified(revision) /\ NextAttempt
           /\ UNCHANGED answers
  <2>1. /\ known' \in Nat \cup {Unknown} /\ IsItemMap(cache') /\ events' \in Seq(Nat)
        /\ reader' \in [Readers -> Reader]
    BY <1>2, SynchronizeType, NotifiedType DEF TypeOK, StoreType, CanvasType
  <2>2. queue' \in Seq(Task) /\ IsRun(run')
    BY <1>2, NextAttemptType DEF TypeOK, CanvasType
  <2> QED
    BY <1>2, <2>1, <2>2
    DEF TypeOK, StoreType, CanvasType, CallerType, RevisionConflict, durable
<1>3. CASE Forget /\ Reply(Rejected) /\ UNCHANGED reader
  <2>1. known' \in Nat \cup {Unknown} /\ IsItemMap(cache') /\ events' \in Seq(Nat)
    BY <1>3, ForgetType
  <2>2. queue' \in Seq(Task) /\ IsRun(run') /\ answers' \in [Commands -> SUBSET Answer]
    BY <1>1, <1>3, ReplyType, AnswerType DEF TypeOK, CanvasType, CallerType
  <2> QED
    BY <1>3, <2>1, <2>2
    DEF TypeOK, StoreType, CanvasType, CallerType, RevisionConflict, durable
<1> QED
  BY <1>2, <1>3 DEF RevisionConflict

\* Accepting a committed result keeps the types.
LEMMA AcceptResultType ==
  ASSUME TypeOK, RunOK, AcceptResult
  PROVE  TypeOK'
<1> DEFINE taken == [i \in DOMAIN cache \cup Targets |->
                       IF i \in Targets THEN Written(i) ELSE cache[i]]
<1>1. queue # <<>> /\ By \in Commands /\ run.at = "accept" /\ run.result \in Nat
  BY HeadTask DEF TypeOK, CanvasType, AcceptResult, At, IsRun
<1>2. queue' \in Seq(Task) /\ IsRun(run') /\ answers' \in [Commands -> SUBSET Answer]
  <2>1. Reply(Retry) \/ Reply(Committed(run.result))
    BY DEF AcceptResult
  <2> QED
    BY <1>1, <2>1, ReplyType, AnswerType DEF TypeOK, CanvasType, CallerType
<1>3. /\ known' \in Nat \cup {Unknown} /\ IsItemMap(cache') /\ events' \in Seq(Nat)
      /\ reader' \in [Readers -> Reader]
  <2>1. CASE ForceResync(run.result)
    BY <1>1, <2>1, ForceResyncType DEF TypeOK
  <2>2. CASE /\ known' = run.result
             /\ cache' \in Pruned(taken, Targets)
             /\ events' = Trimmed(Append(events, run.result))
             /\ reader' = Pushed(Changed(run.result))
    <3>1. IsItemMap(taken)
      BY <1>1, WrittenType DEF TypeOK, CanvasType, IsItemMap
    <3>2. IsItemMap(cache')
      BY <2>2, <3>1, PrunedType
    <3>3. events' \in Seq(Nat)
      <4>1. Append(events, run.result) \in Seq(Nat)
        BY <1>1, AppendProperties DEF TypeOK, CanvasType
      <4> QED
        BY <2>2, <4>1, TrimmedType
    <3>4. reader' \in [Readers -> Reader]
      BY <1>1, <2>2, EventType, PushedType DEF TypeOK, CanvasType
    <3> QED
      BY <1>1, <2>2, <3>2, <3>3, <3>4
  <2> QED
    BY <2>1, <2>2 DEF AcceptResult
<1> QED
  BY <1>2, <1>3 DEF TypeOK, StoreType, CanvasType, CallerType, AcceptResult, durable

\* Resyncing after a failed transaction keeps the types.
LEMMA ResyncAfterFailureType ==
  ASSUME TypeOK, ResyncAfterFailure
  PROVE  TypeOK'
<1>1. queue # <<>>
  BY DEF ResyncAfterFailure, At
<1>2. queue' \in Seq(Task) /\ IsRun(run') /\ answers' \in [Commands -> SUBSET Answer]
  BY <1>1, ReplyType, AnswerType DEF TypeOK, CanvasType, CallerType, ResyncAfterFailure
<1>3. /\ known' \in Nat \cup {Unknown} /\ IsItemMap(cache') /\ events' \in Seq(Nat)
      /\ reader' \in [Readers -> Reader]
  <2>1. \E r \in Nat \cup {Unknown} : ForceResync(r)
    BY DEF ResyncAfterFailure, TypeOK, StoreType
  <2> QED
    BY <2>1, ForceResyncType DEF TypeOK
<1>4. spent' \in [{"foreign", "fault", "restart", "interrupt"} -> Nat]
  <2>1. UNCHANGED spent \/ Spend("fault")
    BY DEF ResyncAfterFailure
  <2> QED
    BY <2>1, SpendType DEF TypeOK, CallerType
<1> QED
  BY <1>2, <1>3, <1>4
  DEF TypeOK, StoreType, CanvasType, CallerType, ResyncAfterFailure, durable

\* A failed read keeps the types.
LEMMA ReadFailsType ==
  ASSUME TypeOK, ReadFails
  PROVE  TypeOK'
<1>1. queue # <<>>
  BY DEF ReadFails, At
<1>2. queue' \in Seq(Task) /\ IsRun(run') /\ answers' \in [Commands -> SUBSET Answer]
  BY <1>1, ReplyType, AnswerType DEF TypeOK, CanvasType, CallerType, ReadFails
<1>3. spent' \in [{"foreign", "fault", "restart", "interrupt"} -> Nat]
  BY SpendType DEF TypeOK, ReadFails
<1> QED
  BY <1>2, <1>3 DEF TypeOK, StoreType, CanvasType, CallerType, ReadFails, durable

\* Snapshots and streams.
LEMMA RequestType ==
  ASSUME TypeOK, NEW s \in Readers, NEW kind \in {"snapshot", "subscribe"}, NEW from,
         NEW to \in {"reading", "opening"}, Request(s, kind, from, to)
  PROVE  TypeOK'
<1>2. queue' \in Seq(Task)
  <2>1. [kind |-> kind, by |-> s] \in Task
    BY DEF Task
  <2> QED
    BY <2>1, EnqueueType DEF TypeOK, CanvasType, Request
<1>3. reader' \in [Readers -> Reader]
  BY DEF TypeOK, CanvasType, Request, Reader
<1>4. calls' \in [Commands \cup Readers -> Nat]
  BY DEF TypeOK, CallerType, Request
<1> QED
  BY <1>2, <1>3, <1>4 DEF TypeOK, StoreType, CanvasType, CallerType, Request, durable

\* Refusing a request of a reader keeps the types.
LEMMA RefuseType ==
  ASSUME TypeOK, NEW kind \in {"snapshot", "subscribe"}, Refuse(kind)
  PROVE  TypeOK'
<1>1. queue # <<>> /\ By \in Readers
  BY HeadTask DEF TypeOK, CanvasType, Refuse, Turn
<1>2. queue' \in Seq(Task) /\ IsRun(run')
  BY <1>1, DoneType DEF TypeOK, CanvasType, Refuse
<1>3. reader' \in [Readers -> Reader]
  BY <1>1, DetachedType DEF TypeOK, CanvasType, Refuse
<1>4. spent' \in [{"foreign", "fault", "restart", "interrupt"} -> Nat]
  <2>1. UNCHANGED spent \/ Spend("fault")
    BY DEF Refuse
  <2> QED
    BY <2>1, SpendType DEF TypeOK, CallerType
<1> QED
  BY <1>2, <1>3, <1>4
  DEF TypeOK, StoreType, CanvasType, CallerType, Refuse, durable, callers

\* Serving a request of a reader keeps what it does to the authority typed.
LEMMA ServeType ==
  ASSUME TypeOK, NEW kind \in {"snapshot", "subscribe"}, Serve(kind),
         reader' \in [Readers -> Reader]
  PROVE  TypeOK'
<1>1. queue # <<>>
  BY DEF Serve, Turn
<1>2. queue' \in Seq(Task) /\ IsRun(run')
  BY <1>1, DoneType DEF TypeOK, CanvasType, Serve
<1>3. known' \in Nat \cup {Unknown} /\ IsItemMap(cache') /\ events' \in Seq(Nat)
  BY SynchronizeType DEF TypeOK, StoreType, Serve
<1> QED
  BY <1>2, <1>3 DEF TypeOK, StoreType, CanvasType, CallerType, Serve, durable, callers

\* getSnapshot keeps the types.
LEMMA ServeSnapshotType ==
  ASSUME TypeOK, ServeSnapshot
  PROVE  TypeOK'
<1>1. CASE Refuse("snapshot")
  BY <1>1, RefuseType
<1>2. CASE /\ Serve("snapshot")
           /\ reader' = [Notified(revision) EXCEPT
                           ![By].phase = "ready", ![By].position = Changed(revision)]
  <2>1. Notified(revision) \in [Readers -> Reader]
    BY NotifiedType DEF TypeOK, StoreType, CanvasType
  <2>2. Changed(revision) \in Event
    BY EventType DEF TypeOK, StoreType
  <2>3. reader' \in [Readers -> Reader]
    BY <1>2, <2>1, <2>2 DEF Reader
  <2> QED
    BY <1>2, <2>3, ServeType
<1> QED
  BY <1>1, <1>2 DEF ServeSnapshot

\* The initialization of a subscription keeps the types.
LEMMA ServeSubscribeType ==
  ASSUME TypeOK, ServeSubscribe
  PROVE  TypeOK'
<1> DEFINE replay == ReplayAfter(events', reader[By].position.revision, revision)
<1>1. CASE Refuse("subscribe")
  BY <1>1, RefuseType
<1>2. CASE /\ Serve("subscribe")
           /\ reader' = [Notified(revision) EXCEPT
                           ![By].phase = "open", ![By].stream = replay]
  <2>1. Notified(revision) \in [Readers -> Reader]
    BY NotifiedType DEF TypeOK, StoreType, CanvasType
  <2>2. By \in Readers
    BY <1>2, HeadTask DEF TypeOK, CanvasType, Serve, Turn
  <2>3. reader[By].position.revision \in Nat
    BY <2>2 DEF TypeOK, CanvasType, Reader, Event
  <2>4. replay \in Seq(Event)
    BY <2>3, ReplayAfterType DEF TypeOK, StoreType
  <2> HIDE DEF replay
  <2>5. reader' \in [Readers -> Reader]
    BY <1>2, <2>1, <2>4, ZenonT(40) DEF Reader
  <2> QED
    BY <1>2, <2>5, ServeType
<1> QED
  BY <1>1, <1>2 DEF ServeSubscribe

\* A step of a consumer keeps the types.
LEMMA StreamStepType ==
  ASSUME TypeOK, NEW s \in Readers, NEW r \in Reader, StreamStep(s, r)
  PROVE  TypeOK'
<1>1. reader' \in [Readers -> Reader]
  BY DEF TypeOK, CanvasType, StreamStep
<1> QED
  BY <1>1 DEF TypeOK, StoreType, CanvasType, CallerType, StreamStep, durable, callers

\* next() keeps the types.
LEMMA ReadStreamType ==
  ASSUME TypeOK, NEW s \in Readers, ReadStream(s) \/ Return(s)
  PROVE  TypeOK'
<1> DEFINE r == reader[s]
<1>1. r \in Reader
  BY DEF TypeOK, CanvasType
<1>2. CASE /\ r.stream # <<>>
           /\ StreamStep(s, [Received(r, Head(r.stream)) EXCEPT !.stream = Tail(@)])
  <2>1. r.stream \in Seq(Event)
    BY <1>1 DEF Reader
  <2>2. Head(r.stream) \in Event /\ Tail(r.stream) \in Seq(Event)
    BY <1>2, <2>1, HeadTailProperties
  <2>3. Received(r, Head(r.stream)) \in Reader
    BY <1>1, <2>2, ReceivedType
  <2>4. Received(r, Head(r.stream)).stream = r.stream
    BY <1>1 DEF Received, Reader
  <2>5. [Received(r, Head(r.stream)) EXCEPT !.stream = Tail(@)] \in Reader
    BY <2>2, <2>3, <2>4 DEF Reader
  <2> QED
    BY <1>2, <2>5, StreamStepType
<1>3. CASE StreamStep(s, [r EXCEPT !.waiting = TRUE])
  <2>1. [r EXCEPT !.waiting = TRUE] \in Reader
    BY <1>1 DEF Reader
  <2> QED
    BY <1>3, <2>1, StreamStepType
<1>4. CASE Return(s)
  BY <1>1, <1>4, DetachedType, StreamStepType DEF Return
<1> QED
  BY <1>2, <1>3, <1>4 DEF ReadStream

\* Coordinated deletion.
LEMMA DeletionAfter ==
  ASSUME CallerType, NEW d \in Deletions, NEW from, NEW to \in DeletionPhase,
         Becomes(d, from, to)
  PROVE  deletion' \in [Deletions -> DeletionPhase]
  BY DEF CallerType, Becomes

\* Planning a deletion keeps the types.
LEMMA PlanDeletionType ==
  ASSUME TypeOK, NEW d \in Deletions, PlanDeletion(d)
  PROVE  TypeOK'
<1>1. deletion' \in [Deletions -> DeletionPhase]
  BY DeletionAfter DEF TypeOK, PlanDeletion, DeletionPhase
<1>2. plan' \in [Deletions -> Nat]
  BY DEF TypeOK, StoreType, CallerType, PlanDeletion
<1> QED
  BY <1>1, <1>2 DEF TypeOK, StoreType, CanvasType, CallerType, PlanDeletion, durable

\* Claiming a canvas keeps the types.
LEMMA BeginDeletionType ==
  ASSUME TypeOK, NEW d \in Deletions, BeginDeletion(d)
  PROVE  TypeOK'
<1>1. deletion' \in [Deletions -> DeletionPhase]
  <2>1. "refused" \in DeletionPhase /\ "beginning" \in DeletionPhase
    BY DEF DeletionPhase
  <2> QED
    BY <2>1, DeletionAfter DEF TypeOK, BeginDeletion
<1>2. releasing' \in BOOLEAN /\ queue' \in Seq(Task)
  <2>1. [kind |-> "begin", by |-> d] \in Task
    BY DEF Task
  <2> QED
    BY <2>1, EnqueueType DEF TypeOK, CanvasType, BeginDeletion
<1> QED
  BY <1>1, <1>2 DEF TypeOK, StoreType, CanvasType, CallerType, BeginDeletion, durable

\* Settling the claim keeps the types.
LEMMA ServeBeginType ==
  ASSUME TypeOK, ServeBegin
  PROVE  TypeOK'
<1>1. queue # <<>> /\ By \in Deletions
  BY HeadTask DEF TypeOK, CanvasType, ServeBegin, Turn
<1>2. queue' \in Seq(Task) /\ IsRun(run')
  BY <1>1, DoneType DEF TypeOK, CanvasType, ServeBegin
<1>3. deletion' \in [Deletions -> DeletionPhase]
  <2>1. "claimed" \in DeletionPhase /\ "failed" \in DeletionPhase
    BY DEF DeletionPhase
  <2>2. deletion \in [Deletions -> DeletionPhase]
    BY DEF TypeOK, CallerType
  <2> QED
    BY <1>1, <2>1, <2>2 DEF ServeBegin
<1>4. spent' \in [{"foreign", "fault", "restart", "interrupt"} -> Nat]
  <2>1. UNCHANGED spent \/ Spend("fault")
    BY DEF ServeBegin
  <2> QED
    BY <2>1, SpendType DEF TypeOK, CallerType
<1>5. releasing' \in BOOLEAN
  BY DEF TypeOK, CanvasType, ServeBegin
<1> QED
  BY <1>2, <1>3, <1>4, <1>5
  DEF TypeOK, StoreType, CanvasType, CallerType, ServeBegin, durable

\* Queueing the abort of a deletion keeps the types.
LEMMA AbortDeletionType ==
  ASSUME TypeOK, NEW d \in Deletions, NEW from, AbortDeletion(d, from)
  PROVE  deletion' \in [Deletions -> DeletionPhase] /\ queue' \in Seq(Task)
<1>1. "aborting" \in DeletionPhase /\ [kind |-> "abort", by |-> d] \in Task
  BY DEF DeletionPhase, Task
<1> QED
  BY <1>1, DeletionAfter, EnqueueType DEF TypeOK, CanvasType, AbortDeletion

\* The rows that remain after a deletion are well typed.
LEMMA DeleteRowsType ==
  ASSUME StoreType, DeleteRows
  PROVE  StoreType'
  BY DEF StoreType, DeleteRows, EmptyDocument, Document, Absent, Item, Parents

\* Disposing of the chats, or failing to, keeps the types.
LEMMA DisposeChatsType ==
  ASSUME TypeOK, NEW d \in Deletions, DisposeChats(d)
  PROVE  TypeOK'
<1>1. CASE Becomes(d, {"claimed"}, "disposed") /\ UNCHANGED <<queue, spent>>
  <2>1. deletion' \in [Deletions -> DeletionPhase]
    BY <1>1, DeletionAfter DEF TypeOK, DeletionPhase
  <2> QED
    BY <1>1, <2>1 DEF TypeOK, StoreType, CanvasType, CallerType, DisposeChats, durable
<1>2. CASE AbortDeletion(d, {"claimed"}) /\ Spend("fault")
  <2>1. deletion' \in [Deletions -> DeletionPhase] /\ queue' \in Seq(Task)
    BY <1>2, AbortDeletionType
  <2>2. spent' \in [{"foreign", "fault", "restart", "interrupt"} -> Nat]
    BY <1>2, SpendType DEF TypeOK
  <2> QED
    BY <2>1, <2>2 DEF TypeOK, StoreType, CanvasType, CallerType, DisposeChats, durable
<1> QED
  BY <1>1, <1>2 DEF DisposeChats

\* Every outcome of the deletion transaction keeps the types.
LEMMA CommitDeletionType ==
  ASSUME TypeOK, NEW d \in Deletions, CommitDeletion(d)
  PROVE  TypeOK'
<1>1. StoreType'
  <2>1. DeleteRows \/ UNCHANGED durable
    BY DEF CommitDeletion
  <2>2. CASE UNCHANGED durable
    BY <2>2 DEF TypeOK, StoreType, durable
  <2> QED
    BY <2>1, <2>2, DeleteRowsType DEF TypeOK
<1>2. deletion' \in [Deletions -> DeletionPhase] /\ queue' \in Seq(Task)
  <2>1. CASE Becomes(d, {"disposed"}, "committed") /\ UNCHANGED queue
    BY <2>1, DeletionAfter DEF TypeOK, CanvasType, DeletionPhase
  <2>2. CASE AbortDeletion(d, {"disposed"})
    BY <2>2, AbortDeletionType
  <2> QED
    BY <2>1, <2>2 DEF CommitDeletion
<1>3. spent' \in [{"foreign", "fault", "restart", "interrupt"} -> Nat]
  <2>1. UNCHANGED spent \/ Spend("fault")
    BY DEF CommitDeletion
  <2> QED
    BY <2>1, SpendType DEF TypeOK, CallerType
<1> QED
  BY <1>1, <1>2, <1>3 DEF TypeOK, CanvasType, CallerType, CommitDeletion

\* Giving the canvas back keeps the types.
LEMMA ServeAbortType ==
  ASSUME TypeOK, ServeAbort
  PROVE  TypeOK'
<1>1. queue # <<>> /\ By \in Deletions
  BY HeadTask DEF TypeOK, CanvasType, ServeAbort, Turn
<1>2. queue' \in Seq(Task) /\ IsRun(run')
  BY <1>1, DoneType DEF TypeOK, CanvasType, ServeAbort
<1>3. deletion' \in [Deletions -> DeletionPhase]
  <2>1. "failed" \in DeletionPhase
    BY DEF DeletionPhase
  <2> QED
    BY <1>1, <2>1 DEF TypeOK, CallerType, ServeAbort
<1>4. known' \in Nat \cup {Unknown} /\ IsItemMap(cache') /\ events' \in Seq(Nat)
  BY ForgetType DEF ServeAbort
<1> QED
  BY <1>2, <1>3, <1>4 DEF TypeOK, StoreType, CanvasType, CallerType, ServeAbort, durable

\* Queueing the release of a deleted canvas keeps the types.
LEMMA ReleaseDeletedType ==
  ASSUME TypeOK, NEW d \in Deletions, ReleaseDeleted(d)
  PROVE  TypeOK'
<1>1. "releasing" \in DeletionPhase /\ [kind |-> "release", by |-> d] \in Task
  BY DEF DeletionPhase, Task
<1>2. deletion' \in [Deletions -> DeletionPhase] /\ queue' \in Seq(Task)
  BY <1>1, DeletionAfter, EnqueueType DEF TypeOK, CanvasType, ReleaseDeleted
<1> QED
  BY <1>2 DEF TypeOK, StoreType, CanvasType, CallerType, ReleaseDeleted, durable

\* Dropping the state of a deleted canvas keeps the types.
LEMMA ServeReleaseType ==
  ASSUME TypeOK, ServeRelease
  PROVE  TypeOK'
<1>1. By \in Deletions
  BY HeadTask DEF TypeOK, CanvasType, ServeRelease, Turn
<1>2. queue' \in Seq(Task) /\ IsRun(run')
  BY IdleType, EmptySeq DEF ServeRelease
<1>3. deletion' \in [Deletions -> DeletionPhase]
  <2>1. "deleted" \in DeletionPhase
    BY DEF DeletionPhase
  <2> QED
    BY <1>1, <2>1 DEF TypeOK, CallerType, ServeRelease
<1>4. known' \in Nat \cup {Unknown} /\ IsItemMap(cache') /\ events' \in Seq(Nat)
  BY ForgetType DEF ServeRelease
<1>5. reader' \in [Readers -> Reader]
  BY DetachedType DEF TypeOK, CanvasType, ServeRelease
<1>6. answers' \in [Commands -> SUBSET Answer]
  BY AnswerType DEF TypeOK, CallerType, ServeRelease
<1> QED
  BY <1>2, <1>3, <1>4, <1>5, <1>6
  DEF TypeOK, StoreType, CanvasType, CallerType, ServeRelease, durable

\* Interrupting a deletion keeps the types.
LEMMA InterruptType ==
  ASSUME TypeOK, NEW d \in Deletions, Interrupt(d)
  PROVE  TypeOK'
<1>1. deletion' \in [Deletions -> DeletionPhase]
  BY DeletionAfter DEF TypeOK, Interrupt, DeletionPhase
<1>2. spent' \in [{"foreign", "fault", "restart", "interrupt"} -> Nat]
  BY SpendType DEF TypeOK, Interrupt
<1> QED
  BY <1>1, <1>2 DEF TypeOK, StoreType, CanvasType, CallerType, Interrupt, durable

\* The environment: other authorities and restarts.
LEMMA CommitElsewhereType ==
  ASSUME TypeOK, CommitElsewhere
  PROVE  TypeOK'
<1>1. PICK ops : Elsewhere(ops) /\ IsBatch(ops)
  BY CommandAssumption DEF CommitElsewhere, Ops
<1>2. items' \in Document /\ revision' \in Nat
  BY <1>1, ResultType DEF TypeOK, StoreType, Elsewhere
<1>3. history' \in Seq(Commands \cup {Foreign}) /\ receipts' \in [Commands -> Nat]
  <2>1. CASE history' = Append(history, Foreign) /\ UNCHANGED receipts
    BY <2>1, AppendProperties DEF TypeOK, StoreType
  <2>2. ASSUME NEW c \in Commands, history' = Append(history, c),
               receipts' = [receipts EXCEPT ![c] = revision + 1]
        PROVE  history' \in Seq(Commands \cup {Foreign}) /\ receipts' \in [Commands -> Nat]
    BY <2>2, AppendProperties DEF TypeOK, StoreType
  <2> QED
    BY <2>1, <2>2 DEF CommitElsewhere
<1>4. spent' \in [{"foreign", "fault", "restart", "interrupt"} -> Nat]
  BY <1>1, SpendType DEF TypeOK, Elsewhere
<1> QED
  BY <1>1, <1>2, <1>3, <1>4
  DEF TypeOK, StoreType, CanvasType, CallerType, Elsewhere, callers

\* A restart keeps the types.
LEMMA RestartType ==
  ASSUME TypeOK, Restart
  PROVE  TypeOK'
<1>1. queue' \in Seq(Task) /\ IsRun(run')
  BY IdleType, EmptySeq DEF Restart
<1>2. known' \in Nat \cup {Unknown} /\ IsItemMap(cache') /\ events' \in Seq(Nat)
  BY ForgetType DEF Restart
<1>3. reader' \in [Readers -> Reader]
  BY DetachedType DEF TypeOK, CanvasType, Restart
<1>4. deletion' \in [Deletions -> DeletionPhase]
  <2>1. "lost" \in DeletionPhase
    BY DEF DeletionPhase
  <2>2. deletion \in [Deletions -> DeletionPhase]
    BY DEF TypeOK, CallerType
  <2>3. deletion' \in [Deletions -> {"lost"} \cup DeletionPhase]
    BY <2>2 DEF Restart
  <2> QED
    BY <2>1, <2>3
<1>5. spent' \in [{"foreign", "fault", "restart", "interrupt"} -> Nat]
  BY SpendType DEF TypeOK, Restart
<1> QED
  BY <1>1, <1>2, <1>3, <1>4, <1>5
  DEF TypeOK, StoreType, CanvasType, CallerType, Restart, durable

-----------------------------------------------------------------------------
(***************************************************************************)
(* RunOK: the queue grows behind the running command and shrinks only when *)
(* it is answered.                                                         *)
(***************************************************************************)
LEMMA RunIdle ==
  ASSUME run' = Idle
  PROVE  RunOK'
  BY DEF RunOK, Idle

\* RunOK survives a step that keeps the locals and at most enqueues a task.
LEMMA RunKept ==
  ASSUME queue \in Seq(Task), RunOK, UNCHANGED run,
         UNCHANGED queue \/ \E kind, x : Enqueue(kind, x)
  PROVE  RunOK'
<1>1. CASE UNCHANGED queue
  BY <1>1 DEF RunOK, By
<1>2. ASSUME NEW t, queue' = Append(queue, t), queue # <<>>
      PROVE  queue' # <<>> /\ Head(queue') = Head(queue)
  <2>1. Append(queue, t) # <<>>
    BY <1>2
  <2> QED
    BY <1>2, <2>1, HeadTailAppend
<1>3. CASE \E kind, x : Enqueue(kind, x)
  BY <1>2, <1>3 DEF RunOK, Enqueue, By
<1> QED
  BY <1>1, <1>3

\* RunOK survives a step of the running command that keeps what it reduced.
LEMMA RunMoved ==
  ASSUME RunOK, UNCHANGED queue, queue # <<>>, Head(queue).kind = "execute",
         \/ run'.at \in {"revision", "load", "recheck", "unclear"}
         \/ DOMAIN run'.original = DOMAIN Ops(By)
  PROVE  RunOK'
  BY DEF RunOK, By

\* Every step keeps RunOK.
LEMMA RunStep ==
  ASSUME TypeOK, RunOK, [Next]_vars
  PROVE  RunOK'
<1>1. queue \in Seq(Task)
  BY DEF TypeOK, CanvasType
<1>2. CASE ExecuteStep
  <2>0. queue # <<>> /\ Head(queue).kind = "execute" /\ By \in Commands
    BY <1>1, <1>2, HeadTask DEF ExecuteStep, StartCommand, ReadRevision, LoadItems, CheckGuards,
       Validate, CheckRevision, ApplyMutations, RevisionConflict, AcceptResult,
       ResyncAfterFailure, ReadFails, At
  <2>1. ASSUME NEW a, Reply(a) PROVE RunOK'
    BY <2>1, RunIdle DEF Reply, Done
  <2>2. CASE NextAttempt
    <3>1. run'.at = "revision"
      BY <2>2 DEF NextAttempt, TypeOK, CanvasType, IsRun
    <3> QED
      BY <2>0, <2>2, <3>1, RunMoved DEF NextAttempt
  <2>3. CASE StartCommand
    <3>1. CASE run' = [run EXCEPT !.at = "revision", !.attempt = 1] /\ UNCHANGED queue
      <4>1. run'.at = "revision"
        BY <3>1 DEF TypeOK, CanvasType, IsRun
      <4> QED
        BY <2>0, <3>1, <4>1, RunMoved
    <3> QED
      BY <2>1, <2>3, <3>1 DEF StartCommand
  <2>4. CASE ReadRevision
    <3>1. CASE run' = [run EXCEPT !.at = "load", !.seen = revision] /\ UNCHANGED queue
      <4>1. run'.at = "load"
        BY <3>1 DEF TypeOK, CanvasType, IsRun
      <4> QED
        BY <2>0, <3>1, <4>1, RunMoved
    <3> QED
      BY <2>1, <2>4, <3>1 DEF ReadRevision
  <2>5. CASE LoadItems
    <3>1. CASE Goto("recheck")
      <4>1. run'.at = "recheck" /\ UNCHANGED queue
        BY <3>1 DEF Goto, TypeOK, CanvasType, IsRun
      <4> QED
        BY <2>0, <4>1, RunMoved
    <3> QED
      BY <2>1, <2>5, <3>1 DEF LoadItems
  <2>6. CASE CheckGuards
    <3> DEFINE before == [i \in DOMAIN Ops(By) |->
                            IF i \in DOMAIN cache THEN cache[i] ELSE Absent]
    <3>1. CASE run' = [run EXCEPT !.at = "validate", !.original = before] /\ UNCHANGED queue
      <4>1. run'.original = before
        BY <3>1 DEF TypeOK, CanvasType, IsRun
      <4>2. DOMAIN before = DOMAIN Ops(By)
        OBVIOUS
      <4> QED
        BY <2>0, <3>1, <4>1, <4>2, RunMoved
    <3> QED
      BY <2>1, <2>2, <2>6, <3>1 DEF CheckGuards
  <2>7. ASSUME NEW step, Goto(step), run.at \in {"validate", "revalidate"}
        PROVE  RunOK'
    <3>1. DOMAIN run'.original = DOMAIN Ops(By) /\ UNCHANGED queue
      BY <2>7 DEF Goto, RunOK, TypeOK, CanvasType, IsRun
    <3> QED
      BY <2>0, <3>1, RunMoved
  <2>8. CASE Validate
    BY <2>1, <2>7, <2>8 DEF Validate, At
  <2>9. CASE CheckRevision
    BY <2>1, <2>2, <2>7, <2>9 DEF CheckRevision, At
  <2>10. CASE ApplyMutations
    <3>1. UNCHANGED queue /\ run.at = "apply"
      BY <2>10 DEF ApplyMutations, At
    <3>2. \E step, r : Outcome(step, r)
      BY <2>10 DEF ApplyMutations
    <3>3. DOMAIN run'.original = DOMAIN Ops(By)
      BY <3>1, <3>2 DEF Outcome, RunOK, TypeOK, CanvasType, IsRun
    <3> QED
      BY <2>0, <3>1, <3>3, RunMoved
  <2>11. CASE RevisionConflict
    BY <2>1, <2>2, <2>11 DEF RevisionConflict
  <2>12. CASE AcceptResult
    BY <2>1, <2>12 DEF AcceptResult
  <2>13. CASE ResyncAfterFailure \/ ReadFails
    BY <2>1, <2>13 DEF ResyncAfterFailure, ReadFails
  <2> QED
    BY <1>2, <2>3, <2>4, <2>5, <2>6, <2>8, <2>9, <2>10, <2>11, <2>12, <2>13 DEF ExecuteStep
<1>3. CASE ServeSnapshot \/ ServeSubscribe \/ ServeBegin \/ ServeAbort \/ ServeRelease \/ Restart
  <2>1. run' = Idle
    BY <1>3 DEF ServeSnapshot, ServeSubscribe, Serve, Refuse, ServeBegin, ServeAbort,
       ServeRelease, Restart, Done
  <2> QED
    BY <2>1, RunIdle
<1>4. ASSUME NEW c \in Commands, Execute(c) PROVE RunOK'
  BY <1>1, <1>4, RunKept DEF Execute
<1>5. ASSUME NEW s \in Readers, GetSnapshot(s) \/ Subscribe(s) \/ ReadStream(s) \/ Return(s)
      PROVE  RunOK'
  BY <1>1, <1>5, RunKept DEF GetSnapshot, Subscribe, Request, ReadStream, Return, StreamStep
<1>6. ASSUME NEW d \in Deletions, PlanDeletion(d) \/ BeginDeletion(d) \/ Interrupt(d)
      PROVE  RunOK'
  BY <1>1, <1>6, RunKept DEF PlanDeletion, BeginDeletion, Interrupt
<1>7. ASSUME NEW d \in Deletions, DeletionStep(d)
      PROVE  RunOK'
  BY <1>1, <1>7, RunKept
  DEF DeletionStep, DisposeChats, CommitDeletion, ReleaseDeleted, AbortDeletion
<1>8. CASE CommitElsewhere
  BY <1>1, <1>8, RunKept DEF CommitElsewhere, Elsewhere
<1>9. CASE UNCHANGED vars
  BY <1>1, <1>9, RunKept DEF vars
<1> QED
  BY <1>2, <1>3, <1>4, <1>5, <1>6, <1>7, <1>8, <1>9 DEF Next, QueueStep

\* Every step keeps the types.
LEMMA TypeStep ==
  ASSUME TypeOK, RunOK, [Next]_vars
  PROVE  TypeOK'
<1>1. CASE ExecuteStep
  BY <1>1, StartCommandType, ReadRevisionType, LoadItemsType, CheckGuardsType, ValidateType,
     CheckRevisionType, ApplyMutationsType, RevisionConflictType, AcceptResultType,
     ResyncAfterFailureType, ReadFailsType
  DEF ExecuteStep
<1>2. CASE ServeSnapshot \/ ServeSubscribe \/ ServeBegin \/ ServeAbort \/ ServeRelease
  BY <1>2, ServeSnapshotType, ServeSubscribeType, ServeBeginType, ServeAbortType,
     ServeReleaseType
<1>3. ASSUME NEW c \in Commands, Execute(c) PROVE TypeOK'
  BY <1>3, ExecuteType
<1>4. ASSUME NEW s \in Readers, GetSnapshot(s) \/ Subscribe(s) \/ ReadStream(s) \/ Return(s)
      PROVE  TypeOK'
  BY <1>4, RequestType, ReadStreamType DEF GetSnapshot, Subscribe
<1>5. ASSUME NEW d \in Deletions,
             PlanDeletion(d) \/ BeginDeletion(d) \/ DeletionStep(d) \/ Interrupt(d)
      PROVE  TypeOK'
  BY <1>5, PlanDeletionType, BeginDeletionType, InterruptType, DisposeChatsType,
     CommitDeletionType, ReleaseDeletedType
  DEF DeletionStep
<1>6. CASE CommitElsewhere \/ Restart
  BY <1>6, CommitElsewhereType, RestartType
<1>7. CASE UNCHANGED vars
  BY <1>7 DEF vars, TypeOK, StoreType, CanvasType, CallerType, durable, callers
<1> QED
  BY <1>1, <1>2, <1>3, <1>4, <1>5, <1>6, <1>7 DEF Next, QueueStep

\* Types and RunOK together are an invariant of the specification.
LEMMA TypeInv == Spec => [](TypeOK /\ RunOK)
<1>1. Init => TypeOK /\ RunOK
  BY InitType DEF Init, RunOK, Idle
<1>2. TypeOK /\ RunOK /\ [Next]_vars => (TypeOK /\ RunOK)'
  BY TypeStep, RunStep
<1> QED
  BY <1>1, <1>2, PTL DEF Spec

\* Every reachable state of the authority is well typed.
THEOREM TypeCorrect == Spec => []TypeOK
  BY TypeInv, PTL

-----------------------------------------------------------------------------
(***************************************************************************)
(* Receipts and history.                                                   *)
(***************************************************************************)
\* The only ways in which the durable history and the receipts change.
Commits(c) ==
  /\ receipts[c] = 0
  /\ revision' = revision + 1
  /\ receipts' = [receipts EXCEPT ![c] = revision + 1]
  /\ history' = Append(history, c)

CommitsForeign ==
  /\ revision' = revision + 1
  /\ UNCHANGED receipts
  /\ history' = Append(history, Foreign)

\* History and receipts change only by one commit at a time, of a command
\* or of another authority.
LEMMA HistoryStep ==
  ASSUME TypeOK, [Next]_vars
  PROVE  \/ UNCHANGED <<revision, receipts, history>>
         \/ \E c \in Commands : Commits(c)
         \/ CommitsForeign
<1>1. queue \in Seq(Task)
  BY DEF TypeOK, CanvasType
<1>2. CASE ApplyMutations
  <2>1. By \in Commands
    BY <1>1, <1>2, HeadTask DEF ApplyMutations, At
  <2>2. CASE UNCHANGED durable
    BY <2>2 DEF durable
  <2>3. CASE Ready /\ WriteRows
    BY <2>1, <2>3 DEF Ready, WriteRows, Commits
  <2> QED
    BY <1>2, <2>2, <2>3 DEF ApplyMutations
<1>3. CASE CommitElsewhere
  BY <1>3 DEF CommitElsewhere, Elsewhere, Commits, CommitsForeign
<1>4. ASSUME NEW d \in Deletions, CommitDeletion(d)
      PROVE  UNCHANGED <<revision, receipts, history>>
  BY <1>4 DEF CommitDeletion, DeleteRows, durable
<1>5. CASE StartCommand \/ ReadRevision \/ LoadItems \/ CheckGuards \/ Validate
           \/ CheckRevision \/ RevisionConflict \/ AcceptResult \/ ResyncAfterFailure \/ ReadFails
  BY <1>5 DEF StartCommand, ReadRevision, LoadItems, CheckGuards, Validate, CheckRevision,
     RevisionConflict, AcceptResult, ResyncAfterFailure, ReadFails, durable
<1>6. CASE ServeSnapshot \/ ServeSubscribe \/ ServeBegin \/ ServeAbort \/ ServeRelease \/ Restart
  BY <1>6 DEF ServeSnapshot, ServeSubscribe, Serve, Refuse, ServeBegin, ServeAbort,
     ServeRelease, Restart, durable
<1>7. ASSUME NEW c \in Commands, Execute(c) PROVE UNCHANGED <<revision, receipts, history>>
  BY <1>7 DEF Execute, durable
<1>8. ASSUME NEW s \in Readers, GetSnapshot(s) \/ Subscribe(s) \/ ReadStream(s) \/ Return(s)
      PROVE  UNCHANGED <<revision, receipts, history>>
  BY <1>8 DEF GetSnapshot, Subscribe, Request, ReadStream, Return, StreamStep, durable
<1>9. ASSUME NEW d \in Deletions,
             \/ PlanDeletion(d) \/ BeginDeletion(d) \/ Interrupt(d)
             \/ DisposeChats(d) \/ ReleaseDeleted(d)
      PROVE  UNCHANGED <<revision, receipts, history>>
  BY <1>9 DEF PlanDeletion, BeginDeletion, Interrupt, DisposeChats, ReleaseDeleted, durable
<1>10. CASE UNCHANGED vars
  BY <1>10 DEF vars, durable
<1> QED
  BY <1>2, <1>3, <1>4, <1>5, <1>6, <1>7, <1>8, <1>9, <1>10
  DEF Next, QueueStep, ExecuteStep, DeletionStep

\* A sequence after Append: the old elements stay, the new one comes last.
LEMMA Appended ==
  ASSUME NEW S, NEW h \in Seq(S), NEW x \in S
  PROVE  /\ Len(Append(h, x)) = Len(h) + 1
         /\ DOMAIN h = 1 .. Len(h) /\ Len(h) \in Nat
         /\ DOMAIN Append(h, x) = 1 .. Len(h) + 1
         /\ \A k \in DOMAIN h : Append(h, x)[k] = h[k]
         /\ Append(h, x)[Len(h) + 1] = x
<1>1. Len(h) \in Nat /\ DOMAIN h = 1 .. Len(h)
  BY LenProperties
<1>2. Append(h, x) \in Seq(S) /\ Len(Append(h, x)) = Len(h) + 1
  BY AppendProperties
<1>3. DOMAIN Append(h, x) = 1 .. Len(h) + 1
  BY <1>2, LenProperties
<1> QED
  BY <1>1, <1>2, <1>3, AppendProperties

\* Every step keeps CommittedOnce.
LEMMA OnceStep ==
  ASSUME TypeOK, CommittedOnce, [Next]_vars
  PROVE  CommittedOnce'
<1> USE DEF CommittedOnce
<1>1. CASE UNCHANGED <<revision, receipts, history>>
  BY <1>1
<1>2. ASSUME NEW c \in Commands, Commits(c)
      PROVE  CommittedOnce'
  <2>1. /\ Len(history') = revision + 1
        /\ DOMAIN history = 1 .. revision /\ revision \in Nat
        /\ DOMAIN history' = 1 .. revision + 1
        /\ \A k \in DOMAIN history : history'[k] = history[k]
        /\ history'[revision + 1] = c
    BY <1>2, Appended DEF Commits, TypeOK, StoreType
  <2>2. /\ receipts'[c] = revision + 1
        /\ \A b \in Commands : b # c => receipts'[b] = receipts[b]
        /\ \A b \in Commands : receipts[b] \in Nat
    BY <1>2 DEF Commits, TypeOK, StoreType
  <2>3. Len(history') = revision'
    BY <1>2, <2>1 DEF Commits
  <2>4. ASSUME NEW b \in Commands, receipts'[b] # 0
        PROVE  receipts'[b] \in DOMAIN history'
    BY <2>1, <2>2, <2>4
  <2>5. ASSUME NEW k \in DOMAIN history', NEW b \in Commands
        PROVE  history'[k] = b <=> receipts'[b] = k
    <3>1. CASE k = revision + 1
      <4>1. CASE b = c
        BY <2>1, <2>2, <3>1, <4>1
      <4>2. CASE b # c
        <5>1. receipts[b] # revision + 1
          BY <2>1, <2>2
        <5> QED
          BY <2>1, <2>2, <3>1, <4>2, <5>1
      <4> QED
        BY <4>1, <4>2
    <3>2. CASE k # revision + 1
      <4>1. k \in DOMAIN history /\ k # 0
        BY <2>1, <2>5, <3>2
      <4>2. history'[k] = b <=> receipts[b] = k
        BY <2>1, <4>1
      <4>3. receipts[c] = 0
        BY <1>2 DEF Commits
      <4>4. receipts'[b] = k <=> receipts[b] = k
        BY <2>2, <3>2, <4>1, <4>3
      <4> QED
        BY <4>2, <4>4
    <3> QED
      BY <3>1, <3>2
  <2> QED
    BY <2>3, <2>4, <2>5
<1>3. CASE CommitsForeign
  <2>1. /\ Len(history') = revision + 1
        /\ DOMAIN history = 1 .. revision /\ revision \in Nat
        /\ DOMAIN history' = 1 .. revision + 1
        /\ \A k \in DOMAIN history : history'[k] = history[k]
        /\ history'[revision + 1] = Foreign
    BY <1>3, Appended DEF CommitsForeign, TypeOK, StoreType
  <2>2. Len(history') = revision' /\ receipts' = receipts
    BY <1>3, <2>1 DEF CommitsForeign
  <2>3. \A b \in Commands : receipts[b] # 0 => receipts[b] \in DOMAIN history'
    BY <2>1
  <2>4. ASSUME NEW k \in DOMAIN history', NEW b \in Commands
        PROVE  history'[k] = b <=> receipts[b] = k
    <3>1. CASE k = revision + 1
      <4>1. history'[k] # b
        BY <2>1, <3>1, CommandAssumption
      <4>2. receipts[b] # k
        BY <2>1, <3>1 DEF TypeOK, StoreType
      <4> QED
        BY <4>1, <4>2
    <3>2. CASE k # revision + 1
      <4>1. k \in DOMAIN history
        BY <2>1, <2>4, <3>2
      <4> QED
        BY <2>1, <4>1
    <3> QED
      BY <3>1, <3>2
  <2> QED
    BY <2>2, <2>3, <2>4
<1> QED
  BY <1>1, <1>2, <1>3, HistoryStep

\* A command id owns at most one revision, whatever is repeated, fails unclear
\* or restarts: the receipt is written in the transaction of the commit and
\* read before a second one (getCommandResult, applyMutations).
THEOREM CommittedAtMostOnce == Spec => []CommittedOnce
<1>1. Init => CommittedOnce
  BY DEF Init, CommittedOnce
<1>2. TypeOK /\ CommittedOnce /\ [Next]_vars => CommittedOnce'
  BY OnceStep
<1> QED
  BY <1>1, <1>2, TypeCorrect, PTL DEF Spec

-----------------------------------------------------------------------------
(***************************************************************************)
(* Acknowledgements.  The strengthening: a command waiting to be accepted  *)
(* carries the revision of its own receipt.                                *)
(***************************************************************************)
AcceptOK ==
  run.at = "accept" =>
    run.result # 0 /\ By \in Commands /\ receipts[By] = run.result

\* A receipt, once written, never changes.
LEMMA ReceiptKept ==
  ASSUME TypeOK, [Next]_vars, NEW c \in Commands, receipts[c] # 0
  PROVE  receipts'[c] = receipts[c]
<1>1. ASSUME NEW b \in Commands, Commits(b) PROVE receipts'[c] = receipts[c]
  BY <1>1 DEF Commits, TypeOK, StoreType
<1> QED
  BY <1>1, HistoryStep DEF CommitsForeign

\* Every step keeps AcceptOK.
LEMMA AcceptStep ==
  ASSUME TypeOK, RunOK, AcceptOK, [Next]_vars
  PROVE  AcceptOK'
<1>0. queue \in Seq(Task) /\ IsRun(run)
  BY DEF TypeOK, CanvasType
<1>1. CASE ApplyMutations
  <2>1. UNCHANGED queue /\ By \in Commands
    BY <1>0, <1>1, HeadTask DEF ApplyMutations, At
  <2>2. By' = By
    BY <2>1 DEF By
  <2>3. CASE receipts[By] # 0 /\ Outcome("accept", receipts[By]) /\ UNCHANGED durable
    <3>1. run'.result = receipts[By]
      BY <1>0, <2>3 DEF Outcome, IsRun
    <3> QED
      BY <2>1, <2>2, <2>3, <3>1 DEF AcceptOK, durable
  <2>4. CASE WriteRows /\ Outcome("accept", revision + 1)
    <3>1. run'.result = revision + 1 /\ revision \in Nat
      BY <1>0, <2>4 DEF Outcome, IsRun, TypeOK, StoreType
    <3>2. receipts'[By] = revision + 1
      BY <2>1, <2>4 DEF WriteRows, TypeOK, StoreType
    <3> QED
      BY <2>1, <2>2, <3>1, <3>2 DEF AcceptOK
  <2>5. CASE Outcome("unclear", 0)
    <3>1. run'.at = "unclear"
      BY <1>0, <2>5 DEF Outcome, IsRun
    <3> QED
      BY <3>1 DEF AcceptOK
  <2> QED
    BY <1>1, <2>3, <2>4, <2>5 DEF ApplyMutations
<1>2. CASE run'.at # "accept"
  BY <1>2 DEF AcceptOK
<1>3. CASE UNCHANGED run /\ (UNCHANGED queue \/ \E kind, x : Enqueue(kind, x))
  <2>1. ASSUME run.at = "accept"
        PROVE  By' = By
    <3>1. queue # <<>>
      BY <2>1 DEF RunOK
    <3>2. Head(queue') = Head(queue)
      BY <1>0, <1>3, <3>1, HeadTailAppend DEF Enqueue
    <3> QED
      BY <3>2 DEF By
  <2>2. ASSUME run.at = "accept"
        PROVE  receipts'[By] = receipts[By]
    BY <2>2, ReceiptKept DEF AcceptOK
  <2> QED
    BY <1>3, <2>1, <2>2 DEF AcceptOK
<1>4. ASSUME NEW a, Reply(a) PROVE run'.at # "accept"
  BY <1>4 DEF Reply, Done, Idle
<1>5. CASE NextAttempt
  BY <1>0, <1>2, <1>5 DEF NextAttempt, IsRun
<1>6. ASSUME NEW step, Goto(step), step # "accept" PROVE run'.at # "accept"
  BY <1>0, <1>6 DEF Goto, IsRun
<1>7. CASE StartCommand \/ ReadRevision \/ LoadItems
  <2>1. CASE run' = [run EXCEPT !.at = "revision", !.attempt = 1]
    BY <1>0, <1>2, <2>1 DEF IsRun
  <2>2. CASE run' = [run EXCEPT !.at = "load", !.seen = revision]
    BY <1>0, <1>2, <2>2 DEF IsRun
  <2> QED
    BY <1>2, <1>4, <1>6, <1>7, <2>1, <2>2 DEF StartCommand, ReadRevision, LoadItems
<1>8. CASE CheckGuards
  <2>1. ASSUME NEW before, run' = [run EXCEPT !.at = "validate", !.original = before]
        PROVE  run'.at # "accept"
    BY <1>0, <2>1 DEF IsRun
  <2> QED
    BY <1>2, <1>4, <1>5, <1>8, <2>1 DEF CheckGuards
<1>9. CASE Validate \/ CheckRevision \/ RevisionConflict
  BY <1>2, <1>4, <1>5, <1>6, <1>9 DEF Validate, CheckRevision, RevisionConflict
<1>10. CASE AcceptResult \/ ResyncAfterFailure \/ ReadFails
  BY <1>2, <1>4, <1>10 DEF AcceptResult, ResyncAfterFailure, ReadFails
<1>11. CASE ServeSnapshot \/ ServeSubscribe \/ ServeBegin \/ ServeAbort \/ ServeRelease \/ Restart
  <2>1. run' = Idle
    BY <1>11 DEF ServeSnapshot, ServeSubscribe, Serve, Refuse, ServeBegin, ServeAbort,
       ServeRelease, Restart, Done
  <2> QED
    BY <1>2, <2>1 DEF Idle
<1>12. ASSUME NEW c \in Commands, Execute(c) PROVE AcceptOK'
  BY <1>3, <1>12 DEF Execute
<1>13. ASSUME NEW s \in Readers, GetSnapshot(s) \/ Subscribe(s) \/ ReadStream(s) \/ Return(s)
       PROVE  AcceptOK'
  BY <1>3, <1>13 DEF GetSnapshot, Subscribe, Request, ReadStream, Return, StreamStep
<1>14. ASSUME NEW d \in Deletions,
              PlanDeletion(d) \/ BeginDeletion(d) \/ DeletionStep(d) \/ Interrupt(d)
       PROVE  AcceptOK'
  BY <1>3, <1>14 DEF PlanDeletion, BeginDeletion, Interrupt, DeletionStep, DisposeChats,
     CommitDeletion, ReleaseDeleted, AbortDeletion
<1>15. CASE CommitElsewhere \/ UNCHANGED vars
  BY <1>3, <1>15 DEF CommitElsewhere, Elsewhere, vars
<1> QED
  BY <1>1, <1>7, <1>8, <1>9, <1>10, <1>11, <1>12, <1>13, <1>14, <1>15
  DEF Next, QueueStep, ExecuteStep

\* Every step keeps AcknowledgedIsCommitted.
LEMMA AcknowledgeStep ==
  ASSUME TypeOK, CommittedOnce, AcceptOK, AcknowledgedIsCommitted, [Next]_vars
  PROVE  AcknowledgedIsCommitted'
<1> DEFINE True(h, c, a) == a.status = "committed" =>
                              a.revision \in DOMAIN h /\ h[a.revision] = c
<1>1. ASSUME NEW c \in Commands, NEW a, True(history, c, a)
      PROVE  True(history', c, a)
  <2>1. ASSUME NEW x \in Commands \cup {Foreign}, history' = Append(history, x)
        PROVE  True(history', c, a)
    BY <1>1, <2>1, Appended DEF TypeOK, StoreType
  <2> QED
    BY <1>1, <2>1, HistoryStep DEF Commits, CommitsForeign
<1>2. ASSUME UNCHANGED answers
      PROVE  AcknowledgedIsCommitted'
  BY <1>1, <1>2 DEF AcknowledgedIsCommitted
<1>3. ASSUME NEW a, queue # <<>>, Head(queue).kind = "execute", Reply(a),
             True(history, By, a)
      PROVE  AcknowledgedIsCommitted'
  <2>1. By \in Commands
    BY <1>3, HeadTask DEF TypeOK, CanvasType
  <2>2. answers' = [answers EXCEPT ![By] = @ \cup {a}]
    BY <1>3 DEF Reply
  <2>3. ASSUME NEW c \in Commands, NEW b \in answers'[c]
        PROVE  True(history, c, b)
    BY <1>3, <2>1, <2>2, <2>3 DEF TypeOK, CallerType, AcknowledgedIsCommitted
  <2> QED
    BY <1>1, <2>3 DEF AcknowledgedIsCommitted
<1>4. /\ \A c : True(history, c, Retry) /\ True(history, c, Rejected)
      /\ \A r : Committed(r).status = "committed" /\ Committed(r).revision = r
  BY DEF Retry, Rejected, Committed
<1>5. ASSUME queue # <<>>, Head(queue).kind = "execute", Reply(Retry) \/ Reply(Rejected)
      PROVE  AcknowledgedIsCommitted'
  BY <1>3, <1>4, <1>5
<1>6. ASSUME NEW c \in Commands, receipts[c] # 0
      PROVE  True(history, c, Committed(receipts[c]))
  BY <1>4, <1>6 DEF CommittedOnce
<1>7. CASE StartCommand
  <2>1. By \in Commands /\ queue # <<>> /\ Head(queue).kind = "execute"
    BY <1>7, HeadTask DEF StartCommand, At, TypeOK, CanvasType
  <2>2. CASE receipts[By] # 0 /\ Reply(Committed(receipts[By]))
    BY <1>3, <1>6, <2>1, <2>2
  <2> QED
    BY <1>2, <1>5, <1>7, <2>1, <2>2 DEF StartCommand
<1>8. CASE AcceptResult
  <2>1. By \in Commands /\ queue # <<>> /\ Head(queue).kind = "execute"
    BY <1>8, HeadTask DEF AcceptResult, At, TypeOK, CanvasType
  <2>2. receipts[By] # 0 /\ receipts[By] = run.result
    BY <1>8 DEF AcceptResult, At, AcceptOK
  <2>3. CASE Reply(Committed(run.result))
    BY <1>3, <1>6, <2>1, <2>2, <2>3
  <2> QED
    BY <1>5, <1>8, <2>1, <2>3 DEF AcceptResult
<1>9. CASE ReadRevision \/ LoadItems \/ CheckGuards \/ Validate \/ CheckRevision
           \/ RevisionConflict \/ ResyncAfterFailure \/ ReadFails
  BY <1>2, <1>5, <1>9 DEF ReadRevision, LoadItems, CheckGuards, Validate, CheckRevision,
     RevisionConflict, ResyncAfterFailure, ReadFails, At
<1>10. CASE ServeRelease
  <2>1. ASSUME NEW c \in Commands, NEW b \in answers'[c]
        PROVE  b \in answers[c] \cup {Retry}
    BY <1>10, <2>1 DEF ServeRelease
  <2>2. ASSUME NEW c \in Commands, NEW b \in answers'[c]
        PROVE  True(history, c, b)
    BY <1>4, <2>1, <2>2 DEF AcknowledgedIsCommitted
  <2> QED
    BY <1>1, <2>2 DEF AcknowledgedIsCommitted
<1>11. CASE ApplyMutations \/ CommitElsewhere \/ Restart \/ ServeBegin \/ ServeAbort
            \/ ServeSnapshot \/ ServeSubscribe \/ UNCHANGED vars
  BY <1>2, <1>11 DEF ApplyMutations, CommitElsewhere, Elsewhere, Restart, ServeBegin,
     ServeAbort, ServeSnapshot, ServeSubscribe, Serve, Refuse, vars, callers
<1>12. ASSUME NEW c \in Commands, Execute(c) PROVE UNCHANGED answers
  BY <1>12 DEF Execute
<1>13. ASSUME NEW s \in Readers, GetSnapshot(s) \/ Subscribe(s) \/ ReadStream(s) \/ Return(s)
       PROVE  UNCHANGED answers
  BY <1>13 DEF GetSnapshot, Subscribe, Request, ReadStream, Return, StreamStep, callers
<1>14. ASSUME NEW d \in Deletions,
              PlanDeletion(d) \/ BeginDeletion(d) \/ DeletionStep(d) \/ Interrupt(d)
       PROVE  UNCHANGED answers
  BY <1>14 DEF PlanDeletion, BeginDeletion, Interrupt, DeletionStep, DisposeChats,
     CommitDeletion, ReleaseDeleted
<1> QED
  BY <1>2, <1>7, <1>8, <1>9, <1>10, <1>11, <1>12, <1>13, <1>14 DEF Next, QueueStep, ExecuteStep

\* What execute tells its caller is what the store keeps: an acknowledged
\* revision is the one at which this very command was committed.
THEOREM AcknowledgementsAreTrue == Spec => []AcknowledgedIsCommitted
<1>1. Init => AcceptOK /\ AcknowledgedIsCommitted
  BY DEF Init, AcceptOK, AcknowledgedIsCommitted, Idle
<1>2. TypeOK /\ RunOK /\ CommittedOnce /\ AcceptOK /\ AcknowledgedIsCommitted /\ [Next]_vars
        => (AcceptOK /\ AcknowledgedIsCommitted)'
  BY AcceptStep, AcknowledgeStep
<1> QED
  BY <1>1, <1>2, TypeInv, CommittedAtMostOnce, PTL DEF Spec

-----------------------------------------------------------------------------
(***************************************************************************)
(* The deletions of a canvas exclude one another and the commands of the   *)
(* authority.  The claim is a flag that is raised when a deletion is       *)
(* called and lowered when a task of the queue settles it; these theorems  *)
(* say that the flag stands for one deletion at any time, although callers *)
(* are interrupted between the two.                                        *)
(***************************************************************************)

(***************************************************************************)
(* The strengthening.  A deletion holds the canvas from its call until its *)
(* last task is over, interrupted or not.                                  *)
(***************************************************************************)
DeletionKinds == {"begin", "abort", "release"}
Queued(d) == \E k \in DOMAIN queue : queue[k].kind \in DeletionKinds /\ queue[k].by = d

Holding == {"beginning", "claimed", "disposed", "committed", "aborting", "releasing"}
Holds(d) == deletion[d] \in Holding \/ Queued(d)

\* Who holds the canvas holds it alone, and the flag is up.
HolderOK ==
  \A d \in Deletions : Holds(d) => releasing /\ \A e \in Deletions : Holds(e) => d = e

\* There is one task of a deletion in the queue, at most.
OneTask ==
  \A j, k \in DOMAIN queue :
    queue[j].kind \in DeletionKinds /\ queue[k].kind \in DeletionKinds => j = k

\* The caller of a queued task still waits for it, unless it was interrupted.
CallerWaits ==
  \A k \in DOMAIN queue :
    /\ queue[k].kind = "begin" => deletion[queue[k].by] \in {"beginning", "interrupted"}
    /\ queue[k].kind = "abort" => deletion[queue[k].by] = "aborting"
    /\ queue[k].kind = "release" => deletion[queue[k].by] = "releasing"

\* A settled claim finds no command running.
ClaimIsQuiet == Claimed => run.at = "start"

DeletionInv == HolderOK /\ OneTask /\ CallerWaits /\ ClaimIsQuiet

-----------------------------------------------------------------------------
(***************************************************************************)
(* The queue.                                                              *)
(***************************************************************************)
\* The tasks of a queue after a task joined it.
LEMMA TasksAfterAppend ==
  ASSUME queue \in Seq(Task), NEW t, queue' = Append(queue, t)
  PROVE  /\ DOMAIN queue = 1 .. Len(queue) /\ DOMAIN queue' = 1 .. Len(queue) + 1
         /\ Len(queue) \in Nat
         /\ \A k \in DOMAIN queue : queue'[k] = queue[k]
         /\ queue'[Len(queue) + 1] = t
<1>1. Len(queue) \in Nat /\ DOMAIN queue = 1 .. Len(queue)
  BY LenProperties
<1>2. queue \in Seq(Task \cup {t}) /\ t \in Task \cup {t}
  BY <1>1
<1> QED
  BY <1>1, <1>2, Appended

\* The tasks of a queue after its head is over.
LEMMA TasksAfterTail ==
  ASSUME queue \in Seq(Task), queue # <<>>, queue' = Tail(queue)
  PROVE  /\ DOMAIN queue = 1 .. Len(queue) /\ DOMAIN queue' = 1 .. Len(queue) - 1
         /\ Len(queue) \in Nat \ {0}
         /\ \A k \in DOMAIN queue' : k + 1 \in DOMAIN queue /\ queue'[k] = queue[k + 1]
         /\ queue[1] = Head(queue)
<1>1. /\ Len(queue) \in Nat \ {0} /\ DOMAIN queue = 1 .. Len(queue)
      /\ queue' \in Seq(Task) /\ Len(queue') = Len(queue) - 1
      /\ \A k \in 1 .. Len(queue) - 1 : queue'[k] = queue[k + 1]
      /\ queue[1] = Head(queue)
  BY HeadTailProperties, EmptySeq, LenProperties
<1>2. DOMAIN queue' = 1 .. Len(queue) - 1
  BY <1>1, LenProperties
<1> QED
  BY <1>1, <1>2

\* A task that joins the queue belongs to a deletion that is not in it yet.
LEMMA QueuedAfterAppend ==
  ASSUME queue \in Seq(Task), NEW t, queue' = Append(queue, t)
  PROVE  /\ \A d : Queued(d)' <=> Queued(d) \/ (t.kind \in DeletionKinds /\ t.by = d)
         /\ t.kind \notin DeletionKinds \/ (\A d : ~Queued(d)) => (OneTask => OneTask')
<1>1. /\ DOMAIN queue = 1 .. Len(queue) /\ DOMAIN queue' = 1 .. Len(queue) + 1
      /\ Len(queue) \in Nat
      /\ \A k \in DOMAIN queue : queue'[k] = queue[k]
      /\ queue'[Len(queue) + 1] = t
  BY TasksAfterAppend
<1>2. \A k : k \in DOMAIN queue' <=> k \in DOMAIN queue \/ k = Len(queue) + 1
  BY <1>1
<1>3. \A d : Queued(d)' <=> Queued(d) \/ (t.kind \in DeletionKinds /\ t.by = d)
  BY <1>1, <1>2 DEF Queued
<1>4. ASSUME t.kind \notin DeletionKinds \/ (\A d : ~Queued(d)), OneTask
      PROVE  OneTask'
  <2>1. t.kind \notin DeletionKinds \/ \A k \in DOMAIN queue : queue[k].kind \notin DeletionKinds
    BY <1>4 DEF Queued
  <2> SUFFICES ASSUME NEW j \in DOMAIN queue', NEW k \in DOMAIN queue',
                      queue'[j].kind \in DeletionKinds, queue'[k].kind \in DeletionKinds
               PROVE  j = k
    BY DEF OneTask
  <2>2. CASE j \in DOMAIN queue /\ k \in DOMAIN queue
    BY <1>1, <1>4, <2>2 DEF OneTask
  <2>3. CASE j = Len(queue) + 1 \/ k = Len(queue) + 1
    BY <1>1, <1>2, <2>1, <2>3
  <2> QED
    BY <1>2, <2>2, <2>3
<1> QED
  BY <1>3, <1>4

\* A task that is over leaves the others, and if it was a deletion's there is
\* none left.
LEMMA QueuedAfterTail ==
  ASSUME queue \in Seq(Task), queue # <<>>, queue' = Tail(queue), OneTask
  PROVE  /\ \A d : Queued(d)' => Queued(d)
         /\ OneTask'
         /\ Head(queue).kind \in DeletionKinds => Queued(By) /\ \A d : ~Queued(d)'
<1>1. /\ DOMAIN queue = 1 .. Len(queue) /\ DOMAIN queue' = 1 .. Len(queue) - 1
      /\ Len(queue) \in Nat \ {0}
      /\ \A k \in DOMAIN queue' : k + 1 \in DOMAIN queue /\ queue'[k] = queue[k + 1]
      /\ queue[1] = Head(queue)
  BY TasksAfterTail
<1>2. \A d : Queued(d)' => Queued(d)
  BY <1>1 DEF Queued
<1>3. OneTask'
  <2> SUFFICES ASSUME NEW j \in DOMAIN queue', NEW k \in DOMAIN queue',
                      queue'[j].kind \in DeletionKinds, queue'[k].kind \in DeletionKinds
               PROVE  j = k
    BY DEF OneTask
  <2>1. j + 1 = k + 1
    BY <1>1 DEF OneTask
  <2> QED
    BY <1>1, <2>1
<1>4. ASSUME Head(queue).kind \in DeletionKinds
      PROVE  Queued(By) /\ \A d : ~Queued(d)'
  <2>1. 1 \in DOMAIN queue
    BY <1>1
  <2>2. \A k \in DOMAIN queue' : k + 1 # 1 /\ queue'[k].kind \notin DeletionKinds
    BY <1>1, <1>4, <2>1 DEF OneTask
  <2> QED
    BY <1>1, <1>4, <2>1, <2>2 DEF Queued, By
<1> QED
  BY <1>2, <1>3, <1>4

\* The callers of the tasks that are left still wait.
LEMMA WaitsAfterTail ==
  ASSUME queue \in Seq(Task), queue # <<>>, queue' = Tail(queue), CallerWaits,
         \A d : Queued(d)' => deletion'[d] = deletion[d]
  PROVE  CallerWaits'
<1>1. \A k \in DOMAIN queue' : k + 1 \in DOMAIN queue /\ queue'[k] = queue[k + 1]
  BY TasksAfterTail
<1>2. \A k \in DOMAIN queue' :
        queue'[k].kind \in DeletionKinds => deletion'[queue'[k].by] = deletion[queue'[k].by]
  BY DEF Queued
<1> QED
  BY <1>1, <1>2 DEF CallerWaits, DeletionKinds

\* So do those that were there before a task joined.
LEMMA WaitsAfterAppend ==
  ASSUME queue \in Seq(Task), NEW t, queue' = Append(queue, t), CallerWaits,
         \A d : Queued(d) => deletion'[d] = deletion[d],
         /\ t.kind = "begin" => deletion'[t.by] = "beginning"
         /\ t.kind = "abort" => deletion'[t.by] = "aborting"
         /\ t.kind = "release" => deletion'[t.by] = "releasing"
  PROVE  CallerWaits'
<1>1. /\ \A k \in DOMAIN queue : queue'[k] = queue[k]
      /\ queue'[Len(queue) + 1] = t
      /\ DOMAIN queue = 1 .. Len(queue) /\ DOMAIN queue' = 1 .. Len(queue) + 1
      /\ Len(queue) \in Nat
  BY TasksAfterAppend
<1>2. \A k : k \in DOMAIN queue' <=> k \in DOMAIN queue \/ k = Len(queue) + 1
  BY <1>1
<1>3. \A k \in DOMAIN queue :
        queue[k].kind \in DeletionKinds => deletion'[queue[k].by] = deletion[queue[k].by]
  BY DEF Queued
<1> QED
  BY <1>1, <1>2, <1>3 DEF CallerWaits, DeletionKinds

\* A deletion in the phases between its tasks has none in the queue.
LEMMA NotQueued ==
  ASSUME CallerWaits, NEW d,
         deletion[d] \notin {"beginning", "interrupted", "aborting", "releasing"}
  PROVE  ~Queued(d)
  BY DEF CallerWaits, Queued, DeletionKinds

-----------------------------------------------------------------------------
(***************************************************************************)
(* The steps.                                                              *)
(***************************************************************************)
\* The parts of the invariant that the queue and the callers decide.
CallersOK == HolderOK /\ OneTask /\ CallerWaits

\* A step that leaves deletions and the flag alone, and adds no deletion's task,
\* keeps the holder.
LEMMA OthersStep ==
  ASSUME queue \in Seq(Task), CallersOK, UNCHANGED <<deletion, releasing>>,
         \/ UNCHANGED queue
         \/ \E t : queue' = Append(queue, t) /\ t.kind \notin DeletionKinds
         \/ queue # <<>> /\ queue' = Tail(queue)
  PROVE  CallersOK'
<1>1. ASSUME \A d : Queued(d)' => Queued(d)
      PROVE  HolderOK'
  <2>1. \A d : Holds(d)' => Holds(d)
    BY <1>1 DEF Holds
  <2> QED
    BY <2>1 DEF CallersOK, HolderOK
<1>2. CASE UNCHANGED queue
  BY <1>2 DEF CallersOK, HolderOK, Holds, Queued, OneTask, CallerWaits
<1>3. ASSUME NEW t, queue' = Append(queue, t), t.kind \notin DeletionKinds
      PROVE  CallersOK'
  <2>1. OneTask' /\ \A d : Queued(d)' => Queued(d)
    BY <1>3, QueuedAfterAppend DEF CallersOK
  <2>2. CallerWaits'
    BY <1>3, WaitsAfterAppend DEF CallersOK, DeletionKinds
  <2> QED
    BY <1>1, <2>1, <2>2 DEF CallersOK
<1>4. CASE queue # <<>> /\ queue' = Tail(queue)
  <2>1. OneTask' /\ \A d : Queued(d)' => Queued(d)
    BY <1>4, QueuedAfterTail DEF CallersOK
  <2>2. CallerWaits'
    BY <1>4, WaitsAfterTail DEF CallersOK
  <2> QED
    BY <1>1, <2>1, <2>2 DEF CallersOK
<1> QED
  BY <1>2, <1>3, <1>4

\* A caller that moves on without a task keeps or gives up what it holds.
LEMMA CallerStep ==
  ASSUME CallerType, CallersOK, UNCHANGED queue, NEW d \in Deletions, NEW from, NEW to,
         Becomes(d, from, to), ~Queued(d) \/ to = "interrupted",
         deletion[d] \notin {"aborting", "releasing"},
         to \in Holding => deletion[d] \in Holding, UNCHANGED releasing
  PROVE  CallersOK'
<1>1. deletion' = [deletion EXCEPT ![d] = to] /\ deletion \in [Deletions -> DeletionPhase]
  BY DEF Becomes, CallerType
<1>2. \A e : Queued(e)' <=> Queued(e)
  BY DEF Queued
<1>3. \A e \in Deletions : Holds(e)' => Holds(e)
  BY <1>1, <1>2 DEF Holds
<1>4. HolderOK'
  BY <1>3 DEF CallersOK, HolderOK
<1>5. OneTask'
  BY DEF CallersOK, OneTask
<1>6. CallerWaits'
  <2>1. ASSUME NEW k \in DOMAIN queue, queue[k].kind \in DeletionKinds, queue[k].by = d
        PROVE  to = "interrupted" /\ queue[k].kind = "begin"
    <3>1. Queued(d)
      BY <2>1 DEF Queued
    <3> QED
      BY <2>1, <3>1 DEF CallersOK, CallerWaits, DeletionKinds
  <2>2. ASSUME NEW k \in DOMAIN queue, queue[k].kind \in DeletionKinds, queue[k].by # d
        PROVE  deletion'[queue[k].by] = deletion[queue[k].by]
    BY <1>1, <2>2
  <2>3. ASSUME NEW k \in DOMAIN queue, queue[k].kind \in DeletionKinds, queue[k].by = d
        PROVE  deletion'[d] = "interrupted"
    BY <1>1, <2>1, <2>3
  <2> QED
    BY <2>1, <2>2, <2>3 DEF CallersOK, CallerWaits, DeletionKinds
<1> QED
  BY <1>4, <1>5, <1>6 DEF CallersOK

\* A caller that enqueues its next task already holds the canvas, or takes it
\* when nobody does.
LEMMA CallStep ==
  ASSUME queue \in Seq(Task), CallerType, CallersOK, NEW d \in Deletions, NEW from, NEW to, NEW kind,
         Becomes(d, from, to), Enqueue(kind, d),
         <<kind, to>> \in {<<"begin", "beginning">>, <<"abort", "aborting">>,
                           <<"release", "releasing">>},
         deletion[d] \notin {"beginning", "interrupted", "aborting", "releasing"},
         deletion[d] \in Holding \/ ~releasing, releasing' = TRUE
  PROVE  CallersOK'
<1> DEFINE t == [kind |-> kind, by |-> d]
<1>1. /\ queue' = Append(queue, t) /\ t.kind \in DeletionKinds /\ t.by = d
      /\ deletion' = [deletion EXCEPT ![d] = to] /\ deletion \in [Deletions -> DeletionPhase]
  BY DEF Enqueue, Becomes, CallerType, DeletionKinds
<1>2. \A e \in Deletions : Holds(e) => e = d
  BY DEF CallersOK, HolderOK, Holds
<1>3. \A e : ~Queued(e)
  <2>1. ~Queued(d)
    BY NotQueued DEF CallersOK
  <2>2. ASSUME NEW k \in DOMAIN queue, queue[k].kind \in DeletionKinds
        PROVE  queue[k].by \in Deletions
    BY <2>2, ElementOfSeq, LenProperties DEF Task, DeletionKinds
  <2>3. \A e : Queued(e) => e \in Deletions
    BY <2>2 DEF Queued
  <2> QED
    BY <1>2, <2>1, <2>3 DEF Holds
<1>4. OneTask' /\ \A e : Queued(e)' <=> e = d
  BY <1>1, <1>3, QueuedAfterAppend DEF CallersOK
<1>5. \A e \in Deletions : Holds(e)' => e = d
  BY <1>1, <1>2, <1>4 DEF Holds
<1>6. HolderOK'
  BY <1>5 DEF HolderOK
<1>7. deletion'[d] = to
  BY <1>1
<1>8. CallerWaits'
  BY <1>1, <1>3, <1>7, WaitsAfterAppend DEF CallersOK
<1> QED
  BY <1>4, <1>6, <1>8 DEF CallersOK

\* A task of a deletion that is over: nobody else holds the canvas.
LEMMA SettleStep ==
  ASSUME queue \in Seq(Task), CallerType, CallersOK, queue # <<>>, queue' = Tail(queue),
         Head(queue).kind \in DeletionKinds, NEW to,
         deletion' = [deletion EXCEPT ![By] = to],
         to \in Holding => UNCHANGED releasing
  PROVE  CallersOK'
<1>1. By \in Deletions /\ deletion \in [Deletions -> DeletionPhase]
  BY HeadTask DEF CallerType, DeletionKinds
<1>2. Queued(By) /\ OneTask' /\ \A d : ~Queued(d)'
  BY QueuedAfterTail DEF CallersOK
<1>3. Holds(By)
  BY <1>2 DEF Holds
<1>4. \A d \in Deletions : Holds(d) => d = By
  BY <1>1, <1>3 DEF CallersOK, HolderOK
<1>5. \A d \in Deletions : Holds(d)' => d = By /\ to \in Holding
  BY <1>1, <1>2, <1>4 DEF Holds
<1>6. HolderOK'
  BY <1>1, <1>3, <1>5 DEF CallersOK, HolderOK
<1>7. CallerWaits'
  BY <1>2 DEF CallerWaits, Queued, DeletionKinds
<1> QED
  BY <1>2, <1>6, <1>7 DEF CallersOK

\* When the queue and every claim are gone nobody holds the canvas.
LEMMA DropStep ==
  ASSUME queue' = <<>>, \A d \in Deletions : deletion'[d] \notin Holding
  PROVE  CallersOK'
<1>1. DOMAIN queue' = {}
  BY EmptySeq
<1> QED
  BY <1>1 DEF CallersOK, HolderOK, Holds, Queued, OneTask, CallerWaits

\* Every step keeps one holder at most.
LEMMA CallersStep ==
  ASSUME TypeOK, RunOK, CallersOK, [Next]_vars
  PROVE  CallersOK'
<1>0. queue \in Seq(Task) /\ CallerType
  BY DEF TypeOK, CanvasType
<1>1. CASE ExecuteStep
  <2>1. queue # <<>> /\ Head(queue).kind = "execute"
    BY <1>1, SMTT(30) DEF ExecuteStep, StartCommand, ReadRevision, LoadItems, CheckGuards,
       Validate, CheckRevision, ApplyMutations, RevisionConflict, AcceptResult,
       ResyncAfterFailure, ReadFails, At
  <2>2. UNCHANGED queue \/ queue' = Tail(queue)
    BY <1>1 DEF ExecuteStep, StartCommand, ReadRevision, LoadItems, CheckGuards,
       Validate, CheckRevision, ApplyMutations, RevisionConflict, AcceptResult,
       ResyncAfterFailure, ReadFails, Reply, Done, Goto, NextAttempt
  <2>3. UNCHANGED <<deletion, releasing>>
    BY <1>1 DEF ExecuteStep, StartCommand, ReadRevision, LoadItems, CheckGuards,
       Validate, CheckRevision, ApplyMutations, RevisionConflict, AcceptResult,
       ResyncAfterFailure, ReadFails, callers
  <2> QED
    BY <1>0, <2>1, <2>2, <2>3, OthersStep
<1>2. CASE ServeSnapshot \/ ServeSubscribe
  BY <1>0, <1>2, OthersStep
  DEF ServeSnapshot, ServeSubscribe, Serve, Refuse, Turn, Done, callers
<1>3. CASE ServeBegin
  <2>1. queue # <<>> /\ queue' = Tail(queue) /\ Head(queue).kind \in DeletionKinds
    BY <1>3 DEF ServeBegin, Turn, Done, DeletionKinds
  <2>2. deletion[By] \in {"beginning", "interrupted"}
    <3>1. 1 \in DOMAIN queue /\ queue[1] = Head(queue)
      BY <1>0, <2>1, TasksAfterTail
    <3> QED
      BY <1>3, <3>1 DEF CallersOK, CallerWaits, ServeBegin, Turn, By
  <2>3. CASE UNCHANGED releasing
    BY <1>0, <1>3, <2>1, <2>3, SettleStep DEF ServeBegin
  <2>4. CASE deletion' = [deletion EXCEPT ![By] = IF @ = "beginning" THEN "failed" ELSE @]
    <3>1. \/ deletion' = [deletion EXCEPT ![By] = "failed"]
          \/ deletion' = [deletion EXCEPT ![By] = "interrupted"]
      BY <2>2, <2>4
    <3>2. "failed" \notin Holding /\ "interrupted" \notin Holding
      BY DEF Holding
    <3>3. ASSUME NEW to, to \notin Holding, deletion' = [deletion EXCEPT ![By] = to]
          PROVE  CallersOK'
      BY <1>0, <2>1, <3>3, SettleStep
    <3> QED
      BY <3>1, <3>2, <3>3
  <2> QED
    BY <1>3, <2>3, <2>4 DEF ServeBegin
<1>4. CASE ServeAbort
  <2>1. queue # <<>> /\ queue' = Tail(queue) /\ Head(queue).kind \in DeletionKinds
    BY <1>4 DEF ServeAbort, Turn, Done, DeletionKinds
  <2>2. deletion[By] = "aborting"
    <3>1. 1 \in DOMAIN queue /\ queue[1] = Head(queue)
      BY <1>0, <2>1, TasksAfterTail
    <3> QED
      BY <1>4, <3>1 DEF CallersOK, CallerWaits, ServeAbort, Turn, By
  <2>3. deletion' = [deletion EXCEPT ![By] = "failed"]
    BY <1>4, <2>2 DEF ServeAbort
  <2> QED
    BY <1>0, <2>1, <2>3, SettleStep DEF Holding
<1>5. CASE ServeRelease
  <2>1. queue # <<>> /\ Head(queue).kind = "release" /\ By \in Deletions
    BY <1>0, <1>5, HeadTask DEF ServeRelease, Turn
  <2>2. 1 \in DOMAIN queue /\ queue[1] = Head(queue)
    BY <1>0, <2>1, HeadTailProperties, EmptySeq, LenProperties
  <2>3. deletion[By] = "releasing" /\ Holds(By)
    BY <2>1, <2>2 DEF CallersOK, CallerWaits, Holds, Holding, By
  <2>4. \A d \in Deletions : d # By => deletion[d] \notin Holding
    BY <2>1, <2>3 DEF CallersOK, HolderOK, Holds
  <2>5. deletion' = [deletion EXCEPT ![By] = "deleted"] /\ queue' = <<>>
    BY <1>5, <2>3 DEF ServeRelease
  <2>6. \A d \in Deletions : deletion'[d] \notin Holding
    BY <1>0, <2>1, <2>4, <2>5 DEF CallerType, Holding
  <2> QED
    BY <2>5, <2>6, DropStep
<1>6. CASE Restart
  <2>1. \A d \in Deletions : deletion'[d] \notin Holding
    BY <1>0, <1>6 DEF Restart, CallerType, Holding
  <2> QED
    BY <1>6, <2>1, DropStep DEF Restart
<1>7. ASSUME NEW c \in Commands, Execute(c) PROVE CallersOK'
  BY <1>0, <1>7, OthersStep DEF Execute, Enqueue, DeletionKinds
<1>8. ASSUME NEW s \in Readers, GetSnapshot(s) \/ Subscribe(s) \/ ReadStream(s) \/ Return(s)
      PROVE  CallersOK'
  BY <1>0, <1>8, OthersStep DEF GetSnapshot, Subscribe, Request, ReadStream, Return,
     StreamStep, Enqueue, DeletionKinds, callers
<1>9. CASE CommitElsewhere
  BY <1>0, <1>9, OthersStep DEF CommitElsewhere, Elsewhere, callers
<1>10. CASE UNCHANGED vars
  BY <1>0, <1>10, OthersStep DEF vars, callers
<1>11. ASSUME NEW d \in Deletions, PlanDeletion(d)
       PROVE  CallersOK'
  <2>1. ~Queued(d)
    BY <1>11, NotQueued DEF PlanDeletion, Becomes, CallersOK
  <2> QED
    BY <1>0, <1>11, <2>1, CallerStep DEF PlanDeletion, Becomes, Holding
<1>12. ASSUME NEW d \in Deletions, BeginDeletion(d)
       PROVE  CallersOK'
  <2>1. ~Queued(d) /\ deletion[d] = "planned"
    BY <1>12, NotQueued DEF BeginDeletion, Becomes, CallersOK
  <2>2. CASE releasing
    BY <1>0, <1>12, <2>1, <2>2, CallerStep DEF BeginDeletion, Becomes, Holding
  <2>3. CASE ~releasing
    BY <1>0, <1>12, <2>1, <2>3, CallStep DEF BeginDeletion, Becomes
  <2> QED
    BY <2>2, <2>3
<1>13. ASSUME NEW d \in Deletions, Interrupt(d)
       PROVE  CallersOK'
  BY <1>0, <1>13, CallerStep DEF Interrupt, Becomes, Holding
<1>14. ASSUME NEW d \in Deletions, deletion[d] \in Holding
       PROVE  releasing
  BY <1>14 DEF CallersOK, HolderOK, Holds
<1>15. releasing \in BOOLEAN
  BY DEF TypeOK, CanvasType
<1>16. ASSUME NEW d \in Deletions, NEW from \in {"claimed", "disposed"},
              AbortDeletion(d, {from}), UNCHANGED releasing
       PROVE  CallersOK'
  <2>1. deletion[d] = from /\ releasing' = TRUE
    BY <1>14, <1>15, <1>16 DEF AbortDeletion, Becomes, Holding
  <2> QED
    BY <1>0, <1>16, <2>1, CallStep DEF AbortDeletion, Holding
<1>17. ASSUME NEW d \in Deletions, NEW from \in {"claimed", "disposed"}, NEW to \in Holding,
              Becomes(d, {from}, to), UNCHANGED <<queue, releasing>>
       PROVE  CallersOK'
  <2>1. deletion[d] = from /\ ~Queued(d)
    BY <1>17, NotQueued DEF Becomes, CallersOK
  <2> QED
    BY <1>0, <1>17, <2>1, CallerStep DEF Holding
<1>18. ASSUME NEW d \in Deletions, DisposeChats(d) \/ CommitDeletion(d)
       PROVE  CallersOK'
  BY <1>16, <1>17, <1>18 DEF DisposeChats, CommitDeletion, Holding
<1>19. ASSUME NEW d \in Deletions, ReleaseDeleted(d)
       PROVE  CallersOK'
  <2>1. deletion[d] = "committed"
    BY <1>19 DEF ReleaseDeleted, Becomes
  <2> QED
    BY <1>0, <1>19, <2>1, CallStep DEF ReleaseDeleted, Holding
<1> QED
  BY <1>1, <1>2, <1>3, <1>4, <1>5, <1>6, <1>7, <1>8, <1>9, <1>10, <1>11, <1>12, <1>13, <1>18,
     <1>19 DEF Next, QueueStep, DeletionStep

\* A settled claim keeps commands from starting; none was running before it.
LEMMA QuietStep ==
  ASSUME TypeOK, RunOK, CallersOK, ClaimIsQuiet, [Next]_vars
  PROVE  ClaimIsQuiet'
<1>0. deletion \in [Deletions -> DeletionPhase]
  BY DEF TypeOK, CallerType
<1>1. Claimed => releasing
  BY DEF Claimed, CallersOK, HolderOK, Holds, Holding
<1>2. CASE run'.at = "start"
  BY <1>2 DEF ClaimIsQuiet
<1>3. ASSUME UNCHANGED run, Claimed' => Claimed
      PROVE  ClaimIsQuiet'
  BY <1>3 DEF ClaimIsQuiet
<1>4. ASSUME UNCHANGED deletion, ~Claimed
      PROVE  ClaimIsQuiet'
  BY <1>4 DEF ClaimIsQuiet, Claimed
<1>5. ASSUME NEW a, Reply(a) PROVE ClaimIsQuiet'
  BY <1>2, <1>5 DEF Reply, Done, Idle
<1>6. CASE StartCommand
  <2>1. CASE releasing
    BY <1>5, <1>6, <2>1 DEF StartCommand
  <2>2. CASE ~releasing
    BY <1>1, <1>4, <1>6, <2>2 DEF StartCommand
  <2> QED
    BY <2>1, <2>2
<1>7. CASE ReadRevision \/ LoadItems \/ CheckGuards \/ Validate \/ CheckRevision
           \/ ApplyMutations \/ RevisionConflict \/ AcceptResult \/ ResyncAfterFailure
  <2>1. ~Claimed /\ UNCHANGED deletion
    BY <1>7 DEF ReadRevision, LoadItems, CheckGuards, Validate, CheckRevision, ApplyMutations,
       RevisionConflict, AcceptResult, ResyncAfterFailure, At, ClaimIsQuiet, callers
  <2> QED
    BY <1>4, <2>1
<1>8. CASE ReadFails
  BY <1>5, <1>8 DEF ReadFails
<1>9. CASE ServeSnapshot \/ ServeSubscribe \/ ServeBegin \/ ServeAbort \/ ServeRelease \/ Restart
  BY <1>2, <1>9 DEF ServeSnapshot, ServeSubscribe, Serve, Refuse, ServeBegin, ServeAbort,
     ServeRelease, Restart, Done, Idle
<1>10. ASSUME NEW d \in Deletions,
              PlanDeletion(d) \/ BeginDeletion(d) \/ DeletionStep(d) \/ Interrupt(d)
       PROVE  ClaimIsQuiet'
  <2>1. ASSUME NEW from, NEW to, Becomes(d, from, to), from \subseteq {"claimed"} \/ to \notin {"claimed", "disposed"}
        PROVE  Claimed' => Claimed
    BY <1>0, <2>1 DEF Claimed, Becomes
  <2>2. Claimed' => Claimed
    BY <1>10, <2>1 DEF PlanDeletion, BeginDeletion, Interrupt, DeletionStep, DisposeChats,
       CommitDeletion, ReleaseDeleted, AbortDeletion
  <2>3. UNCHANGED run
    BY <1>10 DEF PlanDeletion, BeginDeletion, Interrupt, DeletionStep, DisposeChats,
       CommitDeletion, ReleaseDeleted
  <2> QED
    BY <1>3, <2>2, <2>3
<1>11. ASSUME NEW c \in Commands, Execute(c) PROVE ClaimIsQuiet'
  BY <1>3, <1>11 DEF Execute, Claimed
<1>12. ASSUME NEW s \in Readers, GetSnapshot(s) \/ Subscribe(s) \/ ReadStream(s) \/ Return(s)
       PROVE  ClaimIsQuiet'
  BY <1>3, <1>12 DEF GetSnapshot, Subscribe, Request, ReadStream, Return, StreamStep, callers,
     Claimed
<1>13. CASE CommitElsewhere \/ UNCHANGED vars
  BY <1>3, <1>13 DEF CommitElsewhere, Elsewhere, vars, callers, Claimed
<1> QED
  BY <1>6, <1>7, <1>8, <1>9, <1>10, <1>11, <1>12, <1>13 DEF Next, QueueStep, ExecuteStep

\* The strengthened invariant holds in every reachable state.
LEMMA DeletionInvariant == Spec => [](TypeOK /\ RunOK /\ DeletionInv)
<1>1. Init => DeletionInv
  <2> SUFFICES ASSUME Init PROVE DeletionInv
    OBVIOUS
  <2>1. DOMAIN queue = {} /\ \A d \in Deletions : deletion[d] = "idle"
    BY EmptySeq DEF Init
  <2> QED
    BY <2>1 DEF DeletionInv, HolderOK, Holds, Holding, Queued, OneTask, CallerWaits,
                ClaimIsQuiet, Claimed
<1>2. TypeOK /\ RunOK /\ DeletionInv /\ [Next]_vars => DeletionInv'
  BY CallersStep, QuietStep DEF DeletionInv, CallersOK
<1> QED
  BY <1>1, <1>2, TypeInv, PTL DEF Spec

\* While a claim is settled nothing of this authority commits, and no reader
\* gets a stream.
LEMMA ClaimedStep ==
  ASSUME TypeOK, RunOK, DeletionInv, [Next]_vars, Claimed
  PROVE  /\ receipts' = receipts \/ spent'.foreign > spent.foreign
         /\ \A s \in Readers : reader[s].phase = "opening" => reader'[s].phase # "open"
<1>0. /\ run.at = "start" /\ releasing
      /\ reader \in [Readers -> Reader] /\ queue \in Seq(Task)
  BY DEF DeletionInv, ClaimIsQuiet, Claimed, HolderOK, Holds, Holding, TypeOK, CanvasType
<1>1. UNCHANGED receipts \/ CommitElsewhere
  <2>1. ~ApplyMutations
    BY <1>0 DEF ApplyMutations, At
  <2>2. CASE ExecuteStep
    BY <2>1, <2>2 DEF ExecuteStep, StartCommand, ReadRevision, LoadItems, CheckGuards, Validate,
       CheckRevision, RevisionConflict, AcceptResult, ResyncAfterFailure, ReadFails, durable
  <2>3. CASE ServeSnapshot \/ ServeSubscribe \/ ServeBegin \/ ServeAbort \/ ServeRelease
             \/ Restart
    BY <2>3 DEF ServeSnapshot, ServeSubscribe, Serve, Refuse, ServeBegin, ServeAbort,
       ServeRelease, Restart, durable
  <2>4. ASSUME NEW c \in Commands, Execute(c) PROVE UNCHANGED receipts
    BY <2>4 DEF Execute, durable
  <2>5. ASSUME NEW s \in Readers, GetSnapshot(s) \/ Subscribe(s) \/ ReadStream(s) \/ Return(s)
        PROVE  UNCHANGED receipts
    BY <2>5 DEF GetSnapshot, Subscribe, Request, ReadStream, Return, StreamStep, durable
  <2>6. ASSUME NEW d \in Deletions,
               PlanDeletion(d) \/ BeginDeletion(d) \/ DeletionStep(d) \/ Interrupt(d)
        PROVE  UNCHANGED receipts
    BY <2>6 DEF PlanDeletion, BeginDeletion, Interrupt, DeletionStep, DisposeChats,
       CommitDeletion, DeleteRows, ReleaseDeleted, durable
  <2>7. CASE UNCHANGED vars
    BY <2>7 DEF vars, durable
  <2> QED
    BY <2>2, <2>3, <2>4, <2>5, <2>6, <2>7 DEF Next, QueueStep
<1>2. CommitElsewhere => spent'.foreign > spent.foreign
  BY DEF CommitElsewhere, Elsewhere, Spend, TypeOK, CallerType
<1>3. ASSUME NEW s \in Readers, reader[s].phase = "opening"
      PROVE  reader'[s].phase # "open"
  <2>1. CASE UNCHANGED reader
    BY <1>3, <2>1
  <2>2. ASSUME NEW e, reader' = Pushed(e)
        PROVE  reader'[s].phase # "open"
    BY <1>3, <2>2 DEF Pushed
  <2>3. CASE reader' = Closed
    BY <1>3, <2>3 DEF Closed
  <2>4. ASSUME NEW t \in Readers, reader' = [reader EXCEPT ![t] = Detached(reader[t])]
        PROVE  reader'[s].phase # "open"
    BY <1>0, <1>3, <2>4 DEF Detached, Reader
  <2>5. CASE ExecuteStep
    <3>1. CASE StartCommand
      BY <2>1, <3>1 DEF StartCommand
    <3>2. CASE ReadFails
      BY <2>1, <3>2 DEF ReadFails
    <3> QED
      BY <1>0, <2>5, <3>1, <3>2 DEF ExecuteStep, ReadRevision, LoadItems, CheckGuards, Validate,
         CheckRevision, ApplyMutations, RevisionConflict, AcceptResult, ResyncAfterFailure, At
  <2>6. CASE ServeSnapshot \/ ServeSubscribe
    <3>1. Refuse("snapshot") \/ Refuse("subscribe")
      BY <1>0, <2>6 DEF ServeSnapshot, ServeSubscribe, Serve
    <3>2. By \in Readers
      BY <1>0, <3>1, HeadTask DEF Refuse, Turn
    <3> QED
      BY <2>4, <3>1, <3>2 DEF Refuse
  <2>7. CASE ServeBegin \/ ServeAbort
    BY <2>1, <2>7 DEF ServeBegin, ServeAbort
  <2>8. CASE ServeRelease \/ Restart
    <3>1. reader' = [t \in Readers |-> Detached(reader[t])]
      BY <2>8 DEF ServeRelease, Restart
    <3> QED
      BY <1>0, <1>3, <3>1 DEF Detached, Reader
  <2>9. ASSUME NEW c \in Commands, Execute(c) PROVE UNCHANGED reader
    BY <2>9 DEF Execute
  <2>10. ASSUME NEW t \in Readers, GetSnapshot(t) \/ Subscribe(t)
         PROVE  reader'[s].phase # "open"
    BY <1>0, <1>3, <2>10 DEF GetSnapshot, Subscribe, Request, Reader
  <2>11. ASSUME NEW t \in Readers, ReadStream(t) \/ Return(t)
         PROVE  reader'[s].phase # "open"
    <3>1. reader[t].phase = "open" /\ \E r : reader' = [reader EXCEPT ![t] = r]
      BY <2>11 DEF ReadStream, Return, StreamStep
    <3>2. s # t
      BY <1>3, <3>1
    <3> QED
      BY <1>0, <1>3, <3>1, <3>2
  <2>12. ASSUME NEW d \in Deletions,
                PlanDeletion(d) \/ BeginDeletion(d) \/ DeletionStep(d) \/ Interrupt(d)
         PROVE  UNCHANGED reader
    BY <2>12 DEF PlanDeletion, BeginDeletion, Interrupt, DeletionStep, DisposeChats,
       CommitDeletion, ReleaseDeleted
  <2>13. CASE CommitElsewhere \/ UNCHANGED vars
    BY <2>1, <2>13 DEF CommitElsewhere, Elsewhere, vars
  <2> QED
    BY <2>1, <2>5, <2>6, <2>7, <2>8, <2>9, <2>10, <2>11, <2>12, <2>13 DEF Next, QueueStep
<1> QED
  BY <1>1, <1>2, <1>3

\* The canvas is owned by one deletion at most, however many are called,
\* interrupted, aborted or lost, and between the claim of a deletion and its
\* outcome no command of this authority commits and no stream is opened.
THEOREM DeletionsStayExclusive == Spec => DeletionsExclude
<1>1. DeletionInv => OneOwner
  BY DEF DeletionInv, HolderOK, Holds, Holding, OneOwner, Owning
<1>2. TypeOK /\ RunOK /\ DeletionInv /\ [Next]_vars
        => [Claimed => /\ receipts' = receipts \/ spent'.foreign > spent.foreign
                       /\ \A s \in Readers : reader[s].phase = "opening" =>
                                               reader'[s].phase # "open"]_vars
  BY ClaimedStep
<1> QED
  BY <1>1, <1>2, DeletionInvariant, PTL DEF Spec, DeletionsExclude, ClaimIsExclusive

-----------------------------------------------------------------------------
(***************************************************************************)
(* What a command of CanvasAuthority reads stays true until it is used.    *)
(* The guards, the validation and the rows of a commit come from a cache   *)
(* that other authorities make stale and that is pruned meanwhile; these   *)
(* theorems say that the compare-and-swap of the revision is enough: the   *)
(* cached state is the one of the revision it claims, the document stays a *)
(* tree, and both verdicts on a command are decided by the store.          *)
(***************************************************************************)

(***************************************************************************)
(* The strengthening: what holds of the locals of the running command and  *)
(* of the cache at each of its steps.                                      *)
(***************************************************************************)
\* The authority is never ahead of the store.
KnownOK == known <= revision

\* From the read of the revision to the acceptance the cached revision is the
\* one the command saw: nothing else of the queue runs in between.
Reading == {"load", "recheck", "validate", "revalidate", "apply", "accept"}
SeenOK == run.at \in Reading => known = run.seen

\* The items of the command survive the pruning that follows their load.
LoadedOK == run.at = "recheck" => DOMAIN Ops(By) \subseteq DOMAIN cache

\* As long as the revision has not moved, the command was reduced over the rows
\* the store holds.
Reduced == {"validate", "revalidate", "apply"}
OriginalOK ==
  run.at \in Reduced /\ exists /\ revision = run.seen
    => \A i \in DOMAIN Ops(By) : run.original[i] = items[i]

\* If the next revision is a commit of this very command, here or by another
\* authority, the rows are those that the command wrote over the cached ones.
Overwritten ==
  /\ \A i \in Targets : items[i] = Written(i)
  /\ \A i \in DOMAIN cache \ Targets : cache[i] = items[i]
TwinOK ==
  run.at \in Reduced \cup {"accept"} /\ exists /\ revision = run.seen + 1
    => (receipts[By] = revision => Overwritten)

\* What was admitted: the base revision, and the guards on the reduced rows.
AdmittedOK ==
  /\ run.at \in {"load", "recheck"} \cup Reduced => Catalogue[By].base <= run.seen
  /\ run.at \in Reduced => GuardsHold(Ops(By), run.original) /\ Targets # {}

\* What was validated: the document that the commit will leave.
Rewritten == [i \in Items |-> IF i \in Targets THEN Written(i) ELSE items[i]]
ValidOK ==
  run.at \in {"revalidate", "apply"} /\ exists /\ revision = run.seen
    => WellFormed(Rewritten)

\* A command past the lookup of its receipt has none, unless another authority
\* committed it meanwhile.
UncommittedOK ==
  run.at \in {"revision", "load", "recheck", "validate", "revalidate", "apply"}
    => receipts[By] = 0 \/ spent.foreign > 0

CachedOK == KnownOK /\ CacheIsCurrent /\ ReplayLogIsContiguous
LocalsOK == /\ SeenOK /\ LoadedOK /\ OriginalOK /\ TwinOK
            /\ AdmittedOK /\ ValidOK /\ UncommittedOK
SafeInv == CachedOK /\ LocalsOK /\ DocumentWellFormed

-----------------------------------------------------------------------------
(***************************************************************************)
(* Documents.                                                              *)
(***************************************************************************)
\* A set and what it reaches by parents and references: the closure contains
\* the set, and every parent of a member (#validationRequirements).
LEMMA ClosureProperties ==
  ASSUME NEW doc, NEW S \in SUBSET Items,
         \A i \in Items : doc[i].parent \in Parents
  PROVE  /\ S \subseteq Closure(doc, S) /\ Closure(doc, S) \subseteq Items
         /\ \A i \in Closure(doc, S) : doc[i].parent \in Closure(doc, S) \cup {Root}
<1>1. ASSUME NEW i \in Closure(doc, S), doc[i].parent # Root
      PROVE  doc[i].parent \in Closure(doc, S)
  <2>1. i \in Items /\ doc[i].parent \in Items
    BY <1>1 DEF Closure, Parents
  <2>2. ASSUME NEW C \in SUBSET Items, S \subseteq C,
               \A x \in C : {doc[x].parent, doc[x].ref} \subseteq C \cup {Root}
        PROVE  doc[i].parent \in C
    <3>1. i \in C
      BY <1>1, <2>2 DEF Closure
    <3> QED
      BY <1>1, <2>2, <3>1
  <2> QED
    BY <2>1, <2>2 DEF Closure
<1> QED
  BY <1>1 DEF Closure

\* Validation of a changed document reads only what changed, what that reaches
\* and the children of what is gone; over a well-formed document that is
\* enough for the whole to be well formed (#validateCommand).
LEMMA ValidationSuffices ==
  ASSUME NEW doc \in Document, NEW final \in Document, NEW altered \in SUBSET Items,
         WellFormed(doc),
         \A i \in Items \ altered : final[i] = doc[i],
         LocallyValid(final, altered, Children(doc, altered \ Present(final)))
  PROVE  WellFormed(final)
<1> DEFINE kept == altered \cap Present(final)
           gone == altered \ Present(final)
           seen == Closure(final, kept)
<1>1. /\ Children(doc, gone) \cap Children(final, gone) = {}
      /\ seen \subseteq Present(final) /\ NoCycleAmong(final, seen)
  BY DEF LocallyValid
<1>2. \A i \in Items : final[i].parent \in Parents /\ doc[i].parent \in Parents
  BY DEF Document, Item
<1>3. /\ kept \subseteq seen /\ seen \subseteq Items
      /\ \A i \in seen : final[i].parent \in seen \cup {Root}
  BY <1>2, ClosureProperties
<1>4. Present(final) \subseteq Items /\ Present(doc) \subseteq Items
  BY DEF Present
<1>5. ASSUME NEW i \in Present(final), i \notin kept
      PROVE  i \in Present(doc) /\ final[i] = doc[i]
  BY <1>4, <1>5 DEF Present
<1>6. ASSUME NEW i \in Present(final)
      PROVE  final[i].parent \in Present(final) \cup {Root}
  <2>1. CASE i \in kept
    BY <1>1, <1>3, <2>1
  <2>2. CASE i \notin kept
    <3>1. i \in Present(doc) /\ final[i] = doc[i]
      BY <1>5, <2>2
    <3>2. final[i].parent \in Present(doc) \cup {Root}
      BY <3>1 DEF WellFormed
    <3>3. ASSUME final[i].parent \in gone
          PROVE  FALSE
      <4>1. i \in Children(doc, gone) /\ i \in Children(final, gone)
        BY <3>1, <3>3 DEF Children
      <4> QED
        BY <1>1, <4>1
    <3>4. ASSUME final[i].parent \in Present(doc), final[i].parent \notin altered
          PROVE  final[i].parent \in Present(final)
      BY <1>4, <3>4 DEF Present
    <3> QED
      BY <3>2, <3>3, <3>4
  <2> QED
    BY <2>1, <2>2
<1>7. ASSUME NEW C \in SUBSET Present(final), C # {},
             \A i \in C : final[i].parent \in C
      PROVE  FALSE
  <2>1. CASE C \cap kept = {}
    <3>1. \A i \in C : i \in Present(doc) /\ doc[i].parent \in C
      BY <1>5, <1>7, <2>1
    <3> QED
      BY <1>7, <3>1 DEF WellFormed, NoCycleAmong
  <2>2. CASE C \cap kept # {}
    <3> DEFINE D == C \cap seen
    <3>1. D # {} /\ D \in SUBSET seen
      BY <1>3, <2>2
    <3>2. \A i \in D : final[i].parent \in D
      BY <1>3, <1>4, <1>7, RootAssumption
    <3> QED
      BY <1>1, <3>1, <3>2 DEF NoCycleAmong
  <2> QED
    BY <2>1, <2>2
<1> QED
  BY <1>6, <1>7 DEF WellFormed, NoCycleAmong

\* The empty document is well formed.
LEMMA EmptyWellFormed == WellFormed(EmptyDocument)
  BY DEF WellFormed, NoCycleAmong, EmptyDocument, Present, Absent

\* What an operation writes is present, unless it deletes.
LEMMA ApplyPresent ==
  ASSUME NEW o \in Operation, NEW x \in Item
  PROVE  Apply(o, x).rev > 0 <=> o.kind # "delete"
  BY DEF Apply, Operation, Item, Absent

\* Rows rewritten from what was reduced are the result of the operations, when
\* the rows that were reduced are the ones in the document.
LEMMA RewrittenIsResult ==
  ASSUME NEW ops, DOMAIN ops \subseteq Items, NEW doc, NEW original,
         \A i \in DOMAIN ops : original[i] = doc[i]
  PROVE  /\ Altered(ops, original) = Altered(ops, doc)
         /\ Result(ops, doc) = [i \in Items |-> IF i \in Altered(ops, original)
                                                THEN Apply(ops[i], original[i]) ELSE doc[i]]
         /\ GuardsHold(ops, original) <=> GuardsHold(ops, doc)
  BY DEF Altered, Result, GuardsHold

-----------------------------------------------------------------------------
(***************************************************************************)
(* The cached state: revision, items and replay log.                       *)
(***************************************************************************)
\* Pruning only drops entries, and none of the protected ones (#pruneCache).
LEMMA PrunedKeeps ==
  ASSUME NEW m, NEW protected, NEW x \in Pruned(m, protected)
  PROVE  /\ DOMAIN x \subseteq DOMAIN m
         /\ \A i \in DOMAIN x : x[i] = m[i]
         /\ DOMAIN m \cap protected \subseteq DOMAIN x
  BY DEF Pruned

\* A replay log that ends at revision n still ends there when its oldest
\* entries are dropped, and respects the limit.
LEMMA TrimmedEnds ==
  ASSUME NEW log \in Seq(Nat), NEW n \in Int,
         \A k \in DOMAIN log : log[k] = n - Len(log) + k
  PROVE  /\ \A k \in DOMAIN Trimmed(log) : Trimmed(log)[k] = n - Len(Trimmed(log)) + k
         /\ Len(Trimmed(log)) <= MaxReplay
<1>1. Len(log) \in Nat /\ MaxReplay \in Nat /\ MaxReplay # 0 /\ DOMAIN log = 1 .. Len(log)
  BY LimitAssumption, LenProperties
<1>2. CASE Len(log) > MaxReplay
  <2> DEFINE from == Len(log) - MaxReplay + 1
             rest == SubSeq(log, from, Len(log))
  <2>1. Trimmed(log) = rest
    BY <1>2 DEF Trimmed
  <2>2. \A i \in from .. Len(log) : log[i] \in Nat
    BY <1>1, <1>2, ElementOfSeq
  <2>3. /\ rest \in Seq(Nat) /\ Len(rest) = MaxReplay
        /\ \A k \in 1 .. Len(rest) : rest[k] = log[from + k - 1]
    BY <1>1, <1>2, <2>2, SubSeqProperties
  <2>4. DOMAIN rest = 1 .. MaxReplay
    BY <2>3, LenProperties
  <2>5. ASSUME NEW k \in 1 .. MaxReplay
        PROVE  rest[k] = n - MaxReplay + k
    <3>1. from + k - 1 \in 1 .. Len(log) /\ from + k - 1 = Len(log) - MaxReplay + k
      BY <1>1, <1>2, <2>5
    <3>2. log[from + k - 1] = n - Len(log) + (from + k - 1)
      BY <1>1, <3>1
    <3>3. rest[k] = log[from + k - 1]
      BY <1>1, <2>3, <2>5
    <3> QED
      BY <1>1, <2>5, <3>1, <3>2, <3>3
  <2> HIDE DEF rest
  <2> QED
    BY <1>1, <2>1, <2>3, <2>4, <2>5
<1>3. CASE ~(Len(log) > MaxReplay)
  BY <1>1, <1>3 DEF Trimmed
<1> QED
  BY <1>2, <1>3

\* A cached state that was dropped claims nothing (#invalidateState).
LEMMA ForgetKeeps ==
  ASSUME revision' \in Nat, Forget
  PROVE  CachedOK'
<1>1. MaxReplay \in Nat
  BY LimitAssumption
<1> QED
  BY <1>1 DEF Forget, CachedOK, KnownOK, CacheIsCurrent, ReplayLogIsContiguous, NoItems, Unknown

\* Neither does one that was resynchronized (#forceResync).
LEMMA ForceResyncKeeps ==
  ASSUME revision' \in Nat, NEW r \in Nat \cup {Unknown}, r <= revision', ForceResync(r)
  PROVE  CachedOK'
<1>1. MaxReplay \in Nat
  BY LimitAssumption
<1> QED
  BY <1>1 DEF ForceResync, CachedOK, KnownOK, CacheIsCurrent, ReplayLogIsContiguous, NoItems,
              Unknown

\* Taking over the stored revision keeps the cached state current
\* (#synchronizeRevision).
LEMMA SynchronizeKeeps ==
  ASSUME TypeOK, CachedOK, Synchronize(revision), UNCHANGED <<exists, revision, items>>
  PROVE  CachedOK'
<1>1. revision \in Nat /\ MaxReplay \in Nat
  BY LimitAssumption DEF TypeOK, StoreType
<1>2. CASE known = revision
  BY <1>1, <1>2 DEF Synchronize, CachedOK, KnownOK, CacheIsCurrent, ReplayLogIsContiguous, Unknown
<1>3. CASE known # revision
  BY <1>1, <1>3 DEF Synchronize, CachedOK, KnownOK, CacheIsCurrent, ReplayLogIsContiguous,
                    NoItems, Unknown
<1> QED
  BY <1>2, <1>3

\* A commit or a deletion that passes the cached state by leaves it behind.
LEMMA CachedKept ==
  ASSUME TypeOK, CachedOK, UNCHANGED <<known, cache, events>>,
         \/ UNCHANGED <<exists, revision, items>>
         \/ revision' = revision + 1
         \/ ~exists' /\ UNCHANGED revision
  PROVE  CachedOK'
<1>1. revision \in Nat /\ known \in Nat \cup {-1}
  BY DEF TypeOK, StoreType, CanvasType, Unknown
<1>2. KnownOK' /\ CacheIsCurrent'
  BY <1>1 DEF CachedOK, KnownOK, CacheIsCurrent
<1> QED
  BY <1>2 DEF CachedOK, ReplayLogIsContiguous

\* Rows that are read from the store join the cache at the cached revision.
LEMMA CachedRead ==
  ASSUME TypeOK, CachedOK, UNCHANGED <<exists, revision, items, known, events>>,
         \A i \in DOMAIN cache' : \/ i \in DOMAIN cache /\ cache'[i] = cache[i]
                                  \/ cache'[i] = items[i]
  PROVE  CachedOK'
  BY DEF CachedOK, KnownOK, CacheIsCurrent, ReplayLogIsContiguous

\* What LoadItems and Validate put into the cache are rows of the store.
LEMMA LoadItemsReads ==
  ASSUME LoadItems
  PROVE  /\ \A i \in DOMAIN cache' : \/ i \in DOMAIN cache /\ cache'[i] = cache[i]
                                     \/ cache'[i] = items[i]
         /\ run'.at = "recheck" => DOMAIN Ops(By) \subseteq DOMAIN cache'
<1> DEFINE ids == DOMAIN Ops(By)
<1>1. CASE UNCHANGED cache /\ Reply(Rejected)
  BY <1>1 DEF Reply, Done, Idle
<1>2. CASE cache' \in Pruned(Overlay(cache, items, ids \ DOMAIN cache), ids)
  <2> DEFINE m == Overlay(cache, items, ids \ DOMAIN cache)
  <2>1. /\ DOMAIN m = DOMAIN cache \cup ids
        /\ \A i \in DOMAIN m : \/ i \in DOMAIN cache /\ m[i] = cache[i]
                               \/ m[i] = items[i]
    BY DEF Overlay
  <2>2. /\ DOMAIN cache' \subseteq DOMAIN m
        /\ \A i \in DOMAIN cache' : cache'[i] = m[i]
        /\ DOMAIN m \cap ids \subseteq DOMAIN cache'
    BY <1>2, PrunedKeeps, ZenonT(40)
  <2> QED
    BY <2>1, <2>2
<1> QED
  BY <1>1, <1>2 DEF LoadItems

\* The same for the rows that validation reads.
LEMMA ValidateReads ==
  ASSUME Validate
  PROVE  \A i \in DOMAIN cache' : \/ i \in DOMAIN cache /\ cache'[i] = cache[i]
                                  \/ cache'[i] = items[i]
<1> DEFINE ops == Ops(By)
           altered == Altered(ops, run.original)
           gone == {i \in altered : ops[i].kind = "delete"}
           fresh == Children(items, gone)
           view == [i \in Items |->
                      IF i \in fresh \/ i \notin DOMAIN cache THEN items[i] ELSE cache[i]]
           final == [i \in Items |->
                      IF i \in altered THEN Apply(ops[i], run.original[i]) ELSE view[i]]
           required == Closure(final, altered \ gone) \ altered
           authority == DOMAIN ops \cup fresh \cup required
           m == Overlay(cache, view, fresh \cup required)
<1>1. \A i \in DOMAIN m : \/ i \in DOMAIN cache /\ m[i] = cache[i]
                          \/ m[i] = items[i]
  <2>1. fresh \cup required \subseteq Items
    BY DEF Children, Present, Closure
  <2>2. \A i \in fresh \cup required : \/ i \in DOMAIN cache /\ view[i] = cache[i]
                                       \/ view[i] = items[i]
    BY <2>1
  <2> HIDE DEF fresh, required, view
  <2> QED
    BY <2>2 DEF Overlay
<1>2. cache' \in Pruned(m, IF required = {} THEN authority ELSE required)
  BY DEF Validate
<1> HIDE DEF m
<1>3. /\ DOMAIN cache' \subseteq DOMAIN m
      /\ \A i \in DOMAIN cache' : cache'[i] = m[i]
  BY <1>2, PrunedKeeps
<1> QED
  BY <1>1, <1>3

\* A command that is accepted takes over its own commit: what it wrote is what
\* the rows of that revision are (#acceptCommittedResult).
LEMMA AcceptKeeps ==
  ASSUME TypeOK, RunOK, AcceptOK, CommittedOnce, CachedOK, SeenOK, TwinOK, AcceptResult
  PROVE  CachedOK'
<1>1. run.at = "accept" /\ By \in Commands /\ UNCHANGED <<exists, revision, items>>
  BY DEF AcceptResult, At, AcceptOK, durable
<1>2. /\ revision \in Nat /\ run.result \in 1 .. revision /\ receipts[By] = run.result
      /\ run.seen \in Nat /\ known = run.seen
  <2>1. run.result \in DOMAIN history /\ receipts[By] = run.result
    BY <1>1 DEF AcceptOK, CommittedOnce
  <2>2. history \in Seq(Commands \cup {Foreign}) /\ Len(history) = revision
    BY DEF TypeOK, StoreType, CommittedOnce
  <2>3. DOMAIN history = 1 .. revision
    BY <2>2, LenProperties
  <2> QED
    BY <1>1, <2>1, <2>3 DEF TypeOK, StoreType, CanvasType, IsRun, SeenOK, Reading
<1>3. CASE run.result = run.seen + 1
  <2> DEFINE m == [i \in DOMAIN cache \cup Targets |->
                     IF i \in Targets THEN Written(i) ELSE cache[i]]
             log == Append(events, run.result)
  <2>1. /\ known' = run.result /\ cache' \in Pruned(m, Targets)
        /\ events' = Trimmed(log)
    BY <1>3 DEF AcceptResult
  <2>2. KnownOK'
    BY <1>1, <1>2, <2>1 DEF KnownOK
  <2>3. CacheIsCurrent'
    <3>1. SUFFICES ASSUME exists, run.result = revision, NEW i \in DOMAIN cache'
                   PROVE  cache'[i] = items[i]
      BY <1>1, <2>1 DEF CacheIsCurrent
    <3>2. Overwritten
      BY <1>1, <1>2, <1>3, <3>1 DEF TwinOK
    <3>3. i \in DOMAIN m /\ cache'[i] = m[i]
      BY <2>1, <3>1, PrunedKeeps
    <3> QED
      BY <3>2, <3>3 DEF Overwritten
  <2>4. ReplayLogIsContiguous'
    <3>1. events \in Seq(Nat) /\ run.result \in Nat
      BY <1>2 DEF TypeOK, CanvasType
    <3>2. /\ log \in Seq(Nat) /\ Len(log) = Len(events) + 1 /\ Len(events) \in Nat
          /\ DOMAIN log = 1 .. Len(events) + 1 /\ DOMAIN events = 1 .. Len(events)
          /\ \A k \in DOMAIN events : log[k] = events[k]
          /\ log[Len(events) + 1] = run.result
      BY <3>1, Appended, AppendProperties
    <3> HIDE DEF log
    <3>3. \A k \in DOMAIN events : events[k] = run.seen - Len(events) + k
      BY <1>2 DEF CachedOK, ReplayLogIsContiguous
    <3>4. ASSUME NEW k \in DOMAIN log
          PROVE  log[k] = run.result - Len(log) + k
      <4>1. CASE k = Len(events) + 1
        BY <1>2, <3>1, <3>2, <4>1
      <4>2. CASE k # Len(events) + 1
        <5>1. k \in DOMAIN events /\ k \in Int
          BY <3>2, <3>4, <4>2
        <5>2. log[k] = run.seen - Len(events) + k
          BY <3>2, <3>3, <5>1
        <5>3. /\ run.result = run.seen + 1 /\ run.seen \in Int
              /\ Len(log) = Len(events) + 1 /\ Len(events) \in Int
          BY <1>2, <1>3, <3>2
        <5> QED
          BY <5>1, <5>2, <5>3
      <4> QED
        BY <4>1, <4>2
    <3>5. run.result \in Int
      BY <3>1
    <3>6. /\ \A k \in DOMAIN Trimmed(log) : Trimmed(log)[k] = run.result - Len(Trimmed(log)) + k
          /\ Len(Trimmed(log)) <= MaxReplay
      BY <3>5, <3>2, <3>4, TrimmedEnds
    <3> QED
      BY <1>2, <2>1, <3>6 DEF ReplayLogIsContiguous, Unknown
  <2> QED
    BY <2>2, <2>3, <2>4 DEF CachedOK
<1>4. CASE run.result # run.seen + 1
  <2>1. ForceResync(run.result)
    BY <1>4 DEF AcceptResult
  <2> QED
    BY <1>1, <1>2, <2>1, ForceResyncKeeps
<1> QED
  BY <1>3, <1>4

\* Every step keeps the cached state sound.
LEMMA CachedStep ==
  ASSUME TypeOK, RunOK, AcceptOK, CommittedOnce, CachedOK, SeenOK, TwinOK, [Next]_vars
  PROVE  CachedOK'
<1>1. revision \in Nat /\ revision + 1 \in Nat
  BY DEF TypeOK, StoreType
<1>2. CASE ReadRevision \/ CheckGuards \/ CheckRevision
  <2>1. \/ UNCHANGED <<known, cache, events>>
        \/ Synchronize(revision)
    BY <1>2 DEF ReadRevision, CheckGuards, CheckRevision
  <2>2. UNCHANGED <<exists, revision, items>>
    BY <1>2 DEF ReadRevision, CheckGuards, CheckRevision, durable
  <2> QED
    BY <2>1, <2>2, SynchronizeKeeps, CachedKept
<1>3. CASE LoadItems
  BY <1>3, LoadItemsReads, CachedRead DEF LoadItems, durable
<1>4. CASE Validate
  BY <1>4, ValidateReads, CachedRead DEF Validate, durable
<1>5. CASE ApplyMutations
  <2>1. UNCHANGED durable \/ WriteRows
    BY <1>5 DEF ApplyMutations
  <2>2. \/ UNCHANGED <<exists, revision, items>>
        \/ revision' = revision + 1
    BY <2>1 DEF durable, WriteRows
  <2> QED
    BY <1>5, <2>2, CachedKept DEF ApplyMutations
<1>6. CASE RevisionConflict
  <2>1. UNCHANGED <<exists, revision, items>> /\ (Synchronize(revision) \/ Forget)
    BY <1>6 DEF RevisionConflict, durable
  <2> QED
    BY <1>1, <2>1, SynchronizeKeeps, ForgetKeeps
<1>7. CASE ResyncAfterFailure
  <2>1. /\ UNCHANGED <<exists, revision, items>>
        /\ ForceResync(revision) \/ ForceResync(Unknown)
    BY <1>7 DEF ResyncAfterFailure, durable
  <2> QED
    BY <1>1, <2>1, ForceResyncKeeps DEF Unknown
<1>8. CASE ServeSnapshot \/ ServeSubscribe
  <2>1. /\ UNCHANGED <<exists, revision, items>>
        /\ Synchronize(revision) \/ UNCHANGED <<known, cache, events>>
    BY <1>8 DEF ServeSnapshot, ServeSubscribe, Serve, Refuse, durable
  <2> QED
    BY <2>1, SynchronizeKeeps, CachedKept
<1>9. CASE ServeAbort \/ ServeRelease \/ Restart
  BY <1>1, <1>9, ForgetKeeps DEF ServeAbort, ServeRelease, Restart, durable
<1>10. CASE CommitElsewhere
  BY <1>10, CachedKept DEF CommitElsewhere, Elsewhere
<1>11. ASSUME NEW d \in Deletions, CommitDeletion(d)
       PROVE  CachedOK'
  <2>1. UNCHANGED durable \/ DeleteRows
    BY <1>11 DEF CommitDeletion
  <2> QED
    BY <1>11, <2>1, CachedKept DEF CommitDeletion, DeleteRows, durable
<1>12. CASE StartCommand \/ ReadFails \/ ServeBegin
  BY <1>12, CachedKept DEF StartCommand, ReadFails, ServeBegin, durable
<1>13. ASSUME NEW c \in Commands, Execute(c) PROVE CachedOK'
  BY <1>13, CachedKept DEF Execute, durable
<1>14. ASSUME NEW s \in Readers, GetSnapshot(s) \/ Subscribe(s) \/ ReadStream(s) \/ Return(s)
       PROVE  CachedOK'
  BY <1>14, CachedKept DEF GetSnapshot, Subscribe, Request, ReadStream, Return, StreamStep, durable
<1>15. ASSUME NEW d \in Deletions,
              \/ PlanDeletion(d) \/ BeginDeletion(d) \/ Interrupt(d)
              \/ DisposeChats(d) \/ ReleaseDeleted(d)
       PROVE  CachedOK'
  BY <1>15, CachedKept DEF PlanDeletion, BeginDeletion, Interrupt, DisposeChats,
     ReleaseDeleted, durable
<1>16. CASE UNCHANGED vars
  BY <1>16, CachedKept DEF vars, durable
<1> QED
  BY <1>2, <1>3, <1>4, <1>5, <1>6, <1>7, <1>8, <1>9, <1>10, <1>11, <1>12, <1>13, <1>14, <1>15,
     <1>16, AcceptKeeps DEF Next, QueueStep, ExecuteStep, DeletionStep

-----------------------------------------------------------------------------
(***************************************************************************)
(* The locals of the running command.                                      *)
(***************************************************************************)
\* Nothing is claimed of a command that has not started.
LEMMA IdleLocals ==
  ASSUME run' = Idle \/ run'.at \in {"start", "unclear"}
  PROVE  LocalsOK'
<1>1. run'.at \in {"start", "unclear"}
  BY DEF Idle
<1> QED
  BY <1>1 DEF LocalsOK, SeenOK, Reading, LoadedOK, OriginalOK, Reduced, TwinOK, AdmittedOK,
              ValidOK, UncommittedOK

\* A new attempt keeps nothing of the one before but the missing receipt.
LEMMA RetryLocals ==
  ASSUME TypeOK, UncommittedOK, UNCHANGED <<queue, receipts, spent>>, run'.at = "revision",
         \/ run.at \in {"revision", "recheck", "revalidate", "apply"}
         \/ receipts[By] = 0
  PROVE  LocalsOK'
<1>1. By' = By
  BY DEF By
<1>2. UncommittedOK'
  BY <1>1 DEF UncommittedOK
<1> QED
  BY <1>2 DEF LocalsOK, SeenOK, Reading, LoadedOK, OriginalOK, Reduced, TwinOK, AdmittedOK,
              ValidOK

\* What the running command is about does not change while it runs.
LEMMA SameTargets ==
  ASSUME UNCHANGED queue, run'.original = run.original
  PROVE  /\ By' = By /\ Targets' = Targets /\ Ops(By)' = Ops(By)
         /\ \A i : Written(i)' = Written(i)
  BY DEF By, Targets, Written, Ops

\* A step that touches neither the rows nor the cache nor the running command
\* keeps its locals true; the queue may grow behind it.
LEMMA LocalsKept ==
  ASSUME TypeOK, LocalsOK, UNCHANGED <<run, exists, revision, items, receipts, known, cache>>,
         run.at # "start" => By' = By, spent'.foreign = spent.foreign
  PROVE  LocalsOK'
<1>1. CASE run.at = "start"
  BY <1>1, IdleLocals
<1>2. CASE run.at # "start"
  <2>1. /\ By' = By /\ Targets' = Targets /\ Ops(By)' = Ops(By) /\ Rewritten' = Rewritten
        /\ \A i : Written(i)' = Written(i)
    BY <1>2 DEF Targets, Written, Ops, Rewritten
  <2>2. SeenOK' /\ LoadedOK' /\ OriginalOK'
    BY <2>1 DEF LocalsOK, SeenOK, LoadedOK, OriginalOK
  <2>3. TwinOK'
    BY <2>1 DEF LocalsOK, TwinOK, Overwritten
  <2>4. AdmittedOK' /\ ValidOK' /\ UncommittedOK'
    BY <2>1 DEF LocalsOK, AdmittedOK, ValidOK, UncommittedOK
  <2> QED
    BY <2>2, <2>3, <2>4 DEF LocalsOK
<1> QED
  BY <1>1, <1>2

\* The deletion of the rows makes the claims about them vacuous.
LEMMA DeletedLocals ==
  ASSUME TypeOK, LocalsOK, ~exists', UNCHANGED <<run, revision, receipts, known, cache>>,
         run.at # "start" => By' = By, spent'.foreign = spent.foreign
  PROVE  LocalsOK'
<1>1. CASE run.at = "start"
  BY <1>1, IdleLocals
<1>2. CASE run.at # "start"
  <2>1. By' = By /\ Targets' = Targets /\ Ops(By)' = Ops(By)
    BY <1>2 DEF Targets, Ops
  <2>2. SeenOK' /\ LoadedOK' /\ AdmittedOK' /\ UncommittedOK'
    BY <2>1 DEF LocalsOK, SeenOK, LoadedOK, AdmittedOK, UncommittedOK
  <2> QED
    BY <2>2 DEF LocalsOK, OriginalOK, TwinOK, ValidOK
<1> QED
  BY <1>1, <1>2

\* A receipt is a revision of the history.
LEMMA ReceiptRange ==
  ASSUME TypeOK, CommittedOnce, NEW c \in Commands
  PROVE  revision \in Nat /\ receipts[c] \in 0 .. revision
<1>1. history \in Seq(Commands \cup {Foreign}) /\ Len(history) = revision
  BY DEF TypeOK, StoreType, CommittedOnce
<1>2. DOMAIN history = 1 .. revision /\ revision \in Nat
  BY <1>1, LenProperties
<1> QED
  BY <1>2 DEF TypeOK, StoreType, CommittedOnce

\* Another authority commits: what was read is a revision behind, unless the
\* commit is of the very command that is running here.
LEMMA ForeignLocals ==
  ASSUME TypeOK, RunOK, AcceptOK, CommittedOnce, CachedOK, LocalsOK, CommitElsewhere
  PROVE  LocalsOK'
<1>1. /\ UNCHANGED <<run, queue, known, cache>> /\ exists /\ revision' = revision + 1
      /\ spent'.foreign > 0
  <2>1. \E ops : Elsewhere(ops)
    BY DEF CommitElsewhere
  <2>2. spent \in [{"foreign", "fault", "restart", "interrupt"} -> Nat]
    BY DEF TypeOK, CallerType
  <2> QED
    BY <2>1, <2>2 DEF Elsewhere, Spend
<1>2. CASE run.at = "start"
  BY <1>1, <1>2, IdleLocals
<1>3. CASE run.at # "start"
  <2>1. /\ By' = By /\ Targets' = Targets /\ Ops(By)' = Ops(By)
        /\ \A i : Written(i)' = Written(i)
    BY <1>1, SameTargets
  <2>2. By \in Commands /\ revision \in Nat /\ run.seen \in Nat
    BY <1>3, HeadTask DEF RunOK, TypeOK, StoreType, CanvasType, IsRun
  <2>3. run.at \in Reading => known = run.seen /\ run.seen <= revision
    BY <2>2 DEF LocalsOK, SeenOK, CachedOK, KnownOK
  <2>4. SeenOK' /\ LoadedOK' /\ AdmittedOK' /\ UncommittedOK'
    BY <1>1, <2>1 DEF LocalsOK, SeenOK, LoadedOK, AdmittedOK, UncommittedOK
  <2>5. OriginalOK' /\ ValidOK'
    BY <1>1, <2>2, <2>3 DEF OriginalOK, ValidOK, Reduced, Reading
  <2>6. TwinOK'
    <3>1. SUFFICES ASSUME run.at \in Reduced \cup {"accept"}, revision' = run.seen + 1,
                          receipts'[By] = revision'
                   PROVE  Overwritten'
      BY <1>1, <2>1 DEF TwinOK
    <3>2. revision = run.seen /\ known = revision
      BY <1>1, <2>2, <2>3, <3>1 DEF Reduced, Reading
    <3>3. receipts[By] # revision + 1
      BY <2>2, ReceiptRange
    <3>4. PICK c \in Commands : /\ receipts[c] = 0 /\ Elsewhere(Ops(c))
                                /\ receipts' = [receipts EXCEPT ![c] = revision + 1]
      BY <1>1, <3>1, <3>3 DEF CommitElsewhere
    <3>5. c = By
      BY <1>1, <2>2, <3>1, <3>3, <3>4 DEF TypeOK, StoreType
    <3>6. run.at \in Reduced
      BY <3>1, <3>4, <3>5 DEF AcceptOK
    <3>7. \A i \in DOMAIN Ops(By) : run.original[i] = items[i]
      BY <1>1, <3>2, <3>6 DEF LocalsOK, OriginalOK
    <3>8. items' = [i \in Items |-> IF i \in Targets THEN Written(i) ELSE items[i]]
      BY <2>2, <3>4, <3>5, <3>7, CommandOps, RewrittenIsResult DEF Elsewhere, Targets, Written
    <3>9. Targets \subseteq Items /\ DOMAIN cache \subseteq Items
      BY <2>2, CommandOps DEF Targets, Altered, TypeOK, CanvasType, IsItemMap
    <3>10. \A i \in DOMAIN cache : cache[i] = items[i]
      BY <1>1, <3>2 DEF CachedOK, CacheIsCurrent
    <3> QED
      BY <1>1, <2>1, <3>8, <3>9, <3>10 DEF Overwritten
  <2> QED
    BY <2>4, <2>5, <2>6 DEF LocalsOK
<1> QED
  BY <1>2, <1>3

\* The start of a command: its receipt was looked up and there is none.
LEMMA StartLocals ==
  ASSUME TypeOK, LocalsOK, StartCommand
  PROVE  LocalsOK'
<1>1. ASSUME NEW a, Reply(a) PROVE LocalsOK'
  BY <1>1, IdleLocals DEF Reply, Done
<1>2. CASE /\ receipts[By] = 0 /\ run' = [run EXCEPT !.at = "revision", !.attempt = 1]
           /\ UNCHANGED <<queue, answers>>
  <2>1. run'.at = "revision" /\ UNCHANGED <<queue, receipts, spent>>
    BY <1>2 DEF StartCommand, durable, TypeOK, CanvasType, IsRun
  <2> QED
    BY <1>2, <2>1, RetryLocals DEF LocalsOK
<1> QED
  BY <1>1, <1>2 DEF StartCommand

\* The read of the revision: the cached state is now the one the command sees.
LEMMA ReadRevisionLocals ==
  ASSUME TypeOK, LocalsOK, ReadRevision
  PROVE  LocalsOK'
<1>1. ASSUME NEW a, Reply(a) PROVE LocalsOK'
  BY <1>1, IdleLocals DEF Reply, Done
<1>2. CASE /\ Synchronize(revision) /\ Catalogue[By].base <= revision
           /\ run' = [run EXCEPT !.at = "load", !.seen = revision]
           /\ UNCHANGED <<queue, answers>>
  <2>1. /\ run'.at = "load" /\ run'.seen = revision /\ known' = revision /\ By' = By
        /\ run.at = "revision" /\ UNCHANGED <<receipts, spent>>
    BY <1>2 DEF ReadRevision, At, durable, TypeOK, CanvasType, IsRun, Synchronize, By
  <2>2. SeenOK' /\ AdmittedOK' /\ UncommittedOK'
    BY <1>2, <2>1 DEF LocalsOK, SeenOK, AdmittedOK, UncommittedOK, Reduced
  <2> QED
    BY <2>1, <2>2 DEF LocalsOK, LoadedOK, OriginalOK, TwinOK, ValidOK, Reduced
<1>3. CASE ~(Catalogue[By].base > revision)
  <2>1. At("revision") /\ queue \in Seq(Task)
    BY DEF ReadRevision, TypeOK, CanvasType
  <2>2. By \in Commands
    BY <2>1, HeadTask DEF At
  <2>3. Catalogue[By].base \in Nat /\ revision \in Nat
    BY <2>2, CommandOps DEF TypeOK, StoreType
  <2>4. Catalogue[By].base <= revision
    BY <1>3, <2>3
  <2> QED
    BY <1>1, <1>2, <1>3, <2>4 DEF ReadRevision
<1> QED
  BY <1>1, <1>3 DEF ReadRevision

\* The load of the items: they are all in the cache.
LEMMA LoadLocals ==
  ASSUME TypeOK, LocalsOK, LoadItems
  PROVE  LocalsOK'
<1>1. CASE Reply(Rejected)
  BY <1>1, IdleLocals DEF Reply, Done
<1>2. CASE Goto("recheck")
  <2>1. /\ run'.at = "recheck" /\ run'.seen = run.seen /\ By' = By /\ Ops(By)' = Ops(By)
        /\ run.at = "load" /\ UNCHANGED <<known, receipts, spent>>
    BY <1>2 DEF LoadItems, Goto, At, durable, TypeOK, CanvasType, IsRun, By, Ops
  <2>2. LoadedOK'
    BY <2>1, LoadItemsReads DEF LoadedOK
  <2>3. SeenOK' /\ AdmittedOK' /\ UncommittedOK'
    BY <2>1 DEF LocalsOK, SeenOK, AdmittedOK, UncommittedOK, Reduced, Reading
  <2> QED
    BY <2>1, <2>2, <2>3 DEF LocalsOK, OriginalOK, TwinOK, ValidOK, Reduced
<1> QED
  BY <1>1, <1>2 DEF LoadItems

\* The re-read after the load: at an unchanged revision the command is reduced
\* over the rows of the store.
LEMMA CheckGuardsLocals ==
  ASSUME TypeOK, RunOK, CachedOK, LocalsOK, CheckGuards
  PROVE  LocalsOK'
<1> DEFINE before == [i \in DOMAIN Ops(By) |-> IF i \in DOMAIN cache THEN cache[i] ELSE Absent]
<1>0. /\ run.at = "recheck" /\ UNCHANGED <<exists, revision, items, receipts, spent>>
      /\ revision \in Nat /\ run.seen \in Nat
  BY DEF CheckGuards, At, durable, TypeOK, StoreType, CanvasType, IsRun
<1>1. ASSUME NEW a, Reply(a) PROVE LocalsOK'
  BY <1>1, IdleLocals DEF Reply, Done
<1>2. CASE NextAttempt
  <2>1. run'.at = "revision" /\ UNCHANGED queue
    BY <1>2 DEF NextAttempt, TypeOK, CanvasType, IsRun
  <2> QED
    BY <1>0, <2>1, RetryLocals DEF LocalsOK
<1>3. CASE /\ exists /\ revision = run.seen /\ UNCHANGED <<known, cache, events, reader>>
           /\ GuardsHold(Ops(By), before) /\ Altered(Ops(By), before) # {}
           /\ run' = [run EXCEPT !.at = "validate", !.original = before]
           /\ UNCHANGED <<queue, answers>>
  <2>1. /\ run'.at = "validate" /\ run'.seen = run.seen /\ run'.original = before
        /\ By' = By /\ Ops(By)' = Ops(By)
    BY <1>3 DEF TypeOK, CanvasType, IsRun, By, Ops
  <2>2. Targets' = Altered(Ops(By), before)
    BY <2>1 DEF Targets, By, Ops
  <2>3. SeenOK'
    BY <1>0, <1>3, <2>1 DEF LocalsOK, SeenOK, Reading
  <2>4. OriginalOK'
    <3>1. known = revision /\ DOMAIN Ops(By) \subseteq DOMAIN cache
      BY <1>0, <1>3 DEF LocalsOK, SeenOK, LoadedOK, Reading
    <3>2. \A i \in DOMAIN Ops(By) : before[i] = items[i]
      BY <1>3, <3>1 DEF CachedOK, CacheIsCurrent
    <3> QED
      BY <1>0, <2>1, <3>2 DEF OriginalOK
  <2>5. AdmittedOK'
    BY <1>0, <1>3, <2>1, <2>2 DEF LocalsOK, AdmittedOK, Reduced
  <2>6. UncommittedOK'
    BY <1>0, <2>1 DEF LocalsOK, UncommittedOK
  <2>7. TwinOK'
    BY <1>0, <1>3, <2>1 DEF TwinOK
  <2> QED
    BY <2>1, <2>3, <2>4, <2>5, <2>6, <2>7 DEF LocalsOK, LoadedOK, ValidOK
<1> QED
  BY <1>1, <1>2, <1>3 DEF CheckGuards

\* The last re-read: the transaction is tried at the revision that was seen.
LEMMA CheckRevisionLocals ==
  ASSUME TypeOK, RunOK, LocalsOK, CheckRevision
  PROVE  LocalsOK'
<1>0. /\ run.at = "revalidate" /\ UNCHANGED <<exists, revision, items, receipts, spent>>
      /\ revision \in Nat /\ run.seen \in Nat
  BY DEF CheckRevision, At, durable, TypeOK, StoreType, CanvasType, IsRun
<1>1. ASSUME NEW a, Reply(a) PROVE LocalsOK'
  BY <1>1, IdleLocals DEF Reply, Done
<1>2. CASE NextAttempt
  <2>1. run'.at = "revision" /\ UNCHANGED queue
    BY <1>2 DEF NextAttempt, TypeOK, CanvasType, IsRun
  <2> QED
    BY <1>0, <2>1, RetryLocals DEF LocalsOK
<1>3. CASE revision = run.seen /\ Goto("apply") /\ UNCHANGED <<known, cache, events, reader>>
  <2>1. /\ run'.at = "apply" /\ run'.seen = run.seen /\ run'.original = run.original
        /\ UNCHANGED queue
    BY <1>3 DEF Goto, TypeOK, CanvasType, IsRun
  <2>2. /\ By' = By /\ Targets' = Targets /\ Ops(By)' = Ops(By) /\ Rewritten' = Rewritten
    BY <1>0, <2>1, SameTargets DEF Rewritten
  <2>3. SeenOK' /\ OriginalOK'
    BY <1>0, <1>3, <2>1, <2>2 DEF LocalsOK, SeenOK, OriginalOK, Reading, Reduced
  <2>4. TwinOK'
    BY <1>0, <1>3, <2>1 DEF TwinOK
  <2>5. AdmittedOK'
    BY <1>0, <1>3, <2>1, <2>2 DEF LocalsOK, AdmittedOK, Reduced
  <2>6. ValidOK' /\ UncommittedOK'
    BY <1>0, <1>3, <2>1, <2>2 DEF LocalsOK, ValidOK, UncommittedOK
  <2> QED
    BY <2>1, <2>3, <2>4, <2>5, <2>6 DEF LocalsOK, LoadedOK
<1> QED
  BY <1>1, <1>2, <1>3 DEF CheckRevision

\* What validation finds at an unchanged revision is what the commit will
\* leave: a well-formed document.
LEMMA ValidateFinds ==
  ASSUME TypeOK, RunOK, CachedOK, LocalsOK, DocumentWellFormed, Validate,
         Goto("revalidate"), exists, revision = run.seen
  PROVE  WellFormed(Rewritten)
<1> DEFINE ops == Ops(By)
           altered == Altered(ops, run.original)
           gone == {i \in altered : ops[i].kind = "delete"}
           fresh == Children(items, gone)
           view == [i \in Items |->
                      IF i \in fresh \/ i \notin DOMAIN cache THEN items[i] ELSE cache[i]]
           final == [i \in Items |->
                      IF i \in altered THEN Apply(ops[i], run.original[i]) ELSE view[i]]
<1>1. run.at = "validate" /\ By \in Commands
  BY HeadTask DEF Validate, At, TypeOK, CanvasType
<1>2. /\ DOMAIN ops \subseteq Items /\ altered \subseteq DOMAIN ops
      /\ \A i \in DOMAIN ops : ops[i] \in Operation
  BY <1>1, CommandOps DEF Altered
<1>3. known = revision /\ \A i \in DOMAIN ops : run.original[i] = items[i]
  BY <1>1 DEF LocalsOK, SeenOK, OriginalOK, Reading, Reduced
<1>4. \A i \in DOMAIN cache : cache[i] = items[i]
  BY <1>3 DEF CachedOK, CacheIsCurrent
<1>5. items \in Document
  BY DEF TypeOK, StoreType
<1>6. final = Rewritten
  <2>1. \A i \in Items : view[i] = items[i]
    BY <1>4
  <2> QED
    BY <2>1 DEF Rewritten, Targets, Written
<1>7. \A i \in altered : Apply(ops[i], run.original[i]) \in Item
  BY <1>2, <1>3, <1>5, ApplyType DEF Document
<1>8. Rewritten \in Document
  BY <1>5, <1>7 DEF Rewritten, Targets, Written, Document
<1>9. gone = altered \ Present(Rewritten)
  <2>1. ASSUME NEW i \in altered
        PROVE  i \in Present(Rewritten) <=> ops[i].kind # "delete"
    <3>1. Rewritten[i] = Apply(ops[i], items[i]) /\ i \in Items
      BY <1>2, <1>3, <2>1 DEF Rewritten, Targets, Written
    <3>2. ops[i] \in Operation /\ items[i] \in Item
      BY <1>2, <1>5, <3>1, <2>1 DEF Document
    <3> QED
      BY <3>1, <3>2, ApplyPresent DEF Present
  <2> QED
    BY <2>1
<1>10. LocallyValid(final, altered, fresh)
  <2>1. run'.at = "revalidate"
    BY DEF Goto, TypeOK, CanvasType, IsRun
  <2>2. ASSUME Reply(Rejected) PROVE FALSE
    BY <2>1, <2>2 DEF Reply, Done, Idle
  <2> QED
    BY <2>2 DEF Validate
<1>11. LocallyValid(Rewritten, altered, Children(items, altered \ Present(Rewritten)))
  BY <1>6, <1>9, <1>10
<1>12. \A i \in Items \ altered : Rewritten[i] = items[i]
  BY DEF Rewritten, Targets
<1>13. WellFormed(items) /\ altered \in SUBSET Items
  BY <1>2 DEF DocumentWellFormed
<1> HIDE DEF altered
<1> QED
  BY <1>5, <1>8, <1>11, <1>12, <1>13, ValidationSuffices

\* The validation of a command.
LEMMA ValidateLocals ==
  ASSUME TypeOK, RunOK, CachedOK, LocalsOK, DocumentWellFormed, Validate
  PROVE  LocalsOK'
<1>1. CASE Reply(Rejected)
  BY <1>1, IdleLocals DEF Reply, Done
<1>2. CASE Goto("revalidate")
  <2>1. /\ run.at = "validate" /\ UNCHANGED <<exists, revision, items, receipts, known, spent>>
        /\ run'.at = "revalidate" /\ run'.seen = run.seen /\ run'.original = run.original
        /\ UNCHANGED queue
    BY <1>2 DEF Validate, At, durable, Goto, TypeOK, CanvasType, IsRun
  <2>2. /\ By' = By /\ Targets' = Targets /\ Ops(By)' = Ops(By) /\ Rewritten' = Rewritten
        /\ \A i : Written(i)' = Written(i)
    BY <2>1, SameTargets DEF Rewritten
  <2>3. SeenOK' /\ OriginalOK' /\ AdmittedOK' /\ UncommittedOK'
    BY <2>1, <2>2 DEF LocalsOK, SeenOK, OriginalOK, AdmittedOK, UncommittedOK, Reading, Reduced
  <2>4. ValidOK'
    BY <1>2, <2>1, <2>2, ValidateFinds DEF ValidOK
  <2>5. TwinOK'
    <3>1. SUFFICES ASSUME exists, revision = run.seen + 1, receipts[By] = revision
                   PROVE  Overwritten'
      BY <2>1, <2>2 DEF TwinOK
    <3>2. Overwritten
      BY <2>1, <3>1 DEF LocalsOK, TwinOK, Reduced
    <3>3. \A i \in DOMAIN cache' \ Targets : cache'[i] = items[i]
      BY <3>2, ValidateReads DEF Overwritten
    <3> QED
      BY <2>1, <2>2, <3>2, <3>3 DEF Overwritten
  <2> QED
    BY <2>1, <2>3, <2>4, <2>5 DEF LocalsOK, LoadedOK
<1> QED
  BY <1>1, <1>2 DEF Validate

\* The transaction: a command that goes on to be accepted wrote its rows, or
\* finds its receipt.
LEMMA ApplyLocals ==
  ASSUME TypeOK, RunOK, CachedOK, LocalsOK, ApplyMutations
  PROVE  LocalsOK'
<1>0. /\ run.at = "apply" /\ By \in Commands /\ UNCHANGED <<queue, known, cache>>
      /\ revision \in Nat /\ run.seen \in Nat /\ known = run.seen
  BY HeadTask DEF ApplyMutations, At, TypeOK, StoreType, CanvasType, IsRun, LocalsOK, SeenOK,
                  Reading
<1>1. CASE Outcome("unclear", 0)
  <2>1. run'.at = "unclear"
    BY <1>1 DEF Outcome, TypeOK, CanvasType, IsRun
  <2> QED
    BY <2>1, IdleLocals
<1>2. ASSUME NEW r, Outcome("accept", r), Overwritten' \/ UNCHANGED durable
      PROVE  LocalsOK'
  <2>1. /\ run'.at = "accept" /\ run'.seen = run.seen /\ run'.original = run.original
    BY <1>2 DEF Outcome, TypeOK, CanvasType, IsRun
  <2>2. By' = By /\ Targets' = Targets /\ \A i : Written(i)' = Written(i)
    BY <1>0, <2>1, SameTargets
  <2>3. SeenOK'
    BY <1>0, <2>1 DEF SeenOK
  <2>4. TwinOK'
    <3>1. CASE Overwritten'
      BY <3>1 DEF TwinOK
    <3>2. CASE UNCHANGED durable
      BY <1>0, <2>1, <2>2, <3>2 DEF LocalsOK, TwinOK, Overwritten, durable, Reduced
    <3> QED
      BY <1>2, <3>1, <3>2
  <2> QED
    BY <2>1, <2>3, <2>4 DEF LocalsOK, LoadedOK, OriginalOK, AdmittedOK, ValidOK, UncommittedOK,
                            Reduced
<1>3. CASE Ready /\ WriteRows /\ Outcome("accept", revision + 1)
  <2>1. run'.original = run.original
    BY <1>3 DEF Outcome, TypeOK, CanvasType, IsRun
  <2>2. By' = By /\ Targets' = Targets /\ \A i : Written(i)' = Written(i)
    BY <1>0, <2>1, SameTargets
  <2>3. Targets \subseteq Items /\ DOMAIN cache \subseteq Items
    BY <1>0, CommandOps DEF Targets, Altered, TypeOK, CanvasType, IsItemMap
  <2>4. \A i \in DOMAIN cache : cache[i] = items[i]
    BY <1>0, <1>3 DEF CachedOK, CacheIsCurrent, Ready
  <2>5. Overwritten'
    BY <1>0, <1>3, <2>2, <2>3, <2>4 DEF Overwritten, WriteRows
  <2> QED
    BY <1>2, <1>3, <2>5
<1> QED
  BY <1>1, <1>2, <1>3 DEF ApplyMutations

\* Every step keeps the locals of the running command true.
LEMMA LocalsStep ==
  ASSUME TypeOK, RunOK, AcceptOK, CommittedOnce, SafeInv, [Next]_vars
  PROVE  LocalsOK'
<1>0. queue \in Seq(Task) /\ CachedOK /\ LocalsOK /\ DocumentWellFormed
  BY DEF TypeOK, CanvasType, SafeInv
<1>1. CASE StartCommand \/ ReadRevision \/ LoadItems \/ CheckGuards \/ Validate
           \/ CheckRevision \/ ApplyMutations
  BY <1>0, <1>1, StartLocals, ReadRevisionLocals, LoadLocals, CheckGuardsLocals,
     ValidateLocals, CheckRevisionLocals, ApplyLocals
<1>2. CASE RevisionConflict
  <2>1. ASSUME NEW a, Reply(a) PROVE LocalsOK'
    BY <2>1, IdleLocals DEF Reply, Done
  <2>2. CASE NextAttempt
    <3>1. /\ run'.at = "revision" /\ run.at = "apply"
          /\ UNCHANGED <<queue, receipts, spent>>
      BY <1>2, <2>2 DEF NextAttempt, RevisionConflict, At, durable, TypeOK, CanvasType, IsRun
    <3> QED
      BY <1>0, <3>1, RetryLocals DEF LocalsOK
  <2> QED
    BY <1>2, <2>1, <2>2 DEF RevisionConflict
<1>3. CASE AcceptResult \/ ResyncAfterFailure \/ ReadFails
  BY <1>3, IdleLocals DEF AcceptResult, ResyncAfterFailure, ReadFails, Reply, Done
<1>4. CASE ServeSnapshot \/ ServeSubscribe \/ ServeBegin \/ ServeAbort \/ ServeRelease \/ Restart
  <2>1. run' = Idle
    BY <1>4 DEF ServeSnapshot, ServeSubscribe, Serve, Refuse, ServeBegin, ServeAbort,
       ServeRelease, Restart, Done
  <2> QED
    BY <2>1, IdleLocals
<1>5. CASE CommitElsewhere
  BY <1>0, <1>5, ForeignLocals
<1>6. ASSUME UNCHANGED run, UNCHANGED queue \/ \E kind, x : Enqueue(kind, x), run.at # "start"
      PROVE  By' = By
  <2>1. queue # <<>>
    BY <1>6 DEF RunOK
  <2>2. Head(queue') = Head(queue)
    BY <1>0, <1>6, <2>1, HeadTailAppend DEF Enqueue
  <2> QED
    BY <2>2 DEF By
<1>7. ASSUME spent' = spent \/ Spend("fault") \/ Spend("interrupt")
      PROVE  spent'.foreign = spent.foreign
  <2>1. spent \in [{"foreign", "fault", "restart", "interrupt"} -> Nat]
    BY DEF TypeOK, CallerType
  <2> QED
    BY <1>7, <2>1 DEF Spend
<1>8. ASSUME NEW d \in Deletions, CommitDeletion(d)
      PROVE  LocalsOK'
  <2>1. /\ UNCHANGED <<run, revision, receipts, known, cache>>
        /\ UNCHANGED <<exists, items>> \/ ~exists'
        /\ run.at # "start" => By' = By
        /\ spent'.foreign = spent.foreign
    BY <1>6, <1>7, <1>8 DEF CommitDeletion, DeleteRows, AbortDeletion, durable
  <2> QED
    BY <1>0, <2>1, LocalsKept, DeletedLocals
<1>9. ASSUME NEW c \in Commands, Execute(c) PROVE LocalsOK'
  BY <1>0, <1>6, <1>7, <1>9, LocalsKept DEF Execute, durable
<1>10. ASSUME NEW s \in Readers, GetSnapshot(s) \/ Subscribe(s) \/ ReadStream(s) \/ Return(s)
       PROVE  LocalsOK'
  BY <1>0, <1>6, <1>7, <1>10, LocalsKept
  DEF GetSnapshot, Subscribe, Request, ReadStream, Return, StreamStep, durable
<1>11. ASSUME NEW d \in Deletions,
              \/ PlanDeletion(d) \/ BeginDeletion(d) \/ Interrupt(d)
              \/ DisposeChats(d) \/ ReleaseDeleted(d)
       PROVE  LocalsOK'
  <2>1. UNCHANGED queue \/ \E kind, x : Enqueue(kind, x)
    BY <1>11 DEF PlanDeletion, BeginDeletion, Interrupt, DisposeChats, ReleaseDeleted,
       AbortDeletion
  <2>2. spent' = spent \/ Spend("fault") \/ Spend("interrupt")
    BY <1>11 DEF PlanDeletion, BeginDeletion, Interrupt, DisposeChats, ReleaseDeleted
  <2>3. UNCHANGED <<run, exists, revision, items, receipts, known, cache>>
    BY <1>11 DEF PlanDeletion, BeginDeletion, Interrupt, DisposeChats, ReleaseDeleted, durable
  <2> QED
    BY <1>0, <1>6, <1>7, <2>1, <2>2, <2>3, LocalsKept
<1>12. CASE UNCHANGED vars
  BY <1>0, <1>6, <1>7, <1>12, LocalsKept DEF vars, durable
<1> QED
  BY <1>1, <1>2, <1>3, <1>4, <1>5, <1>8, <1>9, <1>10, <1>11, <1>12
  DEF Next, QueueStep, ExecuteStep, DeletionStep

-----------------------------------------------------------------------------
(***************************************************************************)
(* Commits: what changes the document.                                     *)
(***************************************************************************)
\* A commit of the running command is the result of its operations on the rows
\* that it replaces, which satisfy its guards.
LEMMA WriteRowsResult ==
  ASSUME TypeOK, RunOK, SafeInv, ApplyMutations, Ready, WriteRows
  PROVE  /\ By \in Commands /\ exists /\ receipts[By] = 0
         /\ Catalogue[By].base <= revision
         /\ GuardsHold(Ops(By), items) /\ Altered(Ops(By), items) # {}
         /\ items' = Result(Ops(By), items) /\ WellFormed(items')
<1>1. /\ run.at = "apply" /\ By \in Commands
      /\ exists /\ revision = run.seen /\ receipts[By] = 0
  BY HeadTask DEF ApplyMutations, At, TypeOK, CanvasType, Ready
<1>2. \A i \in DOMAIN Ops(By) : run.original[i] = items[i]
  BY <1>1 DEF SafeInv, LocalsOK, OriginalOK, Reduced
<1>3. /\ Altered(Ops(By), run.original) = Altered(Ops(By), items)
      /\ Result(Ops(By), items) = Rewritten
      /\ GuardsHold(Ops(By), run.original) <=> GuardsHold(Ops(By), items)
  BY <1>1, <1>2, CommandOps, RewrittenIsResult DEF Rewritten, Targets, Written
<1>4. /\ GuardsHold(Ops(By), run.original) /\ Targets # {}
      /\ Catalogue[By].base <= revision
  BY <1>1 DEF SafeInv, LocalsOK, AdmittedOK, Reduced
<1>5. items' = Rewritten
  BY DEF WriteRows, Rewritten
<1>6. WellFormed(Rewritten)
  BY <1>1 DEF SafeInv, LocalsOK, ValidOK
<1> QED
  BY <1>1, <1>3, <1>4, <1>5, <1>6 DEF Targets

\* Every step but a commit, here or elsewhere, and the deletion of the canvas
\* leaves the durable rows alone.
LEMMA DurableStep ==
  ASSUME [Next]_vars
  PROVE  \/ UNCHANGED durable
         \/ ApplyMutations /\ Ready /\ WriteRows
         \/ CommitElsewhere
         \/ \E d \in Deletions : CommitDeletion(d) /\ exists /\ DeleteRows
<1>1. CASE ApplyMutations
  BY <1>1 DEF ApplyMutations
<1>2. ASSUME NEW d \in Deletions, CommitDeletion(d)
      PROVE  UNCHANGED durable \/ (exists /\ DeleteRows)
  BY <1>2 DEF CommitDeletion
<1>3. CASE StartCommand \/ ReadRevision \/ LoadItems \/ CheckGuards \/ Validate
           \/ CheckRevision \/ RevisionConflict \/ AcceptResult \/ ResyncAfterFailure \/ ReadFails
  BY <1>3 DEF StartCommand, ReadRevision, LoadItems, CheckGuards, Validate, CheckRevision,
     RevisionConflict, AcceptResult, ResyncAfterFailure, ReadFails
<1>4. CASE ServeSnapshot \/ ServeSubscribe \/ ServeBegin \/ ServeAbort \/ ServeRelease \/ Restart
  BY <1>4 DEF ServeSnapshot, ServeSubscribe, Serve, Refuse, ServeBegin, ServeAbort,
     ServeRelease, Restart
<1>5. ASSUME NEW c \in Commands, Execute(c) PROVE UNCHANGED durable
  BY <1>5 DEF Execute
<1>6. ASSUME NEW s \in Readers, GetSnapshot(s) \/ Subscribe(s) \/ ReadStream(s) \/ Return(s)
      PROVE  UNCHANGED durable
  BY <1>6 DEF GetSnapshot, Subscribe, Request, ReadStream, Return, StreamStep
<1>7. ASSUME NEW d \in Deletions,
             \/ PlanDeletion(d) \/ BeginDeletion(d) \/ Interrupt(d)
             \/ DisposeChats(d) \/ ReleaseDeleted(d)
      PROVE  UNCHANGED durable
  BY <1>7 DEF PlanDeletion, BeginDeletion, Interrupt, DisposeChats, ReleaseDeleted
<1>8. CASE UNCHANGED vars
  BY <1>8 DEF vars
<1> QED
  BY <1>1, <1>2, <1>3, <1>4, <1>5, <1>6, <1>7, <1>8
  DEF Next, QueueStep, ExecuteStep, DeletionStep

\* Every step keeps the document a tree.
LEMMA DocumentStep ==
  ASSUME TypeOK, RunOK, SafeInv, [Next]_vars
  PROVE  DocumentWellFormed'
<1>1. CASE UNCHANGED durable
  BY <1>1 DEF durable, SafeInv, DocumentWellFormed
<1>2. CASE ApplyMutations /\ Ready /\ WriteRows
  BY <1>2, WriteRowsResult DEF DocumentWellFormed
<1>3. CASE CommitElsewhere
  <2>1. PICK ops : Elsewhere(ops)
    BY <1>3 DEF CommitElsewhere
  <2> QED
    BY <2>1 DEF Elsewhere, DocumentWellFormed
<1>4. CASE DeleteRows
  BY <1>4, EmptyWellFormed DEF DeleteRows, DocumentWellFormed
<1> QED
  BY <1>1, <1>2, <1>3, <1>4, DurableStep

\* The strengthened invariant holds in every reachable state.
SafetyInv == TypeOK /\ RunOK /\ AcceptOK /\ CommittedOnce /\ SafeInv

LEMMA SafetyInvariant == Spec => []SafetyInv
<1>1. Init => AcceptOK /\ SafeInv
  <2> SUFFICES ASSUME Init PROVE AcceptOK /\ SafeInv
    OBVIOUS
  <2>1. CachedOK /\ AcceptOK
    <3>1. MaxReplay \in Nat
      BY LimitAssumption
    <3> QED
      BY <3>1 DEF Init, CachedOK, KnownOK, CacheIsCurrent, ReplayLogIsContiguous, NoItems,
                  Unknown, AcceptOK, Idle
  <2>2. LocalsOK
    BY DEF Init, Idle, LocalsOK, SeenOK, Reading, LoadedOK, OriginalOK, Reduced, TwinOK,
           AdmittedOK, ValidOK, UncommittedOK
  <2>3. DocumentWellFormed
    BY EmptyWellFormed DEF Init, DocumentWellFormed
  <2> QED
    BY <2>1, <2>2, <2>3 DEF SafeInv
<1>2. TypeOK /\ RunOK /\ AcceptOK /\ CommittedOnce /\ SafeInv /\ [Next]_vars
        => AcceptOK' /\ SafeInv'
  <2> SUFFICES ASSUME TypeOK, RunOK, AcceptOK, CommittedOnce, SafeInv, [Next]_vars
               PROVE  AcceptOK' /\ SafeInv'
    OBVIOUS
  <2>1. CachedOK'
    BY CachedStep DEF SafeInv, LocalsOK
  <2> QED
    BY <2>1, AcceptStep, LocalsStep, DocumentStep DEF SafeInv
<1> QED
  BY <1>1, <1>2, TypeInv, CommittedAtMostOnce, PTL DEF Spec, SafetyInv

\* The document is a tree, although validation reads a part of it from a cache;
\* the cache holds the rows of the revision it claims, and the replay log is a
\* gap-free run that ends there, whatever other authorities commit, whichever
\* transaction fails unclear and whatever is pruned or restarted.
THEOREM StateStaysSound == Spec => []StateIsSound
<1>1. SafetyInv => StateIsSound
  BY DEF SafetyInv, SafeInv, CachedOK, StateIsSound
<1> QED
  BY <1>1, SafetyInvariant, PTL

-----------------------------------------------------------------------------
(***************************************************************************)
(* The verdicts on a command.                                              *)
(***************************************************************************)
\* A command that gets its receipt here or elsewhere is admitted by the rows
\* it replaces.
LEMMA CommitStep ==
  ASSUME SafetyInv, [Next]_vars, NEW c \in Commands, receipts[c] = 0, receipts'[c] # 0
  PROVE  /\ exists /\ UNCHANGED exists
         /\ GuardsHold(Ops(c), items) /\ Altered(Ops(c), items) # {}
         /\ items' = Result(Ops(c), items) /\ WellFormed(items')
         /\ Catalogue[c].base <= revision
         /\ history' = Append(history, c) /\ revision' = revision + 1
         /\ UNCHANGED answers
<1>0. receipts \in [Commands -> Nat] /\ revision \in Nat
  BY DEF SafetyInv, TypeOK, StoreType
<1>1. CASE UNCHANGED durable \/ \E d \in Deletions : CommitDeletion(d) /\ exists /\ DeleteRows
  BY <1>1 DEF durable, DeleteRows
<1>2. CASE ApplyMutations /\ Ready /\ WriteRows
  <2>1. c = By
    BY <1>0, <1>2 DEF WriteRows
  <2> QED
    BY <1>2, <2>1, WriteRowsResult DEF SafetyInv, WriteRows, ApplyMutations, callers
<1>3. CASE CommitElsewhere
  <2>1. PICK b \in Commands :
          /\ Catalogue[b].base <= revision /\ Elsewhere(Ops(b))
          /\ history' = Append(history, b)
          /\ receipts' = [receipts EXCEPT ![b] = revision + 1]
    BY <1>3 DEF CommitElsewhere
  <2>2. c = b
    BY <1>0, <2>1
  <2> QED
    BY <2>1, <2>2 DEF Elsewhere, callers
<1> QED
  BY <1>1, <1>2, <1>3, DurableStep

\* A command that is told REJECTED now is not in the history.
LEMMA RejectStep ==
  ASSUME SafetyInv, [Next]_vars, NEW c \in Commands, Rejected \in answers'[c] \ answers[c]
  PROVE  receipts[c] = 0 \/ spent.foreign > 0
<1>0. answers \in [Commands -> SUBSET Answer] /\ queue \in Seq(Task)
  BY DEF SafetyInv, TypeOK, CallerType, CanvasType
<1>1. ASSUME UNCHANGED answers PROVE FALSE
  BY <1>1
<1>2. ASSUME NEW a, Reply(a), a # Rejected PROVE FALSE
  <2>1. answers' = [answers EXCEPT ![By] = @ \cup {a}]
    BY <1>2 DEF Reply
  <2> QED
    BY <1>0, <1>2, <2>1
<1>3. Retry # Rejected /\ \A r : Committed(r) # Rejected
  <2>1. Retry.status = "retry" /\ Rejected.status = "rejected"
    BY DEF Retry, Rejected
  <2>2. \A r : Committed(r).status = "committed"
    BY DEF Committed
  <2> QED
    BY <2>1, <2>2
<1>4. ASSUME NEW step \in {"revision", "load", "recheck", "validate", "revalidate", "apply"},
             At(step), Reply(Rejected)
      PROVE  receipts[c] = 0 \/ spent.foreign > 0
  <2>1. receipts[By] = 0 \/ spent.foreign > 0
    BY <1>4 DEF At, SafetyInv, SafeInv, LocalsOK, UncommittedOK
  <2>2. answers' = [answers EXCEPT ![By] = @ \cup {Rejected}]
    BY <1>4 DEF Reply
  <2>3. c = By
    BY <1>0, <2>2
  <2> QED
    BY <2>1, <2>3
<1>5. CASE StartCommand \/ AcceptResult \/ ResyncAfterFailure \/ ReadFails
  BY <1>1, <1>2, <1>3, <1>5 DEF StartCommand, AcceptResult, ResyncAfterFailure, ReadFails
<1>6. CASE ReadRevision \/ LoadItems \/ CheckGuards \/ Validate \/ CheckRevision
           \/ RevisionConflict
  BY <1>1, <1>2, <1>3, <1>4, <1>6
  DEF ReadRevision, LoadItems, CheckGuards, Validate, CheckRevision, RevisionConflict
<1>7. CASE ServeRelease
  <2>1. answers'[c] \subseteq answers[c] \cup {Retry}
    BY <1>7 DEF ServeRelease
  <2> QED
    BY <1>3, <2>1
<1>8. CASE \/ ApplyMutations \/ CommitElsewhere \/ Restart \/ ServeBegin \/ ServeAbort
           \/ ServeSnapshot \/ ServeSubscribe \/ UNCHANGED vars
  BY <1>1, <1>8 DEF ApplyMutations, CommitElsewhere, Elsewhere, Restart, ServeBegin,
     ServeAbort, ServeSnapshot, ServeSubscribe, Serve, Refuse, vars, callers
<1>9. ASSUME NEW b \in Commands, Execute(b) PROVE FALSE
  BY <1>1, <1>9 DEF Execute
<1>10. ASSUME NEW s \in Readers, GetSnapshot(s) \/ Subscribe(s) \/ ReadStream(s) \/ Return(s)
       PROVE  FALSE
  BY <1>1, <1>10 DEF GetSnapshot, Subscribe, Request, ReadStream, Return, StreamStep, callers
<1>11. ASSUME NEW d \in Deletions,
              PlanDeletion(d) \/ BeginDeletion(d) \/ DeletionStep(d) \/ Interrupt(d)
       PROVE  FALSE
  BY <1>1, <1>11 DEF PlanDeletion, BeginDeletion, Interrupt, DeletionStep, DisposeChats,
     CommitDeletion, ReleaseDeleted
<1> QED
  BY <1>5, <1>6, <1>7, <1>8, <1>9, <1>10, <1>11 DEF Next, QueueStep, ExecuteStep

\* Both verdicts on a command are decided by the store: a commit by the rows it
\* replaces, although its guards were evaluated on cached rows several awaits
\* earlier, and a rejection by the absence of the command.
THEOREM VerdictsStayTrue == Spec => VerdictsAreTrue
<1>1. SafetyInv /\ [Next]_vars
        => [\A c \in Commands : receipts[c] = 0 /\ receipts'[c] # 0 =>
              /\ GuardsHold(Ops(c), items)
              /\ items' = Result(Ops(c), items)
              /\ Catalogue[c].base <= revision]_vars
  BY CommitStep
<1>2. SafetyInv /\ [Next]_vars
        => [\A c \in Commands :
              Rejected \in answers'[c] \ answers[c] => receipts[c] = 0 \/ spent.foreign > 0]_vars
  BY RejectStep
<1> QED
  BY <1>1, <1>2, SafetyInvariant, PTL
  DEF Spec, VerdictsAreTrue, CommitIsAdmissible, RejectedIsNotCommitted

-----------------------------------------------------------------------------
(***************************************************************************)
(* CanvasAuthority implements CanvasContract: whatever the queue, the      *)
(* cache, the attempts, unclear transactions, restarts, deletions and      *)
(* other authorities do, clients see one linear history in which a command *)
(* is at most once, applied to the document that admitted it.              *)
(***************************************************************************)

\* The commands that some caller has been told are committed.
Acknowledged == {c \in Commands : \E a \in answers[c] : a.status = "committed"}

\* The contract reads documents with the operators the authority uses.
LEMMA SameDocuments ==
  ASSUME NEW ops, NEW document
  PROVE  /\ Contract!Result(ops, document) = Result(ops, document)
         /\ Contract!Altered(ops, document) = Altered(ops, document)
         /\ Contract!GuardsHold(ops, document) <=> GuardsHold(ops, document)
         /\ Contract!WellFormed(document) <=> WellFormed(document)
         /\ Contract!EmptyDocument = EmptyDocument
<1>1. \A o, x : /\ Contract!Apply(o, x) = Apply(o, x)
                /\ Contract!Alters(o, x) <=> Alters(o, x)
                /\ Contract!GuardHolds(o, x) <=> GuardHolds(o, x)
  BY DEF Contract!Apply, Apply, Contract!Alters, Alters, Contract!GuardHolds, GuardHolds,
         Contract!Absent, Absent
<1>2. Contract!Present(document) = Present(document)
  BY DEF Contract!Present, Present
<1>3. Contract!WellFormed(document) <=> WellFormed(document)
  BY <1>2 DEF Contract!WellFormed, WellFormed, Contract!NoCycleAmong, NoCycleAmong
<1>4. Contract!EmptyDocument = EmptyDocument
  BY DEF Contract!EmptyDocument, EmptyDocument, Contract!Absent, Absent
<1>5. Contract!Altered(ops, document) = Altered(ops, document)
  BY <1>1 DEF Contract!Altered, Altered
<1>6. Contract!Result(ops, document) = Result(ops, document)
  BY <1>1 DEF Contract!Result, Result
<1>7. Contract!GuardsHold(ops, document) <=> GuardsHold(ops, document)
  BY <1>1 DEF Contract!GuardsHold, GuardsHold
<1> QED
  BY <1>3, <1>4, <1>5, <1>6, <1>7

\* A command without a receipt is not in the history, one with a receipt is.
LEMMA LoggedIsReceipt ==
  ASSUME SafetyInv, NEW c \in Commands
  PROVE  Contract!Logged(c) <=> receipts[c] # 0
<1>1. history \in Seq(Commands \cup {Foreign}) /\ DOMAIN history = 1 .. Len(history)
  BY LenProperties DEF SafetyInv, TypeOK, StoreType
<1>2. CommittedOnce
  BY DEF SafetyInv
<1> QED
  BY <1>1, <1>2 DEF Contract!Logged, CommittedOnce

\* Acknowledgements only grow, and a new one is of a command of the history.
LEMMA AcknowledgedStep ==
  ASSUME SafetyInv, AcknowledgedIsCommitted, [Next]_vars
  PROVE  \/ Acknowledged' = Acknowledged
         \/ /\ \E c \in Commands : Contract!Logged(c) /\ Acknowledged' = Acknowledged \cup {c}
            /\ UNCHANGED durable
<1>0. answers \in [Commands -> SUBSET Answer] /\ queue \in Seq(Task)
  BY DEF SafetyInv, TypeOK, CallerType, CanvasType
<1>1. CASE UNCHANGED answers
  BY <1>1 DEF Acknowledged
<1>2. ASSUME NEW a, Reply(a), a.status # "committed"
      PROVE  Acknowledged' = Acknowledged
  BY <1>0, <1>2 DEF Reply, Acknowledged
<1>3. ASSUME NEW r, Reply(Committed(r)), By \in Commands, receipts[By] # 0, UNCHANGED durable
      PROVE  \E c \in Commands : Contract!Logged(c) /\ Acknowledged' = Acknowledged \cup {c}
  <2>1. Contract!Logged(By)
    BY <1>3, LoggedIsReceipt
  <2>2. Committed(r).status = "committed"
    BY DEF Committed
  <2>3. answers' = [answers EXCEPT ![By] = @ \cup {Committed(r)}]
    BY <1>3 DEF Reply
  <2>4. Acknowledged' = Acknowledged \cup {By}
    BY <1>0, <1>3, <2>2, <2>3 DEF Acknowledged
  <2> QED
    BY <1>3, <2>1, <2>4
<1>4. Retry.status # "committed" /\ Rejected.status # "committed"
  BY DEF Retry, Rejected
<1>5. CASE StartCommand
  <2>1. By \in Commands /\ UNCHANGED durable
    BY <1>0, <1>5, HeadTask DEF StartCommand, At
  <2> QED
    BY <1>1, <1>2, <1>3, <1>4, <1>5, <2>1 DEF StartCommand
<1>6. CASE AcceptResult
  <2>1. By \in Commands /\ receipts[By] # 0 /\ UNCHANGED durable
    BY <1>6 DEF AcceptResult, At, SafetyInv, AcceptOK
  <2> QED
    BY <1>1, <1>2, <1>3, <1>4, <1>6, <2>1 DEF AcceptResult
<1>7. CASE ReadRevision \/ LoadItems \/ CheckGuards \/ Validate \/ CheckRevision
           \/ RevisionConflict \/ ResyncAfterFailure \/ ReadFails
  BY <1>1, <1>2, <1>4, <1>7 DEF ReadRevision, LoadItems, CheckGuards, Validate, CheckRevision,
     RevisionConflict, ResyncAfterFailure, ReadFails
<1>8. CASE ServeRelease
  <2>1. \A c \in Commands : answers'[c] \in {answers[c], answers[c] \cup {Retry}}
    BY <1>8 DEF ServeRelease
  <2> QED
    BY <1>4, <2>1 DEF Acknowledged
<1>9. CASE ApplyMutations \/ CommitElsewhere \/ Restart \/ ServeBegin \/ ServeAbort
            \/ ServeSnapshot \/ ServeSubscribe \/ UNCHANGED vars
  BY <1>1, <1>9 DEF ApplyMutations, CommitElsewhere, Elsewhere, Restart, ServeBegin,
     ServeAbort, ServeSnapshot, ServeSubscribe, Serve, Refuse, vars, callers
<1>10. ASSUME NEW c \in Commands, Execute(c) PROVE UNCHANGED answers
  BY <1>10 DEF Execute
<1>11. ASSUME NEW s \in Readers, GetSnapshot(s) \/ Subscribe(s) \/ ReadStream(s) \/ Return(s)
       PROVE  UNCHANGED answers
  BY <1>11 DEF GetSnapshot, Subscribe, Request, ReadStream, Return, StreamStep, callers
<1>12. ASSUME NEW d \in Deletions,
              PlanDeletion(d) \/ BeginDeletion(d) \/ DeletionStep(d) \/ Interrupt(d)
       PROVE  UNCHANGED answers
  BY <1>12 DEF PlanDeletion, BeginDeletion, Interrupt, DeletionStep, DisposeChats,
     CommitDeletion, ReleaseDeleted
<1> QED
  BY <1>1, <1>5, <1>6, <1>7, <1>8, <1>9, <1>10, <1>11, <1>12 DEF Next, QueueStep, ExecuteStep

\* The initial state of the authority is that of the contract.
LEMMA ContractInit == Init => Contract!Init
  BY SameDocuments DEF Init, Contract!Init

\* A command that gets its receipt is a commit of the contract.
LEMMA ContractCommit ==
  ASSUME SafetyInv, [Next]_vars, NEW c \in Commands, receipts[c] = 0, receipts'[c] # 0
  PROVE  Contract!Commit(c)
<1>1. /\ exists /\ UNCHANGED exists
      /\ GuardsHold(Ops(c), items) /\ Altered(Ops(c), items) # {}
      /\ items' = Result(Ops(c), items) /\ WellFormed(items')
      /\ Catalogue[c].base <= revision
      /\ history' = Append(history, c)
      /\ UNCHANGED answers
  BY CommitStep
<1>2. ~Contract!Logged(c)
  BY LoggedIsReceipt
<1>3. Catalogue[c].base <= Len(history)
  BY <1>1 DEF SafetyInv, CommittedOnce
<1> QED
  BY <1>1, <1>2, <1>3, SameDocuments DEF Contract!Commit, Ops

\* Every step of the authority is a step of the contract, or invisible in it.
LEMMA ContractStep ==
  ASSUME SafetyInv, AcknowledgedIsCommitted, [Next]_vars
  PROVE  [Contract!Next]_(Contract!contractVars)
<1>1. CASE UNCHANGED durable
  <2>1. UNCHANGED <<exists, items, history>>
    BY <1>1 DEF durable
  <2>2. CASE Acknowledged' = Acknowledged
    BY <2>1, <2>2 DEF Contract!contractVars, Acknowledged
  <2>3. ASSUME NEW c \in Commands, Contract!Logged(c), Acknowledged' = Acknowledged \cup {c}
        PROVE  Contract!Acknowledge(c)
    BY <2>1, <2>3 DEF Contract!Acknowledge, Acknowledged
  <2> QED
    BY <2>2, <2>3, AcknowledgedStep DEF Contract!Next
<1>2. CASE ApplyMutations /\ Ready /\ WriteRows
  <2>1. By \in Commands /\ receipts[By] = 0 /\ receipts'[By] # 0
    <3>1. By \in Commands /\ receipts[By] = 0
      BY <1>2, WriteRowsResult DEF SafetyInv
    <3> QED
      BY <1>2, <3>1 DEF WriteRows, SafetyInv, TypeOK, StoreType
  <2> QED
    BY <2>1, ContractCommit DEF Contract!Next
<1>3. CASE CommitElsewhere
  <2>1. ASSUME NEW ops \in ForeignBatches, Elsewhere(ops), history' = Append(history, Foreign)
        PROVE  Contract!CommitElsewhere(ops)
    BY <2>1, SameDocuments DEF Contract!CommitElsewhere, Elsewhere, callers
  <2>2. ASSUME NEW c \in Commands, receipts[c] = 0,
               receipts' = [receipts EXCEPT ![c] = revision + 1]
        PROVE  Contract!Commit(c)
    <3>1. receipts'[c] # 0
      BY <2>2 DEF SafetyInv, TypeOK, StoreType
    <3> QED
      BY <2>2, <3>1, ContractCommit
  <2> QED
    BY <1>3, <2>1, <2>2 DEF CommitElsewhere, Contract!Next
<1>4. ASSUME NEW d \in Deletions, CommitDeletion(d), exists, DeleteRows
      PROVE  Contract!Delete
  BY <1>4, SameDocuments DEF CommitDeletion, DeleteRows, Contract!Delete
<1> QED
  BY <1>1, <1>2, <1>3, <1>4, DurableStep DEF Contract!Next

\* The authority implements the contract, for every catalogue of commands, any
\* number of readers, deletions, failures and restarts.
THEOREM AuthorityImplementsContract == Spec => ImplementsContract
<1>1. Init => Contract!Init
  BY ContractInit
<1>2. SafetyInv /\ AcknowledgedIsCommitted /\ [Next]_vars
        => [Contract!Next]_(Contract!contractVars)
  BY ContractStep
<1> QED
  BY <1>1, <1>2, SafetyInvariant, AcknowledgementsAreTrue, PTL
  DEF Spec, ImplementsContract, Contract!Spec
-----------------------------------------------------------------------------
(***************************************************************************)
(* The event streams.  A stream is in order by itself; that its end is the *)
(* revision the authority knows needs the queue, the running command and   *)
(* the deletions.                                                          *)
(***************************************************************************)
\* The revision a reader has reached once it has taken its first k events.
Reached(r, k) == IF k = 0 THEN r.position.revision ELSE r.stream[k].revision
End(r) == Reached(r, Len(r.stream))

\* Every items-changed event follows the one before it.
InOrder(r) ==
  \A k \in 1 .. Len(r.stream) :
    r.stream[k].type = "items-changed" => r.stream[k].revision = Reached(r, k - 1) + 1

\* A consumer waits only on an open stream it has emptied.
WaitingOK(r) == r.waiting => r.phase = "open" /\ r.stream = <<>>

\* A reader has one request in the queue, and no open stream meanwhile.
Requests == {"snapshot", "subscribe"}
RequestsOK ==
  /\ \A k \in DOMAIN queue : queue[k].kind \in Requests =>
       reader[queue[k].by].phase \in {"reading", "opening"}
  /\ \A j, k \in DOMAIN queue :
       queue[j].kind \in Requests /\ queue[k].kind \in Requests /\ queue[j].by = queue[k].by
         => j = k

\* An aborted deletion forgets the known revision and keeps the streams open;
\* without another authority the store still has the revision they end at.
Undisturbed == Deletions = {} \/ spent.foreign = 0
ExistsOK == Deletions = {} => exists
CurrentOK ==
  spent.foreign = 0 =>
    /\ known # Unknown /\ run.at \notin {"accept", "unclear"} => known = revision
    /\ run.at = "accept" => run.result = revision

\* An open stream ends at the revision the authority knows.
LevelOK(r) ==
  r.phase = "open" =>
    /\ InOrder(r)
    /\ IF known = Unknown THEN Deletions # {} /\ End(r) = revision ELSE End(r) = known

StreamsOK ==
  \A s \in Readers : WaitingOK(reader[s]) /\ (Undisturbed => LevelOK(reader[s]))

StreamInv == RequestsOK /\ ExistsOK /\ CurrentOK /\ StreamsOK

-----------------------------------------------------------------------------
(***************************************************************************)
(* One stream.                                                             *)
(***************************************************************************)
\* Taking an event leaves the end of the stream where it is (next()).
LEMMA TakenInOrder ==
  ASSUME NEW r \in Reader, r.stream # <<>>, NEW x, x.stream = Tail(r.stream),
         x.position.revision = Head(r.stream).revision
  PROVE  /\ End(x) = End(r)
         /\ InOrder(r) => InOrder(x)
<1> DEFINE e == Head(r.stream)
<1>1. /\ r.stream \in Seq(Event) /\ e \in Event /\ Len(r.stream) \in Nat \ {0}
      /\ Tail(r.stream) \in Seq(Event) /\ Len(Tail(r.stream)) = Len(r.stream) - 1
      /\ r.stream[1] = e
      /\ \A k \in 1 .. Len(r.stream) - 1 : Tail(r.stream)[k] = r.stream[k + 1]
  BY HeadTailProperties, EmptySeq, LenProperties DEF Reader
<1>2. x.stream = Tail(r.stream) /\ x.position.revision = e.revision
  OBVIOUS
<1> HIDE DEF e
<1> DEFINE n == Len(r.stream)
<1>3. \A k \in 0 .. n - 1 : Reached(x, k) = Reached(r, k + 1)
  <2>0. PICK t : t = x.stream
    OBVIOUS
  <2>1. ASSUME NEW k \in 1 .. n - 1
        PROVE  Reached(x, k) = Reached(r, k + 1)
    <3>1. k # 0 /\ k + 1 # 0
      BY <1>1, <2>1
    <3>2. t[k] = r.stream[k + 1]
      BY <1>1, <1>2, <2>0, <2>1
    <3> QED
      BY <2>0, <3>1, <3>2 DEF Reached
  <2>2. Reached(x, 0) = Reached(r, 1)
    BY <1>1, <1>2 DEF Reached
  <2>3. \A k \in 0 .. n - 1 : k = 0 \/ k \in 1 .. n - 1
    BY <1>1
  <2>4. 0 + 1 = 1
    OBVIOUS
  <2> QED
    BY <2>1, <2>2, <2>3, <2>4
<1>4. End(x) = End(r)
  <2>1. Len(x.stream) = n - 1 /\ n - 1 \in 0 .. n - 1 /\ (n - 1) + 1 = n
    BY <1>1, <1>2
  <2> QED
    BY <1>3, <2>1 DEF End
<1>5. ASSUME InOrder(r) PROVE InOrder(x)
  <2> SUFFICES ASSUME NEW k \in 1 .. Len(x.stream), x.stream[k].type = "items-changed"
               PROVE  x.stream[k].revision = Reached(x, k - 1) + 1
    BY DEF InOrder
  <2>1. k + 1 \in 1 .. Len(r.stream) /\ k \in 1 .. Len(r.stream) - 1 /\ k - 1 \in 0 .. Len(r.stream) - 1
    BY <1>1, <1>2
  <2>2. x.stream[k] = r.stream[k + 1] /\ Reached(x, k - 1) = Reached(r, (k - 1) + 1)
    BY <1>1, <1>2, <1>3, <2>1
  <2>3. r.stream[k + 1].revision = Reached(r, (k + 1) - 1) + 1
    BY <1>5, <2>1, <2>2 DEF InOrder
  <2>4. (k + 1) - 1 = (k - 1) + 1
    BY <2>1
  <2> QED
    BY <2>2, <2>3, <2>4
<1> QED
  BY <1>4, <1>5

\* An event that is pushed becomes the end of the stream; the revision after
\* the end may be pushed as a change, any other only as a resync
\* (#pushSubscriber).
PushedTo(r, e) ==
  IF r.phase # "open" THEN r
  ELSE IF r.waiting
  THEN [Received(r, e) EXCEPT !.waiting = FALSE]
  ELSE IF Len(r.stream) >= MaxReplay
  THEN [r EXCEPT !.stream = <<Resync(e.revision)>>]
  ELSE [r EXCEPT !.stream = Append(@, e)]

LEMMA PushedInOrder ==
  ASSUME NEW r \in Reader, NEW e \in Event, WaitingOK(r), NEW x, x = PushedTo(r, e)
  PROVE  /\ WaitingOK(x) /\ x.phase = r.phase
         /\ r.phase = "open" => End(x) = e.revision
         /\ r.phase = "open" /\ InOrder(r)
              /\ (e.type = "items-changed" => e.revision = End(r) + 1) => InOrder(x)
<1>1. r.stream \in Seq(Event) /\ Len(r.stream) \in Nat
  BY LenProperties DEF Reader
<1>2. CASE r.phase # "open"
  BY <1>2 DEF PushedTo
<1>3. CASE r.phase = "open" /\ r.waiting
  <2>1. /\ x.phase = "open" /\ ~x.waiting /\ x.stream = <<>>
        /\ x.position.revision = e.revision
    BY <1>3 DEF PushedTo, Received, Resync, Reader, WaitingOK
  <2>2. Len(x.stream) = 0
    BY <2>1, EmptySeq
  <2> QED
    BY <1>3, <2>1, <2>2 DEF WaitingOK, End, Reached, InOrder
<1>4. CASE r.phase = "open" /\ ~r.waiting /\ Len(r.stream) >= MaxReplay
  <2>1. x.phase = "open" /\ ~x.waiting /\ x.stream = <<Resync(e.revision)>>
    BY <1>4 DEF PushedTo, Reader
  <2>2. Len(x.stream) = 1 /\ x.stream[1] = Resync(e.revision)
    BY <2>1
  <2>3. x.stream[1].revision = e.revision /\ x.stream[1].type # "items-changed"
    BY <2>2 DEF Resync
  <2> QED
    BY <1>4, <2>1, <2>2, <2>3 DEF WaitingOK, End, Reached, InOrder
<1>5. CASE r.phase = "open" /\ ~r.waiting /\ ~(Len(r.stream) >= MaxReplay)
  <2>1. /\ x.phase = "open" /\ ~x.waiting /\ x.stream = Append(r.stream, e)
        /\ x.position = r.position
    BY <1>5 DEF PushedTo, Reader
  <2>2. /\ Len(x.stream) = Len(r.stream) + 1 /\ x.stream[Len(r.stream) + 1] = e
        /\ \A k \in 1 .. Len(r.stream) : x.stream[k] = r.stream[k]
    BY <1>1, <2>1, AppendProperties
  <2>3. \A k \in 0 .. Len(r.stream) : Reached(x, k) = Reached(r, k)
    BY <1>1, <2>1, <2>2 DEF Reached
  <2>4. End(x) = e.revision
    BY <1>1, <2>2 DEF End, Reached
  <2>5. ASSUME InOrder(r), e.type = "items-changed" => e.revision = End(r) + 1
        PROVE  InOrder(x)
    <3> SUFFICES ASSUME NEW k \in 1 .. Len(x.stream), x.stream[k].type = "items-changed"
                 PROVE  x.stream[k].revision = Reached(x, k - 1) + 1
      BY DEF InOrder
    <3>1. k - 1 \in 0 .. Len(r.stream)
      BY <1>1, <2>2
    <3>2. CASE k \in 1 .. Len(r.stream)
      BY <2>2, <2>3, <2>5, <3>1, <3>2 DEF InOrder
    <3>3. CASE k = Len(r.stream) + 1
      <4>1. k - 1 = Len(r.stream)
        BY <1>1, <3>3
      <4> QED
        BY <2>2, <2>3, <2>5, <3>1, <3>3, <4>1 DEF End
    <3> QED
      BY <1>1, <2>2, <3>2, <3>3
  <2> QED
    BY <1>5, <2>1, <2>4, <2>5 DEF WaitingOK
<1> QED
  BY <1>2, <1>3, <1>4, <1>5

\* A reader whose stream ended has none (#closeSubscriber).
LEMMA DetachedHasNone ==
  ASSUME NEW r \in Reader
  PROVE  /\ WaitingOK(Detached(r)) /\ Detached(r).phase \in {"ready", "idle"}
  BY DEF Detached, Reader, WaitingOK

\* What a subscriber is replayed leads from the position it named to the current
\* revision (#replayAfter).
LEMMA ReplayInOrder ==
  ASSUME NEW after \in Nat, NEW current \in Nat, NEW log, NEW q,
         q = ReplayAfter(log, after, current),
         NEW x, x.position.revision = after, x.stream = q
  PROVE  InOrder(x) /\ End(x) = current
<1>2. CASE after = current
  <2>1. x.stream = <<>> /\ Len(x.stream) = 0
    BY <1>2, EmptySeq DEF ReplayAfter
  <2> QED
    BY <1>2, <2>1 DEF InOrder, End, Reached
<1>3. CASE after # current /\ Contiguous(log, after, current)
  <2>1. x.stream = [k \in 1 .. current - after |-> Changed(after + k)]
    BY <1>3 DEF ReplayAfter
  <2>2. current > after /\ current - after \in Nat \ {0}
    BY <1>3 DEF Contiguous
  <2>3. Len(x.stream) = current - after
    BY <2>1, <2>2
  <2>4. \A k \in 1 .. current - after : x.stream[k].revision = after + k
    BY <2>1 DEF Changed
  <2>5. \A k \in 0 .. current - after : Reached(x, k) = after + k
    BY <2>2, <2>4 DEF Reached
  <2>6. End(x) = current
    <3>1. End(x) = after + (current - after)
      BY <2>2, <2>3, <2>5 DEF End
    <3> QED
      BY <3>1
  <2>7. InOrder(x)
    <3> SUFFICES ASSUME NEW k \in 1 .. current - after
                 PROVE  x.stream[k].revision = Reached(x, k - 1) + 1
      BY <2>3 DEF InOrder
    <3>1. k - 1 \in 0 .. current - after
      BY <2>2
    <3>2. Reached(x, k - 1) = after + (k - 1) /\ x.stream[k].revision = after + k
      BY <2>4, <2>5, <3>1
    <3> QED
      BY <3>1, <3>2
  <2> QED
    BY <2>6, <2>7
<1>4. CASE after # current /\ ~Contiguous(log, after, current)
  <2>1. x.stream = <<Resync(current)>>
    BY <1>4 DEF ReplayAfter
  <2>2. Len(x.stream) = 1 /\ x.stream[1] = Resync(current)
    BY <2>1
  <2>3. x.stream[1].revision = current /\ x.stream[1].type # "items-changed"
    BY <2>2 DEF Resync
  <2> QED
    BY <2>2, <2>3 DEF InOrder, End, Reached
<1> QED
  BY <1>2, <1>3, <1>4

\* The feed of a reader in order and at the known revision has no gap.
LEMMA LevelHasNoGap ==
  ASSUME TypeOK, StreamsOK, Undisturbed
  PROVE  StreamHasNoGap
<1> SUFFICES ASSUME NEW s \in Readers, reader[s].phase = "open"
             PROVE  /\ \A k \in 1 .. Len(Feed(s)) - 1 :
                         Feed(s)[k + 1].type = "items-changed" =>
                           Feed(s)[k + 1].revision = Feed(s)[k].revision + 1
                    /\ known # Unknown => Feed(s)[Len(Feed(s))].revision = known
  BY DEF StreamHasNoGap
<1> DEFINE r == reader[s]
<1>1. /\ r \in Reader /\ r.stream \in Seq(Event) /\ r.position \in Event
      /\ Len(r.stream) \in Nat
  BY LenProperties DEF TypeOK, CanvasType, Reader
<1>2. InOrder(r) /\ (known # Unknown => End(r) = known)
  BY DEF StreamsOK, LevelOK
<1>3. /\ Len(Feed(s)) = Len(r.stream) + 1
      /\ \A i \in 1 .. Len(r.stream) + 1 :
           Feed(s)[i] = IF i <= 1 THEN r.position ELSE r.stream[i - 1]
  <2>1. <<r.position>> \in Seq(Event) /\ Len(<<r.position>>) = 1 /\ <<r.position>>[1] = r.position
    BY <1>1
  <2>2. /\ Len(Feed(s)) = 1 + Len(r.stream)
        /\ \A i \in 1 .. 1 + Len(r.stream) :
             Feed(s)[i] = IF i <= 1 THEN <<r.position>>[i] ELSE r.stream[i - 1]
    BY <1>1, <2>1, ConcatProperties DEF Feed
  <2>3. \A i \in 1 .. 1 + Len(r.stream) : i <= 1 => <<r.position>>[i] = r.position
    BY <1>1, <2>1
  <2> QED
    BY <1>1, <2>2, <2>3
<1> HIDE DEF r
<1>4. \A i \in 1 .. Len(r.stream) + 1 : Feed(s)[i].revision = Reached(r, i - 1)
  BY <1>1, <1>3 DEF Reached
<1>5. Len(r.stream) + 1 \in 1 .. Len(r.stream) + 1 /\ (Len(r.stream) + 1) - 1 = Len(r.stream)
  BY <1>1
<1>6. Feed(s)[Len(Feed(s))].revision = End(r)
  BY <1>3, <1>4, <1>5 DEF End
<1>7. ASSUME NEW k \in 1 .. Len(Feed(s)) - 1, Feed(s)[k + 1].type = "items-changed"
      PROVE  Feed(s)[k + 1].revision = Feed(s)[k].revision + 1
  <2>1. /\ k \in 1 .. Len(r.stream) /\ k \in 1 .. Len(r.stream) + 1
        /\ k + 1 \in 1 .. Len(r.stream) + 1 /\ ~(k + 1 <= 1) /\ (k + 1) - 1 = k
    BY <1>1, <1>3
  <2>2. Feed(s)[k + 1] = r.stream[k]
    BY <1>3, <2>1
  <2> QED
    BY <1>2, <1>4, <1>7, <2>1, <2>2 DEF InOrder
<1> QED
  BY <1>2, <1>6, <1>7

-----------------------------------------------------------------------------
(***************************************************************************)
(* All streams.                                                            *)
(***************************************************************************)
\* A stream that is left alone, read or ended stays level, as long as the known
\* revision stays and the store does not move away from a stream kept open by
\* an aborted deletion.
LEMMA LevelKept ==
  ASSUME NEW s \in Readers, LevelOK(reader[s]), known' = known,
         revision' = revision \/ known # Unknown \/ Deletions = {},
         \/ reader'[s].phase # "open"
         \/ /\ reader[s].phase = "open" /\ End(reader'[s]) = End(reader[s])
            /\ InOrder(reader[s]) => InOrder(reader'[s])
  PROVE  LevelOK(reader[s])'
<1>1. CASE reader'[s].phase # "open"
  BY <1>1 DEF LevelOK
<1>2. CASE /\ reader'[s].phase = "open" /\ reader[s].phase = "open"
           /\ End(reader'[s]) = End(reader[s])
           /\ InOrder(reader[s]) => InOrder(reader'[s])
  <2>1. PICK r, x : r = reader[s] /\ x = reader'[s]
    OBVIOUS
  <2>2. /\ InOrder(x) /\ End(x) = End(r)
        /\ IF known = Unknown THEN Deletions # {} /\ End(r) = revision ELSE End(r) = known
    BY <1>2, <2>1 DEF LevelOK
  <2>3. IF known' = Unknown THEN Deletions # {} /\ End(x) = revision' ELSE End(x) = known'
    BY <2>2
  <2> QED
    BY <2>1, <2>2, <2>3 DEF LevelOK
<1> QED
  BY <1>1, <1>2

\* So does every stream under a step that touches neither readers nor the known
\* revision.
LEMMA StreamsKept ==
  ASSUME TypeOK, StreamsOK, UNCHANGED <<reader, known>>, Undisturbed' => Undisturbed,
         revision' = revision \/ known # Unknown \/ ~Undisturbed' \/ Deletions = {}
  PROVE  StreamsOK'
<1> SUFFICES ASSUME NEW s \in Readers
             PROVE  WaitingOK(reader'[s]) /\ (Undisturbed' => LevelOK(reader[s])')
  BY DEF StreamsOK
<1>1. reader'[s] = reader[s] /\ WaitingOK(reader[s]) /\ (Undisturbed => LevelOK(reader[s]))
  BY DEF StreamsOK
<1>2. ASSUME Undisturbed' PROVE LevelOK(reader[s])'
  <2>1. CASE reader[s].phase = "open"
    BY <1>1, <1>2, <2>1, LevelKept
  <2>2. CASE reader[s].phase # "open"
    BY <1>1, <1>2, <2>2, LevelKept
  <2> QED
    BY <2>1, <2>2
<1> QED
  BY <1>1, <1>2

\* One reader reads its stream or leaves it, or asks for a snapshot or a stream.
LEMMA OneReader ==
  ASSUME TypeOK, StreamsOK, UNCHANGED <<known, revision>>, Undisturbed' => Undisturbed,
         NEW s \in Readers, NEW x, reader' = [reader EXCEPT ![s] = x], WaitingOK(x),
         \/ x.phase # "open"
         \/ /\ reader[s].phase = "open" /\ End(x) = End(reader[s])
            /\ InOrder(reader[s]) => InOrder(x)
  PROVE  StreamsOK'
<1> SUFFICES ASSUME NEW z \in Readers
             PROVE  WaitingOK(reader'[z]) /\ (Undisturbed' => LevelOK(reader[z])')
  BY DEF StreamsOK
<1>1. WaitingOK(reader[z]) /\ (Undisturbed => LevelOK(reader[z]))
  BY DEF StreamsOK
<1>2. reader'[z] = IF z = s THEN x ELSE reader[z]
  BY DEF TypeOK, CanvasType
<1>3. CASE z = s
  <2>1. reader'[z] = x /\ reader[z] = reader[s]
    BY <1>2, <1>3
  <2>2. \/ reader'[z].phase # "open"
        \/ /\ reader[z].phase = "open" /\ End(reader'[z]) = End(reader[z])
           /\ InOrder(reader[z]) => InOrder(reader'[z])
    BY Zenon, <2>1
  <2> QED
    BY <1>1, <2>1, <2>2, LevelKept
<1>4. CASE z # s
  <2>1. reader'[z] = reader[z]
    BY <1>2, <1>4
  <2>2. \/ reader'[z].phase # "open"
        \/ /\ reader[z].phase = "open" /\ End(reader'[z]) = End(reader[z])
           /\ InOrder(reader[z]) => InOrder(reader'[z])
    BY Zenon, <2>1
  <2> QED
    BY <1>1, <2>1, <2>2, LevelKept
<1> QED
  BY <1>3, <1>4

\* A reader whose stream, if it is open, ends at revision n.
EndsAt(x, n) ==
  /\ WaitingOK(x)
  /\ x.phase = "open" /\ Undisturbed => InOrder(x) /\ End(x) = n

\* What holds of a state in which every open stream ends at the known revision.
LEMMA AllLevel ==
  ASSUME known' # Unknown, Undisturbed' => Undisturbed,
         \A s \in Readers : EndsAt(reader'[s], known')
  PROVE  StreamsOK'
  BY DEF StreamsOK, EndsAt, LevelOK

\* After an event is pushed every open stream ends at its revision.
LEMMA PushedLevel ==
  ASSUME TypeOK, StreamsOK, NEW e \in Event,
         e.type = "items-changed" => known # Unknown /\ e.revision = known + 1
  PROVE  \A s \in Readers :
           /\ EndsAt(Pushed(e)[s], e.revision) /\ Pushed(e)[s].phase = reader[s].phase
           /\ reader[s].phase # "open" => Pushed(e)[s] = reader[s]
<1> SUFFICES ASSUME NEW s \in Readers
             PROVE  /\ EndsAt(Pushed(e)[s], e.revision) /\ Pushed(e)[s].phase = reader[s].phase
                    /\ reader[s].phase # "open" => Pushed(e)[s] = reader[s]
  OBVIOUS
<1>1. PICK r, x : r = reader[s] /\ x = Pushed(e)[s]
  OBVIOUS
<1>2. x = PushedTo(r, e) /\ r \in Reader /\ WaitingOK(r) /\ (Undisturbed => LevelOK(r))
  BY <1>1 DEF Pushed, PushedTo, TypeOK, CanvasType, StreamsOK
<1>3. /\ WaitingOK(x) /\ x.phase = r.phase
      /\ r.phase = "open" => End(x) = e.revision
      /\ r.phase = "open" /\ InOrder(r)
           /\ (e.type = "items-changed" => e.revision = End(r) + 1) => InOrder(x)
  BY <1>2, PushedInOrder
<1>4. r.phase # "open" => x = r
  BY <1>2 DEF PushedTo
<1>5. ASSUME Undisturbed, r.phase = "open"
      PROVE  InOrder(r) /\ (e.type = "items-changed" => e.revision = End(r) + 1)
  BY <1>2, <1>5 DEF LevelOK
<1> QED
  BY <1>1, <1>3, <1>4, <1>5 DEF EndsAt

\* After the readers are told a revision that was read they are level with it.
LEMMA NotifiedLevel ==
  ASSUME TypeOK, StreamsOK
  PROVE  \A s \in Readers :
           /\ EndsAt(Notified(revision)[s], revision)
           /\ Notified(revision)[s].phase = reader[s].phase
           /\ reader[s].phase # "open" => Notified(revision)[s] = reader[s]
<1>1. CASE known \in {revision, Unknown}
  <2>1. Notified(revision) = reader
    BY <1>1 DEF Notified
  <2>2. \A s \in Readers : EndsAt(reader[s], revision)
    BY <1>1 DEF EndsAt, StreamsOK, LevelOK
  <2> QED
    BY <2>1, <2>2
<1>2. CASE known \notin {revision, Unknown}
  <2>1. Resync(revision) \in Event
    BY EventType DEF TypeOK, StoreType
  <2>2. Resync(revision).revision = revision /\ Resync(revision).type # "items-changed"
    BY DEF Resync
  <2>3. Notified(revision) = Pushed(Resync(revision))
    BY <1>2 DEF Notified
  <2> QED
    BY <2>1, <2>2, <2>3, PushedLevel
<1> QED
  BY <1>1, <1>2

\* The streams after the authority took over a revision it read.
LEMMA SynchronizedStreams ==
  ASSUME TypeOK, StreamsOK, Synchronize(revision), UNCHANGED spent, reader' = Notified(revision)
  PROVE  StreamsOK'
<1>1. known' = revision /\ revision # Unknown
  BY DEF Synchronize, TypeOK, StoreType, Unknown
<1>2. Undisturbed' => Undisturbed
  BY DEF Undisturbed
<1> QED
  BY <1>1, <1>2, NotifiedLevel, AllLevel

\* After a resync every stream is level, or closed (#forceResync).
LEMMA ForcedStreams ==
  ASSUME TypeOK, StreamsOK, NEW r \in Nat \cup {Unknown}, ForceResync(r),
         Undisturbed' => Undisturbed
  PROVE  StreamsOK'
<1>1. CASE r = Unknown
  <2>1. \A s \in Readers : reader'[s].phase # "open" /\ WaitingOK(reader'[s])
    <3> SUFFICES ASSUME NEW s \in Readers
                 PROVE  reader'[s].phase # "open" /\ WaitingOK(reader'[s])
      OBVIOUS
    <3>1. reader'[s] = IF reader[s].phase = "open" THEN Detached(reader[s]) ELSE reader[s]
      BY <1>1 DEF ForceResync, Closed
    <3>2. /\ WaitingOK(Detached(reader[s])) /\ Detached(reader[s]).phase # "open"
          /\ WaitingOK(reader[s])
      BY DetachedHasNone DEF TypeOK, CanvasType, StreamsOK
    <3> QED
      BY <3>1, <3>2
  <2> QED
    BY <2>1 DEF StreamsOK, LevelOK
<1>2. CASE r # Unknown
  <2>1. r \in Nat /\ Resync(r) \in Event /\ known' = r /\ reader' = Pushed(Resync(r))
    BY <1>2, EventType DEF ForceResync
  <2>2. Resync(r).revision = r /\ Resync(r).type # "items-changed"
    BY DEF Resync
  <2>3. \A s \in Readers : EndsAt(reader'[s], known')
    BY <2>1, <2>2, PushedLevel
  <2> QED
    BY <1>2, <2>1, <2>3, AllLevel
<1> QED
  BY <1>1, <1>2

\* No stream is open after all are closed.
LEMMA ClosedStreams ==
  ASSUME TypeOK, reader' = [s \in Readers |-> Detached(reader[s])]
  PROVE  StreamsOK'
<1>1. \A s \in Readers : WaitingOK(Detached(reader[s])) /\ Detached(reader[s]).phase # "open"
  BY DetachedHasNone DEF TypeOK, CanvasType
<1>2. \A s \in Readers : reader'[s] = Detached(reader[s])
  OBVIOUS
<1>3. \A s \in Readers : WaitingOK(reader'[s]) /\ reader'[s].phase # "open"
  BY <1>1, <1>2
<1> QED
  BY <1>3 DEF StreamsOK, LevelOK

\* The authority forgets what it knew while streams stay open: the store is
\* still where they end, for want of another authority.
LEMMA ForgottenStreams ==
  ASSUME TypeOK, StreamsOK, CurrentOK, Forget, UNCHANGED <<reader, revision>>,
         Deletions # {}, spent'.foreign = spent.foreign, run.at \notin {"accept", "unclear"}
  PROVE  StreamsOK'
<1>1. Undisturbed' => Undisturbed /\ spent.foreign = 0
  BY DEF Undisturbed
<1> SUFFICES ASSUME NEW s \in Readers
             PROVE  WaitingOK(reader'[s]) /\ (Undisturbed' => LevelOK(reader[s])')
  BY DEF StreamsOK
<1>2. WaitingOK(reader[s]) /\ (Undisturbed => LevelOK(reader[s]))
  BY DEF StreamsOK
<1>3. ASSUME Undisturbed' PROVE LevelOK(reader[s])'
  <2>1. known # Unknown => known = revision
    BY <1>1, <1>3 DEF CurrentOK
  <2>2. reader[s].phase = "open" => InOrder(reader[s]) /\ End(reader[s]) = revision
    BY <1>1, <1>2, <1>3, <2>1 DEF LevelOK
  <2>3. reader'[s] = reader[s] /\ revision' = revision /\ known' = Unknown
    BY DEF Forget
  <2> QED
    BY <2>2, <2>3 DEF LevelOK
<1> QED
  BY <1>2, <1>3

-----------------------------------------------------------------------------
(***************************************************************************)
(* The requests in the queue.                                              *)
(***************************************************************************)
Asking == {"reading", "opening"}

\* Tasks leave the queue; who still asks goes on asking, except the reader
\* whose request is over.
LEMMA RequestsLeft ==
  ASSUME TypeOK, RequestsOK,
         \/ queue' = queue \/ queue' = <<>>
         \/ queue # <<>> /\ queue' = Tail(queue),
         \A s \in Readers : reader[s].phase \in Asking =>
           \/ reader'[s].phase = reader[s].phase \/ queue' = <<>>
           \/ /\ queue # <<>> /\ queue' = Tail(queue)
              /\ Head(queue).kind \in Requests /\ s = By
  PROVE  RequestsOK'
<1>1. \A k \in DOMAIN queue : queue[k].kind \in Requests => queue[k].by \in Readers
  BY DEF TypeOK, CanvasType, Task, Requests
<1>2. CASE queue' = <<>>
  BY <1>2 DEF RequestsOK
<1>3. CASE queue' = queue /\ queue # <<>> /\ queue' # Tail(queue)
  BY <1>1, <1>3 DEF RequestsOK, Asking
<1>4. CASE queue' = Tail(queue) /\ queue # <<>> /\ queue' # <<>>
  <2>1. /\ DOMAIN queue = 1 .. Len(queue) /\ DOMAIN queue' = 1 .. Len(queue) - 1
        /\ Len(queue) \in Nat \ {0}
        /\ \A k \in DOMAIN queue' : k + 1 \in DOMAIN queue /\ queue'[k] = queue[k + 1]
        /\ queue[1] = Head(queue)
    BY <1>4, TasksAfterTail DEF TypeOK, CanvasType
  <2>2. 1 \in DOMAIN queue /\ \A k \in DOMAIN queue' : k + 1 # 1
    BY <2>1
  <2>3. ASSUME NEW k \in DOMAIN queue', queue'[k].kind \in Requests
        PROVE  reader'[queue'[k].by].phase \in Asking
    <3>1. /\ k + 1 \in DOMAIN queue /\ queue[k + 1].kind \in Requests
          /\ queue'[k].by = queue[k + 1].by
      BY <2>1, <2>3
    <3>2. reader[queue[k + 1].by].phase \in Asking /\ queue[k + 1].by \in Readers
      BY <1>1, <3>1 DEF RequestsOK, Asking
    <3>3. Head(queue).kind \in Requests => queue[k + 1].by # By
      BY <2>1, <2>2, <3>1 DEF RequestsOK, By
    <3> QED
      BY <1>4, <3>1, <3>2, <3>3
  <2>4. ASSUME NEW j \in DOMAIN queue', NEW k \in DOMAIN queue',
               queue'[j].kind \in Requests, queue'[k].kind \in Requests,
               queue'[j].by = queue'[k].by
        PROVE  j = k
    <3>1. j + 1 = k + 1
      BY <2>1, <2>4 DEF RequestsOK
    <3> QED
      BY <2>1, <3>1
  <2> QED
    BY <2>3, <2>4 DEF RequestsOK, Asking
<1>5. CASE queue' = queue /\ queue = <<>>
  BY <1>5 DEF RequestsOK
<1>6. CASE queue' = queue /\ queue' = Tail(queue) /\ queue # <<>>
  <2>1. queue' # queue
    BY <1>6, HeadTailProperties, LenProperties DEF TypeOK, CanvasType
  <2> QED
    BY <1>6, <2>1
<1> QED
  BY <1>2, <1>3, <1>4, <1>5, <1>6

\* A task joins the queue; if it is a request, its reader had none.
LEMMA RequestsJoined ==
  ASSUME TypeOK, RequestsOK, NEW t, queue' = Append(queue, t),
         \A s \in Readers : reader[s].phase \in Asking => reader'[s].phase = reader[s].phase,
         t.kind \in Requests =>
           /\ t.by \in Readers
           /\ reader[t.by].phase \notin Asking /\ reader'[t.by].phase \in Asking
  PROVE  RequestsOK'
<1>1. \A k \in DOMAIN queue : queue[k].kind \in Requests => queue[k].by \in Readers
  BY DEF TypeOK, CanvasType, Task, Requests
<1>2. /\ DOMAIN queue = 1 .. Len(queue) /\ DOMAIN queue' = 1 .. Len(queue) + 1
      /\ Len(queue) \in Nat
      /\ \A k \in DOMAIN queue : queue'[k] = queue[k]
      /\ queue'[Len(queue) + 1] = t
  BY TasksAfterAppend DEF TypeOK, CanvasType
<1>3. \A k : k \in DOMAIN queue' <=> k \in DOMAIN queue \/ k = Len(queue) + 1
  BY <1>2
<1>4. \A k \in DOMAIN queue : queue[k].kind \in Requests =>
        reader[queue[k].by].phase \in Asking /\ reader'[queue[k].by].phase \in Asking
  BY <1>1 DEF RequestsOK, Asking
<1>5. \A k \in DOMAIN queue : queue[k].kind \in Requests /\ t.kind \in Requests
        => queue[k].by # t.by
  BY <1>4
<1>6. \A k \in DOMAIN queue' : queue'[k].kind \in Requests =>
        reader'[queue'[k].by].phase \in Asking
  BY <1>2, <1>3, <1>4
<1>7. \A j, k \in DOMAIN queue' :
        queue'[j].kind \in Requests /\ queue'[k].kind \in Requests /\ queue'[j].by = queue'[k].by
          => j = k
  BY <1>2, <1>3, <1>5 DEF RequestsOK
<1> QED
  BY <1>6, <1>7 DEF RequestsOK, Asking

\* No step of a command changes a reader without a stream.
LEMMA ExecuteLeavesReaders ==
  ASSUME TypeOK, StreamsOK, ExecuteStep
  PROVE  /\ \A s \in Readers : reader[s].phase \in Asking => reader'[s].phase = reader[s].phase
         /\ queue' = queue \/ (queue # <<>> /\ queue' = Tail(queue))
<1>1. queue' = queue \/ (queue # <<>> /\ queue' = Tail(queue))
  BY DEF ExecuteStep, StartCommand, ReadRevision, LoadItems, CheckGuards, Validate,
     CheckRevision, ApplyMutations, RevisionConflict, AcceptResult, ResyncAfterFailure,
     ReadFails, At, Reply, Done, Goto, NextAttempt
<1>2. \/ UNCHANGED reader
      \/ reader' = Notified(revision)
      \/ reader' = Closed
      \/ \E r : reader' \in {Pushed(Resync(r)), Pushed(Changed(r))}
  BY DEF ExecuteStep, StartCommand, ReadRevision, LoadItems, CheckGuards, Validate,
     CheckRevision, ApplyMutations, RevisionConflict, AcceptResult, ResyncAfterFailure,
     ReadFails, ForceResync
<1>3. \A e : \A s \in Readers :
        reader[s].phase \in Asking => Pushed(e)[s] = reader[s] /\ Closed[s] = reader[s]
  BY DEF Pushed, Closed, Asking
<1>4. \A s \in Readers : reader[s].phase \in Asking => Notified(revision)[s] = reader[s]
  BY <1>3 DEF Notified
<1> QED
  BY <1>1, <1>2, <1>3, <1>4

\* Every step keeps the requests and the readers in agreement.
LEMMA RequestsStep ==
  ASSUME TypeOK, StreamsOK, RequestsOK, [Next]_vars
  PROVE  RequestsOK'
<1>0. reader \in [Readers -> Reader] /\ queue \in Seq(Task)
  BY DEF TypeOK, CanvasType
<1>1. CASE ExecuteStep
  BY <1>1, ExecuteLeavesReaders, RequestsLeft
<1>2. ASSUME NEW kind \in Requests, Refuse(kind) PROVE RequestsOK'
  <2>1. \A s \in Readers : s # By => reader'[s] = reader[s]
    BY <1>0, <1>2 DEF Refuse
  <2> QED
    BY <1>2, <2>1, RequestsLeft DEF Refuse, Turn, Done
<1>3. CASE ServeSnapshot
  <2>1. "snapshot" \in Requests
    BY DEF Requests
  <2>2. CASE /\ Serve("snapshot") /\ Readable(items)
             /\ reader' = [Notified(revision) EXCEPT
                             ![By].phase = "ready", ![By].position = Changed(revision)]
    <3>1. \A s \in Readers : s # By => reader'[s].phase = reader[s].phase
      BY <1>0, <2>2, NotifiedLevel, NotifiedType DEF TypeOK, StoreType
    <3> QED
      BY <2>1, <2>2, <3>1, RequestsLeft DEF Serve, Turn, Done
  <2> QED
    BY <1>2, <1>3, <2>1, <2>2 DEF ServeSnapshot
<1>4. CASE ServeSubscribe
  <2>1. "subscribe" \in Requests
    BY DEF Requests
  <2>2. CASE /\ Serve("subscribe")
             /\ reader' = [Notified(revision) EXCEPT
                     ![By].phase = "open",
                     ![By].stream = ReplayAfter(events', reader[By].position.revision,
                                                revision)]
    <3>1. \A s \in Readers : s # By => reader'[s].phase = reader[s].phase
      BY <1>0, <2>2, NotifiedLevel, NotifiedType DEF TypeOK, StoreType
    <3> QED
      BY <2>1, <2>2, <3>1, RequestsLeft DEF Serve, Turn, Done
  <2> QED
    BY <1>2, <1>4, <2>1, <2>2 DEF ServeSubscribe
<1>5. CASE ServeBegin \/ ServeAbort
  BY <1>5, RequestsLeft DEF ServeBegin, ServeAbort, Turn, Done
<1>6. CASE ServeRelease \/ Restart
  BY <1>6, RequestsLeft DEF ServeRelease, Restart
<1>7. ASSUME NEW c \in Commands, Execute(c) PROVE RequestsOK'
  <2>1. "execute" \notin Requests
    BY DEF Requests
  <2> QED
    BY <1>7, <2>1, RequestsJoined DEF Execute, Enqueue
<1>8. ASSUME NEW s \in Readers, NEW kind \in Requests, NEW to \in Asking,
             Request(s, kind, {"idle", "ready"}, to) \/ Request(s, kind, {"ready"}, to)
      PROVE  RequestsOK'
  <2>1. /\ queue' = Append(queue, [kind |-> kind, by |-> s])
        /\ reader[s].phase \notin Asking
        /\ reader'[s].phase = to /\ \A z \in Readers : z # s => reader'[z] = reader[z]
    BY <1>0, <1>8 DEF Request, Enqueue, Asking, Reader
  <2> QED
    BY <2>1, RequestsJoined
<1>9. ASSUME NEW s \in Readers, GetSnapshot(s) \/ Subscribe(s) PROVE RequestsOK'
  BY <1>8, <1>9 DEF GetSnapshot, Subscribe, Requests, Asking
<1>10. ASSUME NEW s \in Readers, ReadStream(s) \/ Return(s) PROVE RequestsOK'
  <2>1. /\ reader[s].phase = "open" /\ queue' = queue
        /\ \A z \in Readers : z # s => reader'[z] = reader[z]
    BY <1>0, <1>10 DEF ReadStream, Return, StreamStep
  <2> QED
    BY <2>1, RequestsLeft DEF Asking
<1>11. ASSUME NEW d \in Deletions,
              PlanDeletion(d) \/ BeginDeletion(d) \/ DeletionStep(d) \/ Interrupt(d)
       PROVE  RequestsOK'
  <2>1. /\ UNCHANGED reader
        /\ \/ UNCHANGED queue
           \/ \E kind \in DeletionKinds : queue' = Append(queue, [kind |-> kind, by |-> d])
    BY <1>11 DEF PlanDeletion, BeginDeletion, Interrupt, DeletionStep, DisposeChats,
       CommitDeletion, ReleaseDeleted, AbortDeletion, Enqueue, DeletionKinds
  <2>2. \A kind \in DeletionKinds : kind \notin Requests
    BY DEF DeletionKinds, Requests
  <2> QED
    BY <2>1, <2>2, RequestsLeft, RequestsJoined
<1>12. CASE CommitElsewhere \/ UNCHANGED vars
  BY <1>12, RequestsLeft DEF CommitElsewhere, Elsewhere, vars
<1> QED
  BY <1>1, <1>3, <1>4, <1>5, <1>6, <1>7, <1>9, <1>10, <1>11, <1>12 DEF Next, QueueStep

-----------------------------------------------------------------------------
(***************************************************************************)
(* The steps.                                                              *)
(***************************************************************************)
\* Only another authority raises the count of foreign commits.
LEMMA ForeignStep ==
  ASSUME TypeOK, [Next]_vars
  PROVE  IF CommitElsewhere THEN spent'.foreign > 0 /\ spent.foreign \in Nat
         ELSE spent'.foreign = spent.foreign
<1>0. spent \in [{"foreign", "fault", "restart", "interrupt"} -> Nat]
  BY DEF TypeOK, CallerType
<1>1. CASE CommitElsewhere
  BY <1>0, <1>1 DEF CommitElsewhere, Elsewhere, Spend
<1>2. ASSUME Spend("fault") \/ Spend("restart") \/ Spend("interrupt") \/ UNCHANGED spent
      PROVE  spent'.foreign = spent.foreign
  BY <1>0, <1>2 DEF Spend
<1>3. ASSUME ExecuteStep
      PROVE  spent'.foreign = spent.foreign
  BY <1>2, <1>3 DEF ExecuteStep, StartCommand, ReadRevision, LoadItems, CheckGuards, Validate,
     CheckRevision, ApplyMutations, RevisionConflict, AcceptResult, ResyncAfterFailure,
     ReadFails
<1>4. ASSUME \/ ServeSnapshot \/ ServeSubscribe \/ ServeBegin \/ ServeAbort \/ ServeRelease
             \/ Restart \/ UNCHANGED vars
      PROVE  spent'.foreign = spent.foreign
  BY <1>2, <1>4 DEF ServeSnapshot, ServeSubscribe, Serve, Refuse, ServeBegin, ServeAbort,
     ServeRelease, Restart, vars
<1>5. ASSUME \/ \E c \in Commands : Execute(c)
             \/ \E s \in Readers : GetSnapshot(s) \/ Subscribe(s) \/ ReadStream(s) \/ Return(s)
      PROVE  spent'.foreign = spent.foreign
  BY <1>5 DEF Execute, GetSnapshot, Subscribe, Request, ReadStream, Return, StreamStep
<1>6. ASSUME NEW d \in Deletions,
             PlanDeletion(d) \/ BeginDeletion(d) \/ DeletionStep(d) \/ Interrupt(d)
      PROVE  spent'.foreign = spent.foreign
  BY <1>2, <1>6 DEF PlanDeletion, BeginDeletion, Interrupt, DeletionStep, DisposeChats,
     CommitDeletion, ReleaseDeleted
<1> QED
  BY <1>1, <1>2, <1>3, <1>4, <1>5, <1>6 DEF Next, QueueStep

\* Only a deletion removes the canvas.
LEMMA ExistsStep ==
  ASSUME ExistsOK, SafetyInv, [Next]_vars
  PROVE  ExistsOK'
  BY DurableStep DEF ExistsOK, durable, WriteRows, CommitElsewhere, Elsewhere

\* What the transaction of a command leaves behind: its result is the revision
\* of the store.
LEMMA ApplyCurrent ==
  ASSUME SafetyInv, ApplyMutations, spent'.foreign = spent.foreign
  PROVE  CurrentOK'
<1>1. run.at = "apply" /\ IsRun(run) /\ UNCHANGED known
  BY DEF ApplyMutations, At, SafetyInv, TypeOK, CanvasType
<1>2. run'.at \in {"accept", "unclear"}
  BY <1>1 DEF ApplyMutations, Outcome, IsRun
<1>3. ASSUME spent'.foreign = 0, run'.at = "accept"
      PROVE  run'.result = revision'
  <2>1. receipts[By] = 0
    BY <1>1, <1>3 DEF SafetyInv, SafeInv, LocalsOK, UncommittedOK, TypeOK, CallerType
  <2>2. Outcome("accept", revision + 1) /\ WriteRows
    <3>1. ASSUME NEW r, Outcome("unclear", r) PROVE FALSE
      BY <1>1, <1>3, <3>1 DEF Outcome, IsRun
    <3> QED
      BY <2>1, <3>1 DEF ApplyMutations
  <2> QED
    BY <1>1, <2>2 DEF Outcome, WriteRows, IsRun
<1> QED
  BY <1>2, <1>3 DEF CurrentOK

\* Without another authority the known revision is that of the store.
LEMMA CurrentStep ==
  ASSUME SafetyInv, CurrentOK, [Next]_vars
  PROVE  CurrentOK'
<1>0. /\ spent.foreign \in Nat /\ IsRun(run) /\ revision \in Nat
      /\ IF CommitElsewhere THEN spent'.foreign > 0 /\ spent.foreign \in Nat
         ELSE spent'.foreign = spent.foreign
  BY ForeignStep DEF SafetyInv, TypeOK, CallerType, CanvasType, StoreType
<1>1. CASE CommitElsewhere
  BY <1>0, <1>1 DEF CurrentOK
<1>2. ASSUME UNCHANGED <<known, revision>>, run' = run, spent'.foreign = spent.foreign
      PROVE  CurrentOK'
  BY <1>2 DEF CurrentOK
<1>3. ASSUME UNCHANGED <<known, revision>>, run.at \notin {"accept", "unclear"},
             run'.at # "accept", spent'.foreign = spent.foreign
      PROVE  CurrentOK'
  BY <1>3 DEF CurrentOK
<1>4. ASSUME known' \in {revision, Unknown}, revision' = revision, run'.at # "accept",
             spent'.foreign = spent.foreign
      PROVE  CurrentOK'
  BY <1>4 DEF CurrentOK
<1>5. ASSUME Done PROVE run'.at # "accept"
  BY <1>5 DEF Done, Idle
<1> SUFFICES ASSUME ~CommitElsewhere, spent'.foreign = spent.foreign PROVE CurrentOK'
  BY <1>0, <1>1
<1>6. CASE ApplyMutations
  BY <1>6, ApplyCurrent
<1>7. CASE StartCommand \/ LoadItems \/ Validate \/ ReadFails
  <2>1. /\ UNCHANGED <<known, revision>> /\ run.at \notin {"accept", "unclear"}
        /\ run'.at # "accept"
    BY <1>0, <1>5, <1>7 DEF StartCommand, LoadItems, Validate, ReadFails, At, Reply, Goto,
       durable, IsRun, Steps
  <2> QED
    BY <1>3, <2>1
<1>8. CASE ReadRevision \/ CheckGuards \/ CheckRevision \/ RevisionConflict
  <2>1. /\ revision' = revision /\ run.at \notin {"accept", "unclear"}
        /\ \/ UNCHANGED known
           \/ known' \in {revision, Unknown}
    BY <1>8 DEF ReadRevision, CheckGuards, CheckRevision, RevisionConflict, At, durable,
       Synchronize, Forget
  <2>2. run'.at # "accept"
    BY <1>0, <1>5, <1>8 DEF ReadRevision, CheckGuards, CheckRevision, RevisionConflict, At,
       Reply, Goto, NextAttempt, IsRun
  <2> QED
    BY <1>3, <1>4, <2>1, <2>2
<1>9. CASE AcceptResult
  <2>1. /\ known' = run.result /\ revision' = revision /\ run.at = "accept" /\ run'.at # "accept"
    BY <1>5, <1>9 DEF AcceptResult, At, Reply, ForceResync, durable
  <2> QED
    BY <2>1 DEF CurrentOK
<1>10. CASE ResyncAfterFailure
  <2>1. known' \in {revision, Unknown} /\ revision' = revision /\ run'.at # "accept"
    BY <1>5, <1>10 DEF ResyncAfterFailure, Reply, ForceResync, durable
  <2> QED
    BY <1>4, <2>1
<1>11. CASE \/ ServeSnapshot \/ ServeSubscribe \/ ServeBegin \/ ServeAbort \/ ServeRelease
            \/ Restart
  <2>1. revision' = revision /\ run'.at # "accept"
    BY <1>5, <1>11 DEF ServeSnapshot, ServeSubscribe, Serve, Refuse, ServeBegin, ServeAbort,
       ServeRelease, Restart, durable, Idle
  <2>2. \/ known' \in {revision, Unknown}
        \/ UNCHANGED known /\ run.at = "start"
    BY <1>11 DEF ServeSnapshot, ServeSubscribe, Serve, Refuse, ServeBegin, ServeAbort,
       ServeRelease, Restart, Turn, Synchronize, Forget
  <2> QED
    BY <1>3, <1>4, <2>1, <2>2
<1>12. ASSUME \/ \E c \in Commands : Execute(c)
              \/ \E s \in Readers : GetSnapshot(s) \/ Subscribe(s) \/ ReadStream(s) \/ Return(s)
       PROVE  CurrentOK'
  BY <1>2, <1>12 DEF Execute, GetSnapshot, Subscribe, Request, ReadStream, Return, StreamStep,
     durable
<1>13. ASSUME NEW d \in Deletions,
              PlanDeletion(d) \/ BeginDeletion(d) \/ DeletionStep(d) \/ Interrupt(d)
       PROVE  CurrentOK'
  BY <1>2, <1>13 DEF PlanDeletion, BeginDeletion, Interrupt, DeletionStep, DisposeChats,
     CommitDeletion, ReleaseDeleted, DeleteRows, durable
<1>14. CASE UNCHANGED vars
  BY <1>2, <1>14 DEF vars, durable
<1> QED
  BY <1>6, <1>7, <1>8, <1>9, <1>10, <1>11, <1>12, <1>13, <1>14 DEF Next, QueueStep, ExecuteStep

\* The end of a snapshot request or of a subscription: the reader has no stream,
\* or one that ends at the revision that was just read.
LEMMA ServedStreams ==
  ASSUME TypeOK, RequestsOK, StreamsOK, ServeSnapshot \/ ServeSubscribe,
         Undisturbed' => Undisturbed
  PROVE  StreamsOK'
<1>0. reader \in [Readers -> Reader] /\ queue \in Seq(Task) /\ revision \in Nat
  BY DEF TypeOK, CanvasType, StoreType
<1>1. ASSUME NEW kind \in Requests, Turn(kind)
      PROVE  By \in Readers /\ reader[By].phase \in Asking
  <2>1. By \in Readers /\ queue # <<>> /\ Head(queue).kind \in Requests
    BY <1>0, <1>1, HeadTask DEF Turn, Requests
  <2>2. 1 \in DOMAIN queue /\ queue[1] = Head(queue)
    BY <1>0, <2>1, HeadTailProperties, EmptySeq, LenProperties
  <2> QED
    BY <2>1, <2>2 DEF RequestsOK, By, Asking
<1>2. ASSUME NEW kind \in Requests, Refuse(kind) PROVE StreamsOK'
  <2>1. /\ By \in Readers /\ UNCHANGED <<known, revision>>
        /\ reader' = [reader EXCEPT ![By] = Detached(reader[By])]
    BY <1>1, <1>2 DEF Refuse, durable
  <2>2. WaitingOK(Detached(reader[By])) /\ Detached(reader[By]).phase # "open"
    BY <1>0, <2>1, DetachedHasNone
  <2> QED
    BY <2>1, <2>2, OneReader
<1>3. ASSUME NEW kind \in Requests, Serve(kind)
      PROVE  /\ By \in Readers /\ reader[By].phase \in Asking /\ ~reader[By].waiting
             /\ known' = revision /\ revision # Unknown
             /\ Notified(revision) \in [Readers -> Reader]
             /\ \A s \in Readers : EndsAt(Notified(revision)[s], revision)
             /\ Notified(revision)[By] = reader[By]
  <2>1. By \in Readers /\ reader[By].phase \in Asking
    BY <1>1, <1>3 DEF Serve
  <2>2. ~reader[By].waiting /\ reader[By].phase # "open"
    BY <1>0, <2>1 DEF StreamsOK, WaitingOK, Asking, Reader
  <2>3. known' = revision /\ revision # Unknown
    BY <1>0, <1>3 DEF Serve, Synchronize, Unknown
  <2> QED
    BY <1>0, <2>1, <2>2, <2>3, NotifiedLevel, NotifiedType
<1>4. ASSUME NEW kind \in Requests, Serve(kind), NEW x,
             reader' = [Notified(revision) EXCEPT ![By] = x], EndsAt(x, revision)
      PROVE  StreamsOK'
  <2>1. \A s \in Readers : EndsAt(reader'[s], known')
    BY <1>3, <1>4
  <2> QED
    BY <1>3, <1>4, <2>1, AllLevel
<1>5. CASE /\ Serve("snapshot")
           /\ reader' = [Notified(revision) EXCEPT
                           ![By].phase = "ready", ![By].position = Changed(revision)]
  <2>1. "snapshot" \in Requests
    BY DEF Requests
  <2>2. PICK x : x = [reader[By] EXCEPT !.phase = "ready", !.position = Changed(revision)]
    OBVIOUS
  <2>3. reader' = [Notified(revision) EXCEPT ![By] = x]
    BY <1>3, <1>5, <2>1, <2>2
  <2>4. x.phase = "ready" /\ ~x.waiting
    BY <1>0, <1>3, <1>5, <2>1, <2>2 DEF Reader
  <2> QED
    BY <1>4, <1>5, <2>1, <2>3, <2>4 DEF EndsAt, WaitingOK
<1>6. CASE /\ Serve("subscribe")
           /\ reader' = [Notified(revision) EXCEPT
                           ![By].phase = "open",
                           ![By].stream = ReplayAfter(events', reader[By].position.revision,
                                                      revision)]
  <2>1. "subscribe" \in Requests
    BY DEF Requests
  <2>2. PICK q : q = ReplayAfter(events', reader[By].position.revision, revision)
    OBVIOUS
  <2>3. PICK x : x = [reader[By] EXCEPT !.phase = "open", !.stream = q]
    OBVIOUS
  <2>4. reader' = [Notified(revision) EXCEPT ![By] = x]
    BY <1>3, <1>6, <2>1, <2>2, <2>3
  <2>5. reader[By] \in Reader /\ ~reader[By].waiting
    BY <1>0, <1>3, <1>6, <2>1
  <2>6. x.phase = "open" /\ ~x.waiting /\ x.stream = q /\ x.position = reader[By].position
    BY <2>3, <2>5 DEF Reader
  <2> HIDE <2>3
  <2>7. InOrder(x) /\ End(x) = revision
    <3>1. PICK after \in Nat, n \in Nat : after = reader[By].position.revision /\ n = revision
      BY <1>0, <2>5 DEF Reader, Event
    <3>2. PICK log : q = ReplayAfter(log, after, n)
      BY <2>2, <3>1
    <3>3. x.position.revision = after /\ x.stream = q
      BY <2>6, <3>1
    <3>4. InOrder(x) /\ End(x) = n
      BY <3>2, <3>3, ReplayInOrder
    <3> QED
      BY <3>1, <3>4
  <2>8. EndsAt(x, revision)
    BY <2>6, <2>7 DEF EndsAt, WaitingOK
  <2> QED
    BY <1>4, <1>6, <2>1, <2>4, <2>8
<1> QED
  BY <1>2, <1>5, <1>6 DEF ServeSnapshot, ServeSubscribe, Requests

\* The consumer of a stream: it reads, waits, leaves or asks again.
LEMMA ConsumerStreams ==
  ASSUME TypeOK, StreamsOK, Undisturbed' => Undisturbed, NEW s \in Readers,
         GetSnapshot(s) \/ Subscribe(s) \/ ReadStream(s) \/ Return(s)
  PROVE  StreamsOK'
<1>0. reader[s] \in Reader /\ WaitingOK(reader[s])
  BY DEF TypeOK, CanvasType, StreamsOK
<1>1. ASSUME NEW kind, NEW from, "open" \notin from, NEW to \in Asking, Request(s, kind, from, to)
      PROVE  StreamsOK'
  <2>1. PICK x : x = [reader[s] EXCEPT !.phase = to]
    OBVIOUS
  <2>2. x.phase = to /\ x.waiting = reader[s].waiting /\ reader[s].phase # "open"
    BY <1>0, <1>1, <2>1 DEF Reader, Request
  <2>3. WaitingOK(x) /\ x.phase # "open"
    BY <1>0, <1>1, <2>2 DEF WaitingOK, Reader, Asking
  <2>4. UNCHANGED <<known, revision>> /\ reader' = [reader EXCEPT ![s] = x]
    BY <1>1, <2>1 DEF Request, durable
  <2> QED
    BY <2>3, <2>4, OneReader
<1>2. CASE GetSnapshot(s) \/ Subscribe(s)
  BY <1>1, <1>2 DEF GetSnapshot, Subscribe, Asking
<1>3. ASSUME NEW x, StreamStep(s, x), WaitingOK(x),
             \/ x.phase # "open"
             \/ End(x) = End(reader[s]) /\ (InOrder(reader[s]) => InOrder(x))
      PROVE  StreamsOK'
  <2>1. /\ UNCHANGED <<known, revision>> /\ reader' = [reader EXCEPT ![s] = x]
        /\ reader[s].phase = "open"
    BY <1>3 DEF StreamStep, durable
  <2>2. \/ x.phase # "open"
        \/ /\ reader[s].phase = "open" /\ End(x) = End(reader[s])
           /\ InOrder(reader[s]) => InOrder(x)
    BY Zenon, <1>3, <2>1
  <2> QED
    BY <1>3, <2>1, <2>2, OneReader
<1>4. CASE Return(s)
  BY <1>0, <1>3, <1>4, DetachedHasNone DEF Return
<1>5. CASE /\ reader[s].stream # <<>>
           /\ StreamStep(s, [Received(reader[s], Head(reader[s].stream))
                               EXCEPT !.stream = Tail(reader[s].stream)])
  <2>1. PICK x : x = [Received(reader[s], Head(reader[s].stream))
                        EXCEPT !.stream = Tail(reader[s].stream)]
    OBVIOUS
  <2>2. /\ x.stream = Tail(reader[s].stream) /\ x.waiting = reader[s].waiting
        /\ x.position.revision = Head(reader[s].stream).revision
    BY <1>0, <2>1 DEF Received, Reader, Resync
  <2>3. End(x) = End(reader[s]) /\ (InOrder(reader[s]) => InOrder(x))
    BY <1>0, <1>5, <2>2, TakenInOrder
  <2>4. WaitingOK(x)
    BY <1>0, <1>5, <2>2 DEF WaitingOK, Reader
  <2> QED
    BY <1>3, <1>5, <2>1, <2>3, <2>4
<1>6. CASE /\ reader[s].stream = <<>>
           /\ StreamStep(s, [reader[s] EXCEPT !.waiting = TRUE])
  <2>1. PICK x : x = [reader[s] EXCEPT !.waiting = TRUE]
    OBVIOUS
  <2>2. /\ x.stream = reader[s].stream /\ x.phase = reader[s].phase
        /\ x.position = reader[s].position
    BY <1>0, <2>1 DEF Reader
  <2>3. WaitingOK(x)
    BY <1>6, <2>2 DEF WaitingOK, StreamStep
  <2> HIDE <2>1
  <2>4. End(x) = End(reader[s]) /\ (InOrder(reader[s]) => InOrder(x))
    BY <2>2 DEF End, InOrder, Reached
  <2> USE <2>1
  <2> QED
    BY <1>3, <1>6, <2>1, <2>3, <2>4
<1>7. CASE ReadStream(s)
  <2>1. Received(reader[s], Head(reader[s].stream)).stream = reader[s].stream
    BY <1>0 DEF Received, Reader
  <2> QED
    BY <1>5, <1>6, <1>7, <2>1 DEF ReadStream
<1> QED
  BY <1>2, <1>4, <1>7

\* Every step keeps the streams level with the authority.
LEMMA StreamsStep ==
  ASSUME SafetyInv, StreamInv, [Next]_vars
  PROVE  StreamsOK'
<1>0. TypeOK /\ RequestsOK /\ ExistsOK /\ CurrentOK /\ StreamsOK
  BY DEF SafetyInv, StreamInv
<1>1. /\ Undisturbed' => Undisturbed
      /\ CommitElsewhere => Deletions = {} \/ ~Undisturbed'
  <2>1. spent.foreign \in Nat /\ (CommitElsewhere => spent'.foreign > 0)
        /\ (~CommitElsewhere => spent'.foreign = spent.foreign)
    BY <1>0, ForeignStep DEF TypeOK, CallerType
  <2>2. CommitElsewhere => spent'.foreign # 0
    BY <2>1
  <2>3. CommitElsewhere => Deletions = {} \/ ~Undisturbed'
    BY Zenon, <2>2 DEF Undisturbed
  <2>4. CASE CommitElsewhere
    BY <2>3, <2>4 DEF Undisturbed
  <2>5. CASE ~CommitElsewhere
    BY <2>1, <2>5 DEF Undisturbed
  <2> QED
    BY <2>3, <2>4, <2>5
<1>2. ASSUME UNCHANGED <<reader, known, revision>> PROVE StreamsOK'
  BY <1>0, <1>1, <1>2, StreamsKept
<1>3. CASE CommitElsewhere
  BY <1>0, <1>1, <1>3, StreamsKept DEF CommitElsewhere, Elsewhere
<1>4. CASE ApplyMutations
  <2>1. known # Unknown
    BY <1>4 DEF ApplyMutations, At, SafetyInv, SafeInv, LocalsOK, SeenOK, Reading, TypeOK,
       CanvasType, IsRun, Unknown
  <2> QED
    BY <1>0, <1>1, <1>4, <2>1, StreamsKept DEF ApplyMutations
<1>5. CASE StartCommand \/ LoadItems \/ Validate \/ ReadFails
  BY <1>2, <1>5 DEF StartCommand, LoadItems, Validate, ReadFails, durable
<1>6. CASE ReadRevision \/ CheckGuards \/ CheckRevision
  <2>1. /\ UNCHANGED <<spent, revision>>
        /\ \/ UNCHANGED <<known, reader>>
           \/ Synchronize(revision) /\ reader' = Notified(revision)
    BY <1>6 DEF ReadRevision, CheckGuards, CheckRevision, durable
  <2> QED
    BY <1>0, <1>2, <2>1, SynchronizedStreams
<1>7. CASE RevisionConflict
  <2>1. /\ UNCHANGED <<spent, revision>> /\ run.at = "apply"
        /\ \/ Synchronize(revision) /\ reader' = Notified(revision)
           \/ ~exists /\ Forget /\ UNCHANGED reader
    BY <1>7 DEF RevisionConflict, At, durable
  <2> QED
    BY <1>0, <2>1, SynchronizedStreams, ForgottenStreams DEF ExistsOK
<1>8. CASE AcceptResult
  <2>1. /\ run.at = "accept" /\ run.result \in Nat /\ run.seen \in Nat /\ known = run.seen
    BY <1>8 DEF AcceptResult, At, SafetyInv, SafeInv, LocalsOK, SeenOK, Reading, TypeOK,
       CanvasType, IsRun
  <2>2. CASE run.result = run.seen + 1
    <3>1. known' = run.result /\ reader' = Pushed(Changed(run.result))
      BY <1>8, <2>2 DEF AcceptResult
    <3>2. /\ Changed(run.result) \in Event /\ Changed(run.result).revision = run.result
          /\ known # Unknown /\ run.result = known + 1 /\ run.result # Unknown
      BY <2>1, <2>2, EventType DEF Changed, Unknown
    <3>3. \A s \in Readers : EndsAt(Pushed(Changed(run.result))[s], run.result)
      BY <1>0, <3>2, PushedLevel
    <3> QED
      BY <1>1, <3>1, <3>2, <3>3, AllLevel
  <2>3. CASE run.result # run.seen + 1
    BY <1>0, <1>1, <1>8, <2>1, <2>3, ForcedStreams DEF AcceptResult
  <2> QED
    BY <2>2, <2>3
<1>9. CASE ResyncAfterFailure
  <2>1. ForceResync(IF exists THEN revision ELSE Unknown) \/ ForceResync(Unknown)
    BY <1>9 DEF ResyncAfterFailure
  <2>2. revision \in Nat
    BY <1>0 DEF TypeOK, StoreType
  <2> QED
    BY <1>0, <1>1, <2>1, <2>2, ForcedStreams
<1>10. CASE ServeSnapshot \/ ServeSubscribe
  BY <1>0, <1>1, <1>10, ServedStreams
<1>11. CASE ServeBegin
  BY <1>2, <1>11 DEF ServeBegin, durable
<1>12. CASE ServeAbort
  <2>1. run.at = "start" /\ By \in Deletions
    BY <1>0, <1>12, HeadTask DEF ServeAbort, Turn, TypeOK, CanvasType
  <2>2. Forget /\ UNCHANGED <<reader, revision, spent>>
    BY <1>12 DEF ServeAbort, durable
  <2> QED
    BY <1>0, <2>1, <2>2, ForgottenStreams
<1>13. CASE ServeRelease \/ Restart
  BY <1>0, <1>13, ClosedStreams DEF ServeRelease, Restart
<1>14. ASSUME NEW c \in Commands, Execute(c) PROVE StreamsOK'
  BY <1>2, <1>14 DEF Execute, durable
<1>15. ASSUME NEW s \in Readers, GetSnapshot(s) \/ Subscribe(s) \/ ReadStream(s) \/ Return(s)
       PROVE  StreamsOK'
  BY <1>0, <1>1, <1>15, ConsumerStreams
<1>16. ASSUME NEW d \in Deletions,
              PlanDeletion(d) \/ BeginDeletion(d) \/ DeletionStep(d) \/ Interrupt(d)
       PROVE  StreamsOK'
  BY <1>2, <1>16 DEF PlanDeletion, BeginDeletion, Interrupt, DeletionStep, DisposeChats,
     CommitDeletion, ReleaseDeleted, DeleteRows, durable
<1>17. CASE UNCHANGED vars
  BY <1>2, <1>17 DEF vars, durable
<1> QED
  BY <1>3, <1>4, <1>5, <1>6, <1>7, <1>8, <1>9, <1>10, <1>11, <1>12, <1>13, <1>14, <1>15, <1>16,
     <1>17 DEF Next, QueueStep, ExecuteStep

LEMMA StreamInit == Init => StreamInv
<1> SUFFICES ASSUME Init PROVE StreamInv
  OBVIOUS
<1>1. RequestsOK
  BY DEF Init, RequestsOK
<1>2. ExistsOK /\ CurrentOK
  BY DEF Init, ExistsOK, CurrentOK, Idle
<1>3. StreamsOK
  BY DEF Init, StreamsOK, WaitingOK, LevelOK
<1> QED
  BY <1>1, <1>2, <1>3 DEF StreamInv

\* Another authority commits only within its budget.
LEMMA ForeignBudget == Spec => [](spent.foreign <= MaxForeign)
<1>1. Init => spent.foreign <= MaxForeign
  BY BoundAssumption DEF Init
<1>2. SafetyInv /\ spent.foreign <= MaxForeign /\ [Next]_vars
        => (spent.foreign <= MaxForeign)'
  <2> SUFFICES ASSUME SafetyInv, spent.foreign <= MaxForeign, [Next]_vars
               PROVE  spent'.foreign <= MaxForeign
    OBVIOUS
  <2>1. CASE CommitElsewhere
    BY <2>1, BoundAssumption
    DEF CommitElsewhere, Elsewhere, Spend, Budget, SafetyInv, TypeOK, CallerType
  <2>2. CASE ~CommitElsewhere
    BY <2>2, ForeignStep DEF SafetyInv
  <2> QED
    BY <2>1, <2>2
<1> QED
  BY <1>1, <1>2, SafetyInvariant, PTL DEF Spec

\* No consumer of a stream misses a commit silently, for every number of
\* readers and every limit of their queues and of the replay log.  With both
\* deletions that are aborted and another authority that commits to the same
\* store this is not so: the abort forgets the revision the streams end at.
THEOREM StreamsHaveNoGap ==
  ASSUME Deletions = {} \/ MaxForeign = 0
  PROVE  Spec => []StreamHasNoGap
<1>1. Init => StreamInv
  BY StreamInit
<1>2. SafetyInv /\ StreamInv /\ [Next]_vars => StreamInv'
  BY RequestsStep, ExistsStep, CurrentStep, StreamsStep DEF StreamInv, SafetyInv
<1>3. SafetyInv /\ StreamInv /\ spent.foreign <= MaxForeign => StreamHasNoGap
  <2> SUFFICES ASSUME SafetyInv, StreamInv, spent.foreign <= MaxForeign
               PROVE  StreamHasNoGap
    OBVIOUS
  <2>1. spent.foreign \in Nat
    BY DEF SafetyInv, TypeOK, CallerType
  <2>2. Undisturbed
    <3>1. CASE Deletions = {}
      BY <3>1 DEF Undisturbed
    <3>2. CASE MaxForeign = 0
      BY <2>1, <3>2 DEF Undisturbed
    <3> QED
      BY <3>1, <3>2
  <2> QED
    BY <2>2, LevelHasNoGap DEF SafetyInv, StreamInv
<1> QED
  BY <1>1, <1>2, <1>3, SafetyInvariant, ForeignBudget, PTL DEF Spec
================================================================================
