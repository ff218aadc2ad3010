---------------------------- MODULE CanvasDocument ----------------------------
(***************************************************************************)
(* The client of one canvas: CanvasDocumentService with its                *)
(* CanvasSyncSupervisor, against an authority that commits commands of     *)
(* this client and of others.  A local mutation is shown at once, kept as  *)
(* pending and sent by a fiber of the serial lane; commits come back twice,*)
(* as the answer of the command and on the event stream, in either order;  *)
(* whatever does not fit starts a recovery, which drops what is pending,   *)
(* opens a new generation and reloads a snapshot.                          *)
(*                                                                         *)
(* An item is its value and its revision.  Structure (children that follow *)
(* a deleted parent), images and the engine's own scene are left out.      *)
(***************************************************************************)
EXTENDS Naturals, Sequences, FiniteSets, SequencesExt

CONSTANTS
  Items,      \* items of the canvas
  Ids,        \* command identifiers of this client
  Edits,      \* what a user may ask for: items to "set" or to "remove"
  RemoteIds,  \* commands of other clients
  RemoteEdit, \* RemoteEdit[r]: items that r sets or removes
  Absent,     \* the value of an item that does not exist
  None,
  Capacity,   \* entries the undo history keeps
  MaxFaults   \* bound: requests, answers and streams that fail

ASSUME EditAssumption ==
  /\ \A e \in Edits : DOMAIN e \subseteq Items /\ DOMAIN e # {}
                      /\ \A i \in DOMAIN e : e[i] \in {"set", "remove"}
  /\ \A r \in RemoteIds : DOMAIN RemoteEdit[r] \subseteq Items
                          /\ \A i \in DOMAIN RemoteEdit[r] : RemoteEdit[r][i] \in {"set", "remove"}

ASSUME NameAssumption ==
  /\ Ids \cap RemoteIds = {} /\ Absent \notin Ids \cup RemoteIds
  /\ None \notin Ids \cup RemoteIds

ASSUME BoundAssumption == Capacity \in Nat \ {0} /\ MaxFaults \in Nat

VARIABLES
  log,        \* the authority: each commit and the document it left
  accepted,   \* acceptedRevision and acceptedItems
  seen,       \* acceptedCommandIds
  shown,      \* authored and optimistic nodes
  pending,    \* pending transactions, oldest first
  image,      \* image[c]: the nodes of transaction c before and after it
  undo, redo, \* CanvasDocumentHistory
  generation, \* outboxGeneration
  recovery,   \* recoveryPending, and what the reload is at
  fiber,      \* fiber[c]: the operation that enqueuePending forked for c
  lane,       \* operations forked and not finished, oldest first
  stream,     \* consumeEventsEffect
  faults

document == <<accepted, seen, shown, pending, image, undo, redo>>
vars == <<log, document, generation, recovery, fiber, lane, stream, faults>>

Values == Ids \cup RemoteIds \cup {Absent}
Row == [val : Values, rev : Nat]
NoRow == [val |-> Absent, rev |-> 0]

Revision == Len(log)
Doc(r) == IF r = 0 THEN [i \in Items |-> NoRow] ELSE log[r].doc
Targets(r) == {i \in Items : Doc(r)[i] # Doc(r - 1)[i]}
Vals(doc) == [i \in Items |-> doc[i].val]

\* What an edit with identifier c makes of the values of the items it touches.
Image(e, c) == [i \in DOMAIN e |-> IF e[i] = "set" THEN c ELSE Absent]
Over(doc, new) == [i \in Items |-> IF i \in DOMAIN new THEN new[i] ELSE doc[i]]
Part(doc, S) == [i \in S |-> doc[i]]

Affected(c) == DOMAIN image[c].after
IsPending(c) == \E k \in DOMAIN pending : pending[k] = c
Recovering == recovery.at # "no"

Images == UNION {[S -> Values] : S \in SUBSET Items}
Entry == [before : Images, after : Images]

\* What an operation is at, its generation, the revision it was answered, the
\* recovery it waits for, and the revisions that guard its removals.
Fiber ==
  [at : {"idle", "queued", "sent", "committed", "refused", "late", "failed", "done"},
   gen : Nat, rev : Nat, gate : Nat, guards : [Items -> Nat]]

TypeOK ==
  /\ log \in Seq([cmd : Ids \cup RemoteIds, doc : [Items -> Row]])
  /\ accepted \in [rev : Nat, items : [Items -> Row]]
  /\ seen \subseteq Ids \cup RemoteIds
  /\ shown \in [Items -> Values]
  /\ pending \in Seq(Ids) /\ image \in [Ids -> Entry]
  /\ {undo, redo} \subseteq Seq(Entry) /\ Len(undo) + Len(redo) <= Capacity
  /\ generation \in Nat
  /\ recovery \in [at : {"no", "asked", "answered"}, count : Nat,
                   rev : Nat, items : [Items -> Row]]
  /\ fiber \in [Ids -> Fiber]
  /\ lane \in Seq(Ids)
  /\ stream \in [open : BOOLEAN, cursor : Nat]
  /\ faults \in Nat

Init ==
  /\ log = <<>>
  /\ accepted = [rev |-> 0, items |-> Doc(0)] /\ seen = {}
  /\ shown = Vals(Doc(0))
  /\ pending = <<>>
  /\ image = [c \in Ids |-> [before |-> <<>>, after |-> <<>>]]
  /\ undo = <<>> /\ redo = <<>>
  /\ generation = 0
  /\ recovery = [at |-> "no", count |-> 0, rev |-> 0, items |-> Doc(0)]
  /\ fiber = [c \in Ids |-> [at |-> "idle", gen |-> 0, rev |-> 0, gate |-> 0,
                             guards |-> [i \in Items |-> 0]]]
  /\ lane = <<>>
  /\ stream = [open |-> FALSE, cursor |-> 0]
  /\ faults = 0

Fault == faults < MaxFaults /\ faults' = faults + 1

\* scheduleRecovery: what is pending is dropped, its fibers belong to an old
\* generation, and a reload begins.  A recovery in progress stays as it is.
Recover ==
  IF Recovering THEN UNCHANGED <<generation, recovery, pending, undo, redo>>
  ELSE /\ generation' = generation + 1
       /\ recovery' = [recovery EXCEPT !.at = "asked", !.count = @ + 1]
       /\ pending' = <<>> /\ undo' = <<>> /\ redo' = <<>>

-----------------------------------------------------------------------------
(***************************************************************************)
(* Local mutations.                                                        *)
(***************************************************************************)
Ready == ~Recovering

\* The mutation is shown, kept as pending and given to the serial lane.
Mutate(c, new) ==
  /\ shown' = Over(shown, new)
  /\ image' = [image EXCEPT ![c] = [before |-> Part(shown, DOMAIN new), after |-> new]]
  /\ pending' = Append(pending, c)
  /\ fiber' = [fiber EXCEPT ![c].at = "queued", ![c].gen = generation]
  /\ lane' = Append(lane, c)
  /\ UNCHANGED <<log, accepted, seen, generation, recovery, stream, faults>>

Changed(new) == {i \in DOMAIN new : shown[i] # new[i]}

Record(entry) ==
  LET longer == Append(undo, entry) IN
    /\ undo' = IF Len(longer) > Capacity THEN Tail(longer) ELSE longer
    /\ redo' = <<>>

Commit(c, e) ==
  /\ Ready /\ fiber[c].at = "idle"
  /\ Changed(Image(e, c)) = DOMAIN e
  /\ Mutate(c, Image(e, c))
  /\ Record([before |-> Part(shown, DOMAIN e), after |-> Image(e, c)])

\* An undo is a mutation of its own that brings back what the entry had
\* before; redo brings back what it had after.
Undo(c) ==
  /\ Ready /\ fiber[c].at = "idle" /\ undo # <<>>
  /\ LET entry == undo[Len(undo)]  S == Changed(entry.before) IN
       /\ S # {}
       /\ Mutate(c, Part(entry.before, S))
       /\ undo' = SubSeq(undo, 1, Len(undo) - 1) /\ redo' = Append(redo, entry)

Redo(c) ==
  /\ Ready /\ fiber[c].at = "idle" /\ redo # <<>>
  /\ LET entry == redo[Len(redo)]  S == Changed(entry.after) IN
       /\ S # {}
       /\ Mutate(c, Part(entry.after, S))
       /\ redo' = SubSeq(redo, 1, Len(redo) - 1) /\ undo' = Append(undo, entry)

\* The engine refuses the mutation after the document accepted it.
EngineFails ==
  /\ Ready /\ Fault /\ Recover
  /\ UNCHANGED <<log, accepted, seen, shown, image, fiber, lane, stream>>

-----------------------------------------------------------------------------
(***************************************************************************)
(* acceptEvent: commit r comes back, as the answer to "mine" or on the     *)
(* stream (mine = None).                                                   *)
(***************************************************************************)
Own(r) == IsPending(log[r].cmd)
Effects(r) == {i \in Targets(r) : shown[i] # Doc(r)[i].val}
OthersTouch(c) == UNION {Affected(p) : p \in {pending[k] : k \in DOMAIN pending} \ {c}}

Overlaps(r) == ~Own(r) /\ Effects(r) \cap OthersTouch(None) # {}

\* Mutant: a gap between revisions is accepted.
FitsAfterGap(r, mine) ==
  /\ log[r].cmd \notin seen
  /\ mine # None => Own(r)
  /\ Own(r) => Affected(log[r].cmd) = Targets(r)
  /\ ~Overlaps(r)

Fits(r, mine) ==
  /\ log[r].cmd \notin seen
  /\ r = accepted.rev + 1
  /\ mine # None => log[r].cmd = mine /\ Own(r)
  /\ Own(r) => Affected(log[r].cmd) = Targets(r)
  /\ ~Overlaps(r)

Stale(r) == r <= accepted.rev
Throws(r, mine) ==
  IF Stale(r) THEN mine # None /\ IsPending(mine) ELSE ~Fits(r, mine)

\* Mutant: later mutations of this client are overwritten by an earlier one.
ProtectedNone(r) == {}

Protected(r) == IF Own(r) THEN OthersTouch(log[r].cmd) ELSE {}

Touches(stack, S) ==
  \E k \in DOMAIN stack : (DOMAIN stack[k].before \cup DOMAIN stack[k].after) \cap S # {}

\* Mutant: history is kept although another client changed what it restores.
ForgetsNothing(r) == FALSE

Forgets(r) == ~Own(r) /\ (Touches(undo, Effects(r)) \/ Touches(redo, Effects(r)))

Retires(r) == RemoveFirst(pending, log[r].cmd)

Install(r) ==
  /\ shown' = [i \in Items |->
                 IF i \in Targets(r) \ Protected(r) THEN Doc(r)[i].val ELSE shown[i]]
  /\ accepted' = [rev |-> r,
                  items |-> [i \in Items |-> IF i \in Targets(r) THEN Doc(r)[i]
                                             ELSE accepted.items[i]]]
  /\ seen' = seen \cup {log[r].cmd}
  /\ pending' = Retires(r)
  /\ undo' = IF Forgets(r) THEN <<>> ELSE undo
  /\ redo' = IF Forgets(r) THEN <<>> ELSE redo
  /\ UNCHANGED <<generation, recovery>>

Take(r, mine) ==
  /\ IF Throws(r, mine) THEN Recover /\ UNCHANGED <<shown, accepted, seen>>
     ELSE IF Stale(r)
     THEN UNCHANGED <<shown, accepted, seen, pending, undo, redo, generation, recovery>>
     ELSE Install(r)
  /\ UNCHANGED <<log, image, faults>>

-----------------------------------------------------------------------------
(***************************************************************************)
(* enqueuePending: one fiber per command, one at a time in each generation *)
(* of the serial lane.                                                     *)
(***************************************************************************)
Put(c, at) == fiber' = [fiber EXCEPT ![c].at = at]
End(c) == Put(c, "done") /\ lane' = RemoveFirst(lane, c)

\* A failed fiber waits for the recovery it asked for.
Fail(c) ==
  /\ fiber' = [fiber EXCEPT ![c].at = "failed", ![c].gate = recovery'.count]
  /\ UNCHANGED lane

Current(c) == fiber[c].gen = generation
HasLane(c) ==
  \E k \in DOMAIN lane : /\ lane[k] = c
                         /\ \A j \in 1 .. k - 1 : fiber[lane[j]].gen # fiber[c].gen

Removed(c) == {i \in Affected(c) : image[c].after[i] = Absent}

\* The command is built from what is accepted when its turn comes: a removal
\* is guarded by the revision of the item, an insert and a patch by what
\* they replace.
Dispatch(c) ==
  /\ fiber[c].at = "queued" /\ HasLane(c)
  /\ IF ~Current(c) \/ ~IsPending(c)
     THEN End(c) /\ UNCHANGED <<generation, recovery, pending, undo, redo>>
     ELSE IF \E i \in Removed(c) : accepted.items[i].val = Absent
     THEN Recover /\ Fail(c)
     ELSE /\ fiber' = [fiber EXCEPT ![c].at = "sent",
                         ![c].guards = [i \in Items |->
                            IF i \in Removed(c) THEN accepted.items[i].rev ELSE 0]]
          /\ UNCHANGED <<generation, recovery, pending, undo, redo, lane>>
  /\ UNCHANGED <<log, accepted, seen, shown, image, stream, faults>>

After(doc, new) ==
  [i \in Items |->
     IF i \notin DOMAIN new THEN doc[i]
     ELSE IF new[i] = Absent THEN NoRow
     ELSE [val |-> new[i], rev |-> doc[i].rev + 1]]

Admits(doc, c) ==
  \A i \in Affected(c) :
    IF i \in Removed(c) THEN doc[i].rev = fiber[c].guards[i]
    ELSE doc[i].val = image[c].before[i]

\* The authority decides on a command, and the decision may not come back.
Execute(c) ==
  /\ fiber[c].at = "sent"
  /\ IF Admits(Doc(Revision), c)
     THEN /\ log' = Append(log, [cmd |-> c, doc |-> After(Doc(Revision), image[c].after)])
          /\ \/ /\ fiber' = [fiber EXCEPT ![c].at = "committed", ![c].rev = Revision + 1]
                /\ UNCHANGED faults
             \/ Fault /\ Put(c, "refused")
     ELSE Put(c, "refused") /\ UNCHANGED <<log, faults>>
  /\ UNCHANGED <<document, generation, recovery, lane, stream>>

RequestLost(c) ==
  /\ fiber[c].at = "sent" /\ Fault /\ Put(c, "refused")
  /\ UNCHANGED <<log, document, generation, recovery, lane, stream>>

\* The answer arrives: for a command that was dropped or that the stream
\* brought already, it is an event like any other, once no recovery runs.
Answer(c) ==
  /\ fiber[c].at = "committed"
  /\ LET mine == IF Current(c) /\ IsPending(c) THEN c ELSE None IN
       IF mine = None /\ Recovering
       THEN /\ fiber' = [fiber EXCEPT ![c].at = "late", ![c].gate = recovery.count]
            /\ UNCHANGED <<log, document, generation, recovery, lane, faults>>
       ELSE /\ Take(fiber[c].rev, mine)
            /\ IF Throws(fiber[c].rev, mine) THEN Fail(c) ELSE End(c)
  /\ UNCHANGED stream

\* Mutant: a refused command is retired and nothing else happens.
RefusedQuietly(c) ==
  /\ fiber[c].at = "refused"
  /\ End(c) /\ pending' = RemoveFirst(pending, c)
  /\ UNCHANGED <<log, accepted, seen, shown, image, undo, redo, generation, recovery,
                 stream, faults>>

Refused(c) ==
  /\ fiber[c].at = "refused"
  /\ IF Current(c) THEN Recover
     ELSE UNCHANGED <<generation, recovery, pending, undo, redo>>
  /\ IF Recovering' THEN Fail(c) ELSE End(c)
  /\ UNCHANGED <<log, accepted, seen, shown, image, stream, faults>>

GateOpen(c) == ~Recovering \/ recovery.count # fiber[c].gate

AnswerLate(c) ==
  /\ fiber[c].at = "late" /\ GateOpen(c)
  /\ Take(fiber[c].rev, None)
  /\ IF Throws(fiber[c].rev, None) THEN Fail(c) ELSE End(c)
  /\ UNCHANGED stream

Resume(c) ==
  /\ fiber[c].at = "failed" /\ GateOpen(c)
  /\ End(c)
  /\ UNCHANGED <<log, document, generation, recovery, stream, faults>>

-----------------------------------------------------------------------------
(***************************************************************************)
(* The event stream.  It may end, and it may say that it lost its place.   *)
(***************************************************************************)
\* Mutant: the stream is opened at the end of the log.
SubscribeAtEnd ==
  /\ ~stream.open /\ ~Recovering
  /\ stream' = [open |-> TRUE, cursor |-> Revision]
  /\ UNCHANGED <<log, document, generation, recovery, fiber, lane, faults>>

Subscribe ==
  /\ ~stream.open /\ ~Recovering
  /\ stream' = [open |-> TRUE, cursor |-> accepted.rev]
  /\ UNCHANGED <<log, document, generation, recovery, fiber, lane, faults>>

Close == stream' = [stream EXCEPT !.open = FALSE]

NextEvent ==
  /\ stream.open /\ stream.cursor < Revision
  /\ IF Recovering
     THEN Close /\ UNCHANGED <<log, document, generation, recovery, faults>>
     ELSE /\ Take(stream.cursor + 1, None)
          /\ IF Throws(stream.cursor + 1, None) THEN Close
             ELSE stream' = [stream EXCEPT !.cursor = @ + 1]
  /\ UNCHANGED <<fiber, lane>>

StreamEnds ==
  /\ stream.open /\ Fault /\ Close
  /\ UNCHANGED <<log, document, generation, recovery, fiber, lane>>

Resync ==
  /\ stream.open /\ Fault /\ Close /\ Recover
  /\ UNCHANGED <<log, accepted, seen, shown, image, fiber, lane>>

-----------------------------------------------------------------------------
(***************************************************************************)
(* The reload of a recovery, tried until it succeeds.                      *)
(***************************************************************************)
ReadSnapshot ==
  /\ recovery.at = "asked"
  /\ recovery' = [recovery EXCEPT !.at = "answered", !.rev = Revision,
                                  !.items = Doc(Revision)]
  /\ UNCHANGED <<log, document, generation, fiber, lane, stream, faults>>

SnapshotFails ==
  /\ Recovering /\ Fault
  /\ recovery' = [recovery EXCEPT !.at = "asked"]
  /\ UNCHANGED <<log, document, generation, fiber, lane, stream>>

InstallSnapshot ==
  /\ recovery.at = "answered"
  /\ accepted' = [rev |-> recovery.rev, items |-> recovery.items]
  /\ shown' = Vals(recovery.items)
  /\ undo' = <<>> /\ redo' = <<>>
  /\ recovery' = [recovery EXCEPT !.at = "no"]
  /\ UNCHANGED <<log, seen, pending, image, generation, fiber, lane, stream, faults>>

-----------------------------------------------------------------------------
\* Another client of the same canvas.
Remote(r) ==
  /\ \A k \in DOMAIN log : log[k].cmd # r
  /\ \A i \in DOMAIN RemoteEdit[r] :
       RemoteEdit[r][i] = "remove" => Doc(Revision)[i].val # Absent
  /\ log' = Append(log, [cmd |-> r,
                         doc |-> After(Doc(Revision), Image(RemoteEdit[r], r))])
  /\ UNCHANGED <<document, generation, recovery, fiber, lane, stream, faults>>

Edit == \E c \in Ids : Undo(c) \/ Redo(c) \/ \E e \in Edits : Commit(c, e)

Send(c) == Dispatch(c) \/ Answer(c) \/ Refused(c) \/ AnswerLate(c) \/ Resume(c)

Next ==
  \/ Edit \/ EngineFails
  \/ \E c \in Ids : Send(c) \/ Execute(c) \/ RequestLost(c)
  \/ Subscribe \/ NextEvent \/ StreamEnds \/ Resync
  \/ ReadSnapshot \/ SnapshotFails \/ InstallSnapshot
  \/ \E r \in RemoteIds : Remote(r)

Spec == Init /\ [][Next]_vars

\* Fibers run on, the authority answers, the stream is consumed and opened
\* again, a reload is tried until it works.  Nobody has to edit.
Fairness ==
  /\ \A c \in Ids : WF_vars(Send(c)) /\ WF_vars(Execute(c))
  /\ WF_vars(Subscribe) /\ WF_vars(NextEvent)
  /\ WF_vars(ReadSnapshot) /\ WF_vars(InstallSnapshot)

FairSpec == Spec /\ Fairness

-----------------------------------------------------------------------------
(***************************************************************************)
(* Properties.                                                             *)
(***************************************************************************)
\* The accepted items are the document of the accepted revision, although
\* they are put together from snapshots, answers and events
\* (CanvasDocumentService.acceptEvent, installSnapshot).
AcceptedIsCommitted ==
  accepted.rev <= Revision /\ accepted.items = Doc(accepted.rev)

Overlay(doc) ==
  [i \in Items |->
     LET touching == {k \in DOMAIN pending : i \in Affected(pending[k])} IN
       IF touching = {} THEN doc[i]
       ELSE LET last == CHOOSE k \in touching : \A j \in touching : j <= k
            IN  image[pending[last]].after[i]]

\* What the user sees is what is accepted and, on top of it, every mutation
\* that is still pending, in the order in which they were made.
ShownIsAcceptedAndPending == ~Recovering => shown = Overlay(Vals(accepted.items))

\* Undo and redo find the nodes as the entry left them: a mutation of another
\* client never slips between an entry and its inverse unnoticed.
HistoryMatches ==
  ~Recovering =>
    /\ undo # <<>> => LET e == undo[Len(undo)] IN e.after = Part(shown, DOMAIN e.after)
    /\ redo # <<>> => LET e == redo[Len(redo)] IN e.before = Part(shown, DOMAIN e.before)

\* The answer of a command that is pending is never behind the accepted
\* revision, for another command, about other items, or of a command seen
\* before: acceptEvent throws for a gap or an overlap only.
AnswersMakeSense ==
  \A c \in Ids :
    fiber[c].at = "committed" /\ Current(c) /\ IsPending(c) =>
      /\ ~Stale(fiber[c].rev) /\ c \notin seen
      /\ Affected(c) = Targets(fiber[c].rev)

\* The accepted revision never goes back, although a snapshot is read at one
\* moment and installed at another and late answers are accepted in between.
NeverGoesBack == [][accepted'.rev >= accepted.rev]_vars

\* A mutation stops being pending because its commit was accepted, or because
\* a recovery drops it in the open: it is never dropped silently.
NothingDroppedSilently ==
  [][\A c \in Ids : IsPending(c) /\ ~IsPending(c)' => c \in seen' \/ Recovering']_vars

\* What the runs check together of answers, revisions and drops.
AnswersAreTakenRight == []AnswersMakeSense /\ NeverGoesBack /\ NothingDroppedSilently
\* ... and of the history, bounded by its capacity (TypeOK).
HistoryIsSound == TypeOK /\ HistoryMatches

\* When users stop editing, the client shows what the authority committed.
Converged ==
  /\ pending = <<>> /\ ~Recovering
  /\ accepted.rev = Revision /\ shown = Vals(Doc(Revision))
Converges == <>[]Converged
=============================================================================
