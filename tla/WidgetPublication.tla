------------------------- MODULE WidgetPublication -------------------------
(* How a widget is published: the writer lock of the widget root, the fair  *)
(* reader/writer barrier of the process, the two renames that replace a     *)
(* folder under a journal, and the recovery that reads the journals.        *)
(* src/apps/backend/src/shell/agent/widget-filesystem/publication           *)
(*                                                                          *)
(* A folder is named by the operation that built it, a slug's first folder  *)
(* by the slug.  A fault refuses a validation or throws before or after a   *)
(* change of the disk (a rename that is followed by a failed sync).         *)
EXTENDS Naturals, Sequences, FiniteSets, SequencesExt

CONSTANTS Slugs, Publishes, Metas, Recoveries,  \* operations; a token is used once
          SlugOf,          \* [Publishes \cup Metas -> Slugs]
          Initial,         \* slugs published at the beginning
          Readers,
          MaxFaults, MaxCrashes,
          None

Ops == Publishes \cup Metas \cup Recoveries
Folders == Slugs \cup Publishes

PublicationAssumption ==
    /\ IsFiniteSet(Ops) /\ IsFiniteSet(Slugs) /\ IsFiniteSet(Readers)
    /\ SlugOf \in [Publishes \cup Metas -> Slugs] /\ Initial \subseteq Slugs
    /\ MaxFaults \in Nat /\ MaxCrashes \in Nat
    /\ None \notin Folders \cup Ops

VARIABLES \* the widget root
          current,   \* published/<slug>
          staged,    \* stages on disk: none, partial, whole
          trash,     \* .trash/<slug>.<token>.replaced
          journal,   \* tokens with a replacement journal in .staging
          manifest,  \* per folder, the metadata operation whose file it holds
          lock,      \* .writer.lock: the token in it
          \* the process
          up,        \* down, serving
          pc, answer,
          again,     \* the restore of the outer catch, the last there is
          before,    \* the manifest a metadata operation replaces
          todo,      \* slugs a recovery has still to look at
          look,      \* the slug it is at, and the candidate it will restore
          queue, active, writer, poison,  \* PublicationReadWriteBarrier
          \* history
          settled,   \* per slug, the last folder that validated as current
          refused,   \* folders a validation has refused
          faults, crashes

disk    == <<current, staged, trash, journal, manifest>>
opVars  == <<pc, answer, again, before, todo, look>>
barrier == <<queue, active, writer, poison>>
history == <<settled, refused>>
vars == <<disk, lock, up, opVars, barrier, history, faults, crashes>>

Phases == {"idle", "waiting", "entered", "staging", "staged", "checked",
           "journaled", "moved", "placed", "rejected", "restoring",
           "returning", "returned", "closing_back", "closing",
           "opened", "written", "replaced", "rolling", "rolled",
           "scanning", "clearing", "quarantining", "reviving", "revived",
           "leaving", "releasing", "done"}

TypeOK ==
    /\ current \in [Slugs -> Folders \cup {None}]
    /\ staged \in [Publishes -> {"none", "partial", "whole", "gone"}]
    /\ trash \in [Publishes -> Folders \cup {None}]
    /\ journal \subseteq Publishes
    /\ manifest \in [Folders -> Metas \cup {None}]
    /\ lock \in Ops \cup {None}
    /\ up \in {"down", "serving"}
    /\ pc \in [Ops -> Phases]
    /\ answer \in [Ops -> {"none", "failed", "committed", "lost"}]
    /\ again \subseteq Publishes
    /\ before \in [Metas -> Metas \cup {None}]
    /\ todo \subseteq Slugs
    /\ look \in (Slugs \cup {None}) \X (Publishes \cup {None})
    /\ queue \in Seq(Ops \cup Readers) /\ active \subseteq Readers
    /\ writer \in Ops \cup {None} /\ poison \subseteq Slugs
    /\ settled \in [Slugs -> Folders \cup {None}] /\ refused \subseteq Folders
    /\ faults \in 0 .. MaxFaults /\ crashes \in 0 .. MaxCrashes

Init ==
    /\ current = [s \in Slugs |-> IF s \in Initial THEN s ELSE None]
    /\ staged = [o \in Publishes |-> "none"]
    /\ trash = [o \in Publishes |-> None] /\ journal = {}
    /\ manifest = [f \in Folders |-> None] /\ lock = None
    /\ up = "serving"
    /\ pc = [o \in Ops |-> "idle"] /\ answer = [o \in Ops |-> "none"]
    /\ again = {} /\ before = [o \in Metas |-> None] /\ todo = {}
    /\ look = <<None, None>>
    /\ queue = <<>> /\ active = {} /\ writer = None /\ poison = {}
    /\ settled = current /\ refused = {}
    /\ faults = 0 /\ crashes = 0

Fault == faults < MaxFaults /\ faults' = faults + 1

Goto(o, phase) == pc' = [pc EXCEPT ![o] = phase]

-----------------------------------------------------------------------------
(* PublicationReadWriteBarrier: first come, first served; leading readers   *)
(* enter together, or are turned away when any scope is poisoned.           *)

LeadingReaders(q) ==
    LET n == CHOOSE n \in 0 .. Len(q) :
                 /\ \A i \in 1 .. n : q[i] \in Readers
                 /\ n < Len(q) => q[n + 1] \notin Readers
    IN  n

\* Mutant: every reader that waits enters before the writer ahead of it.
DrainReadersFirst(q, readers, w, bad) ==
    LET waiting == SelectSeq(q, LAMBDA x : x \in Readers)
        rest == SelectSeq(q, LAMBDA x : x \notin Readers)
        inside == IF bad = {} THEN readers \cup ToSet(waiting) ELSE readers
        next == w = None /\ inside = {} /\ rest # <<>>
    IN  IF w # None THEN queue' = q /\ active' = readers /\ writer' = w
        ELSE /\ active' = inside
             /\ writer' = IF next THEN Head(rest) ELSE None
             /\ queue' = IF next THEN Tail(rest) ELSE rest

\* Mutant: a writer does not wait for the readers inside.
DrainOverReaders(q, readers, w, bad) ==
    LET n == LeadingReaders(q)
        inside == IF bad = {} THEN readers \cup ToSet(SubSeq(q, 1, n)) ELSE readers
        rest == SubSeq(q, n + 1, Len(q))
        next == w = None /\ rest # <<>>
    IN  IF w # None THEN queue' = q /\ active' = readers /\ writer' = w
        ELSE /\ active' = inside
             /\ writer' = IF next THEN Head(rest) ELSE None
             /\ queue' = IF next THEN Tail(rest) ELSE rest

Drain(q, readers, w, bad) ==
    LET n == LeadingReaders(q)
        inside == IF bad = {} THEN readers \cup ToSet(SubSeq(q, 1, n)) ELSE readers
        rest == SubSeq(q, n + 1, Len(q))
        next == w = None /\ inside = {} /\ rest # <<>>
    IN  IF w # None THEN queue' = q /\ active' = readers /\ writer' = w
        ELSE /\ active' = inside
             /\ writer' = IF next THEN Head(rest) ELSE None
             /\ queue' = IF next THEN Tail(rest) ELSE rest

Enqueue(x) == Drain(Append(queue, x), active, writer, poison) /\ UNCHANGED poison

\* A catalogue scan or a lookup of a widget's runtime: withRead.
StartRead(r) ==
    /\ up = "serving" /\ r \notin active /\ r \notin ToSet(queue)
    /\ Enqueue(r)
    /\ UNCHANGED <<disk, lock, up, opVars, history, faults, crashes>>

EndRead(r) ==
    /\ r \in active
    /\ Drain(queue, active \ {r}, writer, poison) /\ UNCHANGED poison
    /\ UNCHANGED <<disk, lock, up, opVars, history, faults, crashes>>

-----------------------------------------------------------------------------
(* Taking and giving back the lock                                          *)

\* acquireWriterLock, then the wait for the barrier.  A sync that fails after
\* the file is there leaves the lock behind.
Start(o) ==
    /\ up = "serving" /\ pc[o] = "idle"
    /\ \/ /\ lock # None
          /\ Goto(o, "done") /\ answer' = [answer EXCEPT ![o] = "failed"]
          /\ UNCHANGED <<lock, barrier, faults>>
       \/ /\ lock = None /\ Fault
          /\ lock' \in {None, o}
          /\ Goto(o, "done") /\ answer' = [answer EXCEPT ![o] = "failed"]
          /\ UNCHANGED barrier
       \/ /\ lock = None
          /\ lock' = o /\ Goto(o, "waiting") /\ Enqueue(o)
          /\ UNCHANGED <<answer, faults>>
    /\ UNCHANGED <<disk, up, again, before, todo, look, history, crashes>>

Entry(o) == IF o \in Publishes THEN "entered"
            ELSE IF o \in Metas THEN "opened" ELSE "scanning"

Enter(o) ==
    /\ pc[o] = "waiting" /\ writer = o
    /\ Goto(o, Entry(o))
    /\ todo' = IF o \in Recoveries THEN {SlugOf[j] : j \in journal} ELSE todo
    /\ UNCHANGED <<disk, lock, up, answer, again, before, look, barrier,
                   history, faults, crashes>>

\* The operation leaves with an answer; the barrier lets the next one in.
Leave(o, a) ==
    /\ Goto(o, "leaving") /\ answer' = [answer EXCEPT ![o] = a]

LeaveBarrier(o) ==
    /\ pc[o] = "leaving"
    /\ Drain(queue, active, None, poison) /\ UNCHANGED poison
    /\ Goto(o, "releasing")
    /\ UNCHANGED <<disk, lock, up, answer, again, before, todo, look, history,
                   faults, crashes>>

\* releaseWriterLock; when it fails the whole operation is reported as failed.
Release(o) ==
    /\ pc[o] = "releasing" /\ Goto(o, "done")
    /\ \/ /\ lock' = (IF lock = o THEN None ELSE lock)
          /\ UNCHANGED <<answer, faults>>
       \/ /\ Fault /\ lock' \in {lock, None}
          /\ answer' = [answer EXCEPT ![o] = "failed"]
    /\ UNCHANGED <<disk, up, again, before, todo, look, barrier, history, crashes>>

\* clearStalePublicationWriterLock: somebody confirmed that no writer is live.
ClearStaleLock ==
    /\ lock # None /\ pc[lock] \in {"idle", "done"}
    /\ lock' = None
    /\ UNCHANGED <<disk, up, opVars, barrier, history, faults, crashes>>

-----------------------------------------------------------------------------
(* publishInsideBarrier                                                     *)

\* What a step of an operation leaves alone when it only moves files.
OpFiles == UNCHANGED <<lock, up, before, todo, look, queue, active, writer, crashes>>
Quiet == UNCHANGED <<poison, history>>

Fails(o) == Leave(o, "failed")

\* The fence does not match, or something throws: the stage stays behind.
FailEarly(o) ==
    /\ pc[o] \in {"entered", "staging", "staged", "checked"}
    /\ \/ pc[o] \in {"entered", "staged"} /\ UNCHANGED faults
       \/ Fault
    /\ Fails(o) /\ OpFiles /\ Quiet /\ UNCHANGED <<disk, again>>

BeginStage(o) ==
    /\ pc[o] = "entered" /\ Goto(o, "staging")
    /\ staged' = [staged EXCEPT ![o] = "partial"]
    /\ OpFiles /\ Quiet
    /\ UNCHANGED <<current, trash, journal, manifest, answer, again, faults>>

\* release.json is written last
WriteRelease(o) ==
    /\ pc[o] = "staging" /\ Goto(o, "staged")
    /\ staged' = [staged EXCEPT ![o] = "whole"]
    /\ OpFiles /\ Quiet
    /\ UNCHANGED <<current, trash, journal, manifest, answer, again, faults>>

\* The stage validates and the fence still holds.
CheckStage(o) ==
    /\ pc[o] = "staged" /\ Goto(o, "checked")
    /\ OpFiles /\ Quiet /\ UNCHANGED <<disk, answer, again, faults>>

\* Mutant: the old folder is moved without a journal.
WriteNoJournal(o) ==
    /\ pc[o] = "checked" /\ current[SlugOf[o]] # None /\ Goto(o, "journaled")
    /\ OpFiles /\ Quiet /\ UNCHANGED <<disk, answer, again, faults>>

WriteJournal(o) ==
    /\ pc[o] = "checked" /\ current[SlugOf[o]] # None
    /\ \/ /\ journal' = journal \cup {o} /\ Goto(o, "journaled")
          /\ UNCHANGED <<answer, faults>>
       \/ Fault /\ journal' \in {journal, journal \cup {o}} /\ Fails(o)
    /\ OpFiles /\ Quiet /\ UNCHANGED <<current, staged, trash, manifest, again>>

\* The outer catch: with the old folder moved away it is put back.
RestoreLast(o) == Goto(o, "restoring") /\ again' = again \cup {o}

MoveCurrent(o) ==
    LET s == SlugOf[o] IN
    /\ pc[o] = "journaled"
    /\ \/ /\ Fault /\ Fails(o) /\ UNCHANGED <<current, trash, again>>
       \/ /\ current' = [current EXCEPT ![s] = None]
          /\ trash' = [trash EXCEPT ![o] = current[s]]
          /\ \/ Goto(o, "moved") /\ UNCHANGED <<again, faults>>
             \/ Fault /\ RestoreLast(o)
          /\ UNCHANGED answer
    /\ OpFiles /\ Quiet /\ UNCHANGED <<staged, journal, manifest>>

PlaceStage(o) ==
    LET s == SlugOf[o] IN
    /\ pc[o] = "moved" \/ (pc[o] = "checked" /\ current[s] = None)
    /\ \/ /\ Fault
          /\ IF pc[o] = "moved" THEN RestoreLast(o) /\ UNCHANGED answer
             ELSE Fails(o) /\ UNCHANGED again
          /\ UNCHANGED <<current, staged>>
       \/ /\ current' = [current EXCEPT ![s] = o]
          /\ staged' = [staged EXCEPT ![o] = "gone"]
          /\ \/ Goto(o, "placed") /\ UNCHANGED <<answer, faults>>
             \/ Fault /\ Fails(o)
          /\ UNCHANGED again
    /\ OpFiles /\ Quiet /\ UNCHANGED <<trash, journal, manifest>>

\* The reopened folder is read whole: what becomes of it when it is refused.
Refuse(f) == Fault /\ refused' = refused \cup {f} /\ UNCHANGED settled
Accept(s) == settled' = [settled EXCEPT ![s] = current[s]]
             /\ UNCHANGED <<refused, faults>>

Unpoison(s) == poison' = poison \ {s}

ValidatePlaced(o) ==
    LET s == SlugOf[o] IN
    /\ pc[o] = "placed"
    /\ \/ Refuse(o) /\ Goto(o, "rejected") /\ UNCHANGED <<answer, poison>>
       \/ /\ Accept(s)
          /\ IF o \in journal THEN Goto(o, "closing") /\ UNCHANGED <<answer, poison>>
             ELSE Leave(o, "committed") /\ Unpoison(s)
    /\ OpFiles /\ UNCHANGED <<disk, again>>

CloseJournal(o) ==
    /\ pc[o] = "closing"
    /\ \/ /\ Fault /\ journal' \in {journal, journal \ {o}}
          /\ Fails(o) /\ UNCHANGED poison
       \/ /\ journal' = journal \ {o} /\ Leave(o, "committed")
          /\ Unpoison(SlugOf[o]) /\ UNCHANGED faults
    /\ OpFiles /\ UNCHANGED <<current, staged, trash, manifest, again, history>>

\* A refused folder goes to quarantine; a first publication that fails poisons
\* its scope.
QuarantinePlaced(o) ==
    LET s == SlugOf[o] IN
    /\ pc[o] = "rejected"
    /\ \/ Fault /\ Fails(o) /\ UNCHANGED <<current, again, poison>>
       \/ /\ current' = [current EXCEPT ![s] = None]
          /\ \/ /\ UNCHANGED <<faults, again>>
                /\ IF o \in journal
                   THEN Goto(o, "restoring") /\ UNCHANGED <<answer, poison>>
                   ELSE Fails(o) /\ poison' = poison \cup {s}
             \/ /\ Fault /\ UNCHANGED poison
                /\ IF o \in journal THEN RestoreLast(o) /\ UNCHANGED answer
                   ELSE Fails(o) /\ UNCHANGED again
    /\ OpFiles /\ UNCHANGED <<staged, trash, journal, manifest, history>>

\* A restore that fails is tried once more by the outer catch, and then the
\* scope is poisoned.
RestoreFails(o) ==
    IF o \in again
    THEN Fails(o) /\ poison' = poison \cup {SlugOf[o]} /\ UNCHANGED again
    ELSE RestoreLast(o) /\ UNCHANGED <<answer, poison>>

ValidateReplaced(o) ==
    /\ pc[o] = "restoring"
    /\ \/ /\ trash[o] = None \/ current[SlugOf[o]] # None
          /\ RestoreFails(o) /\ UNCHANGED <<history, faults>>
       \/ trash[o] # None /\ Refuse(trash[o]) /\ RestoreFails(o)
       \/ /\ trash[o] # None /\ current[SlugOf[o]] = None /\ Goto(o, "returning")
          /\ UNCHANGED <<answer, again, poison, history, faults>>
    /\ OpFiles /\ UNCHANGED disk

ReturnReplaced(o) ==
    LET s == SlugOf[o] IN
    /\ pc[o] = "returning"
    /\ \/ Fault /\ RestoreFails(o) /\ UNCHANGED <<current, trash>>
       \/ /\ current' = [current EXCEPT ![s] = trash[o]]
          /\ trash' = [trash EXCEPT ![o] = None]
          /\ \/ Goto(o, "returned") /\ UNCHANGED <<answer, again, poison, faults>>
             \/ Fault /\ RestoreFails(o)
    /\ OpFiles /\ UNCHANGED <<staged, journal, manifest, history>>

ValidateReturned(o) ==
    LET s == SlugOf[o] IN
    /\ pc[o] = "returned"
    /\ \/ Refuse(current[s]) /\ RestoreFails(o)
       \/ /\ Accept(s) /\ Goto(o, "closing_back")
          /\ UNCHANGED <<answer, again, poison>>
    /\ OpFiles /\ UNCHANGED disk

\* Back where it was: the publication failed, and the scope is whole again.
CloseReturned(o) ==
    /\ pc[o] = "closing_back"
    /\ \/ /\ Fault /\ journal' \in {journal, journal \ {o}} /\ RestoreFails(o)
       \/ /\ journal' = journal \ {o} /\ Fails(o) /\ Unpoison(SlugOf[o])
          /\ UNCHANGED <<again, faults>>
    /\ OpFiles /\ UNCHANGED <<current, staged, trash, manifest, history>>

Publish(o) ==
    \/ FailEarly(o) \/ BeginStage(o) \/ WriteRelease(o) \/ CheckStage(o)
    \/ WriteJournal(o) \/ MoveCurrent(o) \/ PlaceStage(o) \/ ValidatePlaced(o)
    \/ CloseJournal(o) \/ QuarantinePlaced(o) \/ ValidateReplaced(o)
    \/ ReturnReplaced(o) \/ ValidateReturned(o) \/ CloseReturned(o)

-----------------------------------------------------------------------------
(* metadataInsideBarrier: omnidraw.json alone is replaced, in place         *)

MetaFiles == UNCHANGED <<lock, up, again, todo, look, queue, active, writer,
                         crashes, current, staged, trash, journal>>

\* The folder is read, then the candidate and twice the fence.
CheckMetadata(m) ==
    LET f == current[SlugOf[m]] IN
    /\ pc[m] = "opened"
    /\ \/ Fails(m) /\ UNCHANGED <<before, history, faults>>
       \/ f # None /\ Refuse(f) /\ Fails(m) /\ UNCHANGED before
       \/ /\ f # None /\ Accept(SlugOf[m])
          /\ before' = [before EXCEPT ![m] = manifest[f]]
          /\ Goto(m, "written") /\ UNCHANGED answer
    /\ MetaFiles /\ UNCHANGED <<manifest, poison>>

ReplaceManifest(m) ==
    LET f == current[SlugOf[m]] IN
    /\ pc[m] = "written"
    /\ \/ Fails(m) /\ UNCHANGED <<manifest, faults>>
       \/ /\ manifest' = [manifest EXCEPT ![f] = m]
          /\ \/ Goto(m, "replaced") /\ UNCHANGED <<answer, faults>>
             \/ Fault /\ Fails(m)
    /\ MetaFiles /\ UNCHANGED <<before, poison, history>>

ValidateManifest(m) ==
    LET s == SlugOf[m] IN
    /\ pc[m] = "replaced"
    /\ \/ Refuse(current[s]) /\ Goto(m, "rolling") /\ UNCHANGED <<answer, poison>>
       \/ Accept(s) /\ Leave(m, "committed") /\ Unpoison(s)
    /\ MetaFiles /\ UNCHANGED <<manifest, before>>

RollBackManifest(m) ==
    LET s == SlugOf[m] IN
    /\ pc[m] = "rolling"
    /\ \/ /\ Fault /\ Fails(m) /\ poison' = poison \cup {s}
          /\ manifest' \in {manifest, [manifest EXCEPT ![current[s]] = before[m]]}
       \/ /\ manifest' = [manifest EXCEPT ![current[s]] = before[m]]
          /\ Goto(m, "rolled") /\ UNCHANGED <<answer, poison, faults>>
    /\ MetaFiles /\ UNCHANGED <<before, history>>

ValidateRolledBack(m) ==
    LET s == SlugOf[m] IN
    /\ pc[m] = "rolled" /\ Fails(m)
    /\ \/ Refuse(current[s]) /\ poison' = poison \cup {s}
       \/ Accept(s) /\ UNCHANGED poison
    /\ MetaFiles /\ UNCHANGED <<manifest, before>>

PublishMetadata(m) ==
    \/ CheckMetadata(m) \/ ReplaceManifest(m) \/ ValidateManifest(m)
    \/ RollBackManifest(m) \/ ValidateRolledBack(m)

-----------------------------------------------------------------------------
(* recoverInsideBarrier: the journals, slug by slug                         *)

JournalsOf(s) == {j \in journal : SlugOf[j] = s}
Candidates(s) == {j \in JournalsOf(s) : trash[j] # None}

RecoveryFiles == UNCHANGED <<lock, up, again, before, queue, active, writer,
                             crashes, staged, manifest>>

\* What recovery decides for a slug.  A candidate that is refused counts as
\* none, a current folder that is refused as invalid.
LookAtSlug(r) ==
    /\ pc[r] = "scanning"
    /\ \E s \in todo : \E ill \in SUBSET Candidates(s),
                        bad \in {{}, {current[s]} \ {None}} :
        LET sound == Candidates(s) \ ill IN
        /\ faults + Cardinality(ill) + Cardinality(bad) <= MaxFaults
        /\ faults' = faults + Cardinality(ill) + Cardinality(bad)
        /\ refused' = refused \cup bad \cup {trash[j] : j \in ill}
        /\ \/ /\ current[s] # None /\ bad = {}
              /\ settled' = [settled EXCEPT ![s] = current[s]]
              /\ look' = <<s, None>> /\ Goto(r, "clearing")
              /\ UNCHANGED <<todo, poison>>
           \/ /\ current[s] = None \/ bad # {}
              /\ UNCHANGED settled
              /\ IF Cardinality(sound) = 1
                 THEN /\ \E j \in sound : look' = <<s, j>>
                      /\ Goto(r, IF current[s] = None THEN "reviving" ELSE "quarantining")
                      /\ UNCHANGED <<todo, poison>>
                 ELSE /\ poison' = poison \cup {s} /\ todo' = todo \ {s}
                      /\ UNCHANGED <<pc, look>>
    /\ RecoveryFiles /\ UNCHANGED <<current, trash, journal, answer>>

RecoveryFails(r) == Fails(r) /\ poison' = poison \cup {look[1]}

QuarantineCurrent(r) ==
    /\ pc[r] = "quarantining"
    /\ \/ /\ Fault /\ RecoveryFails(r)
          /\ current' \in {current, [current EXCEPT ![look[1]] = None]}
       \/ /\ current' = [current EXCEPT ![look[1]] = None]
          /\ Goto(r, "reviving") /\ UNCHANGED <<answer, poison, faults>>
    /\ RecoveryFiles /\ UNCHANGED <<trash, journal, todo, look, history>>

Revive(r) ==
    LET s == look[1]  j == look[2] IN
    /\ pc[r] = "reviving"
    /\ \/ Fault /\ RecoveryFails(r) /\ UNCHANGED <<current, trash>>
       \/ /\ current' = [current EXCEPT ![s] = trash[j]]
          /\ trash' = [trash EXCEPT ![j] = None]
          /\ \/ Goto(r, "revived") /\ UNCHANGED <<answer, poison, faults>>
             \/ Fault /\ RecoveryFails(r)
    /\ RecoveryFiles /\ UNCHANGED <<journal, todo, look, history>>

ValidateRevived(r) ==
    /\ pc[r] = "revived"
    /\ \/ Refuse(current[look[1]]) /\ RecoveryFails(r)
       \/ Accept(look[1]) /\ Goto(r, "clearing") /\ UNCHANGED <<answer, poison>>
    /\ RecoveryFiles /\ UNCHANGED <<current, trash, journal, todo, look>>

\* Journals are removed one by one, then the scope is whole again.
ClearJournals(r) ==
    LET s == look[1] IN
    /\ pc[r] = "clearing"
    /\ \/ /\ Fault /\ Fails(r) /\ UNCHANGED <<poison, todo>>
          /\ \E gone \in SUBSET JournalsOf(s) : journal' = journal \ gone
       \/ /\ journal' = journal \ JournalsOf(s)
          /\ Unpoison(s) /\ todo' = todo \ {s} /\ Goto(r, "scanning")
          /\ UNCHANGED <<answer, faults>>
    /\ RecoveryFiles /\ UNCHANGED <<current, trash, look, history>>

EndRecovery(r) ==
    /\ pc[r] = "scanning" /\ todo = {} /\ Leave(r, "committed")
    /\ RecoveryFiles
    /\ UNCHANGED <<current, trash, journal, poison, todo, look, history, faults>>

Recover(r) ==
    \/ LookAtSlug(r) \/ QuarantineCurrent(r) \/ Revive(r) \/ ValidateRevived(r)
    \/ ClearJournals(r) \/ EndRecovery(r)

-----------------------------------------------------------------------------
(* The process                                                              *)

Crash ==
    /\ up # "down" /\ crashes < MaxCrashes /\ crashes' = crashes + 1
    /\ up' = "down"
    /\ pc' = [o \in Ops |-> IF pc[o] = "idle" THEN "idle" ELSE "done"]
    /\ answer' = [o \in Ops |-> IF pc[o] \in {"idle", "done"} THEN answer[o] ELSE "lost"]
    /\ again' = {} /\ before' = [m \in Metas |-> None] /\ todo' = {}
    /\ look' = <<None, None>>
    /\ queue' = <<>> /\ active' = {} /\ writer' = None /\ poison' = {}
    /\ UNCHANGED <<disk, lock, history, faults>>

\* Startup serves at once: nothing calls recoverAtomicPublications, and the
\* lock file of an operation that the crash ended is still there.
Restart ==
    /\ up = "down" /\ up' = "serving"
    /\ UNCHANGED <<disk, lock, opVars, barrier, history, faults, crashes>>

Operate(o) ==
    \/ Enter(o) \/ LeaveBarrier(o) \/ Release(o)
    \/ o \in Publishes /\ Publish(o)
    \/ o \in Metas /\ PublishMetadata(o)
    \/ o \in Recoveries /\ Recover(o)

Next ==
    \/ \E o \in Ops : Start(o) \/ Operate(o)
    \/ \E r \in Readers : StartRead(r) \/ EndRead(r)
    \/ ClearStaleLock \/ Crash \/ Restart

Spec == Init /\ [][Next]_vars

Fairness ==
    /\ \A o \in Ops : WF_vars(Operate(o))
    /\ \A r \in Readers : WF_vars(EndRead(r))

FairSpec == Spec /\ Fairness

-----------------------------------------------------------------------------
(* Properties                                                               *)

\* A replacement of the widget is over and left the last good folder in the
\* trash under its journal: a crash came before it put a folder in place, or
\* after the failed restore that had closed the widget to readers.
CutShort(s) ==
    crashes > 0 /\ \E j \in Candidates(s) : pc[j] = "done" /\ trash[j] = settled[s]

\* While somebody reads the widget root, every widget that was published has a
\* whole folder: readers never see the gap between the two renames, nor a
\* folder whose release.json is not written.  The one gap they can see is that
\* of a replacement which a crash cut short: the next process serves at once
\* and nothing puts the folder back.
ReadersSeeWhole ==
    active # {} => \A s \in Slugs :
        /\ settled[s] # None => current[s] # None \/ CutShort(s)
        /\ current[s] \in Publishes => staged[current[s]] = "gone"

\* Nothing changes under a reader: one reading sees one folder per widget and
\* one manifest in it, the old or the new.
ReadingIsStable ==
    [][active \cap active' # {} => UNCHANGED <<current, manifest>>]_vars

\* The folder that was last found good is where it is served from, or in the
\* trash under a journal from which it can be restored, unless a validation
\* refused it.
LastGoodIsKept ==
    \A s \in Slugs :
        \/ settled[s] \in {None, current[s]} \cup refused
        \/ \E j \in JournalsOf(s) : trash[j] = settled[s]

\* A publication that reports success has left its folder in place and no
\* journal that could undo it.
CommittedIsPlaced ==
    [][\A o \in Publishes :
        answer[o] # "committed" /\ answer'[o] = "committed"
            => current'[SlugOf[o]] = o /\ o \notin journal']_vars

\* A recovery that reports success leaves no slug with a journal unless its
\* scope is poisoned and readers are turned away.
RecoveredOrPoisoned ==
    \A r \in Recoveries :
        pc[r] = "leaving" /\ answer[r] = "committed"
            => {SlugOf[j] : j \in journal} \subseteq poison

\* Recovery restores a folder only when it is the one that can be meant: the
\* last that was good, or every newer one was refused.
RecoveryNeverGuesses ==
    [][\A r \in Recoveries, s \in Slugs :
        pc[r] = "reviving" /\ current'[s] # current[s]
            => current'[s] = settled[s] \/ settled[s] \in refused]_vars

\* Whoever waits for the barrier gets through it: a stream of readers does not
\* keep a publication out, and no publication keeps readers out for ever.
WritersGetIn == \A o \in Ops : pc[o] = "waiting" ~> pc[o] # "waiting"
ReadersGetIn == \A r \in Readers : r \in ToSet(queue) ~> r \notin ToSet(queue)

\* docs/internal/widget-filesystem-design.md:803: after a crash that moved the
\* old folder away, startup restores it or asks for help.
StartupRestores ==
    up = "serving" /\ writer = None
        => \A s \in Slugs : settled[s] # None /\ current[s] = None => s \in poison
=============================================================================
