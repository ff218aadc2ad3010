--------------------------- MODULE ResourcesProofs ---------------------------
(***************************************************************************)
(* What holds of MCResources for every value of the constants: of its      *)
(* key-value stores by the invariant of KeyValueHandles, of its databases  *)
(* by one of the runs of DatabaseApply, and of the leases over consumers   *)
(* by one of each drain of UseDrain.                                       *)
(***************************************************************************)
EXTENDS MCResources, FiniteSetTheorems, WellFoundedInduction, NaturalsInduction, TLAPS

P == INSTANCE KeyValueHandlesProofs WITH
  Resources <- Stores, Writes <- StoreWrites, MaxFaults <- HandleFaults, faults <- handleFaults

-----------------------------------------------------------------------------
(* The stores.                                                             *)

HandleInv == part = "handles" => P!IInv

LEMMA SamePool == P!PoolAssumption
BY ResourcesAssumption DEF P!PoolAssumption, Handles!PoolAssumption

LEMMA HandlesBegin == Init => HandleInv
<1> SUFFICES ASSUME Init PROVE P!IInv
  BY DEF HandleInv
<1>1. P!Init
  BY DEF Init, Handles!Init, P!Init
<1> QED
  BY <1>1, SamePool, P!InitHolds

\* The two instances add up the same numbers.
LEMMA SameSums ==
  /\ \A S : Handles!Cardinality(S) = P!Cardinality(S)
  /\ Handles!Closing = P!Closing /\ Handles!OpenCount = P!OpenCount
<1>1. \A S : Handles!Cardinality(S) = P!Cardinality(S)
  BY Zenon DEF Handles!Cardinality, P!Cardinality
<1>2. Handles!Closing = P!Closing
  BY <1>1 DEF Handles!Closing, P!Closing
<1>3. Handles!OpenCount = P!OpenCount
  BY <1>1, <1>2 DEF Handles!OpenCount, P!OpenCount, Handles!Cached, P!Cached
<1> QED
  BY <1>1, <1>2, <1>3

\* One step of the pool is one step of its module.
LEMMA SameStep == Handles!Next => P!Next
<1> USE DEF Handles!Fine, P!Fine, Handles!Fault, P!Fault, Handles!Goes, P!Goes, Handles!Cached, P!Cached,
            Handles!PendingWrites, P!PendingWrites, Handles!Blocked, P!Blocked, Handles!InFlight,
            P!InFlight,
            Handles!Notified, P!Notified, Handles!Idle, P!Idle, Handles!Drops, P!Drops,
            Handles!pool, P!pool, Handles!queue, P!queue, Handles!bounds, P!bounds
<1>1. ASSUME NEW i \in Calls, Handles!Step(i) PROVE P!Step(i)
  <2>1. Handles!Acquires(i) => P!Acquires(i)
    BY DEF Handles!Acquires, P!Acquires
  <2>2. Handles!Read(i) => P!Read(i)
    BY <2>1 DEF Handles!Read, P!Read
  <2>3. Handles!Write(i) => P!Write(i)
    BY DEF Handles!Write, P!Write
  <2>4. Handles!WriteTurn(i) => P!WriteTurn(i)
    BY <2>1 DEF Handles!WriteTurn, P!WriteTurn
  <2>5. Handles!EndUse(i) => P!EndUse(i)
    BY DEF Handles!EndUse, P!EndUse
  <2>6. Handles!NextPhase(i) => P!NextPhase(i)
    BY <2>1 DEF Handles!NextPhase, P!NextPhase
  <2>7. Handles!WriteSettles(i) => P!WriteSettles(i)
    BY DEF Handles!WriteSettles, P!WriteSettles
  <2> QED
    BY <1>1, <2>2, <2>3, <2>4, <2>5, <2>6, <2>7 DEF Handles!Step, P!Step
<1>2. ASSUME Handles!Door PROVE P!Door
  <2>1. Handles!AdmitCached => P!AdmitCached
    BY DEF Handles!AdmitCached, P!AdmitCached, Handles!AtDoor, P!AtDoor, Handles!Leaves, P!Leaves
  <2>2. Handles!AdmitOpening => P!AdmitOpening
    BY SameSums DEF Handles!AdmitOpening, P!AdmitOpening, Handles!AtDoor, P!AtDoor, Handles!Leaves, P!Leaves
  <2>3. Handles!Full = P!Full
    BY SameSums DEF Handles!Full, P!Full, Handles!AtDoor, P!AtDoor
  <2>4. Handles!RetryCloses => P!RetryCloses
    BY <2>3 DEF Handles!RetryCloses, P!RetryCloses
  <2>5. ASSUME NEW r \in Stores, Handles!Evict(r) PROVE P!Evict(r)
    BY <2>3, <2>5 DEF Handles!Evict, P!Evict
  <2>6. Handles!EvictEnds => P!EvictEnds
    BY DEF Handles!EvictEnds, P!EvictEnds, Handles!Rejected, P!Rejected, Handles!Leaves, P!Leaves
  <2>7. Handles!Park => P!Park
    BY <2>3 DEF Handles!Park, P!Park
  <2>8. Handles!SweepStarts => P!SweepStarts
    BY DEF Handles!SweepStarts, P!SweepStarts
  <2>9. ASSUME NEW r \in Stores, Handles!SweepCloses(r) PROVE P!SweepCloses(r)
    BY <2>9 DEF Handles!SweepCloses, P!SweepCloses
  <2>10. Handles!SweepClosed => P!SweepClosed
    BY DEF Handles!SweepClosed, P!SweepClosed
  <2>11. Handles!SweepEnds => P!SweepEnds
    BY DEF Handles!SweepEnds, P!SweepEnds, Handles!Leaves, P!Leaves
  <2>12. CASE \E r \in Stores : Handles!Evict(r) \/ Handles!SweepCloses(r)
    <3>1. \E r \in Stores : P!Evict(r) \/ P!SweepCloses(r)
      BY <2>5, <2>9, <2>12
    <3> QED
      BY <3>1 DEF P!Door
  <2>13. CASE \/ Handles!AdmitCached \/ Handles!AdmitOpening \/ Handles!RetryCloses \/ Handles!EvictEnds
              \/ Handles!Park \/ Handles!SweepStarts \/ Handles!SweepClosed \/ Handles!SweepEnds
    BY <2>1, <2>2, <2>4, <2>6, <2>7, <2>8, <2>10, <2>11, <2>13 DEF P!Door
  <2> QED
    BY <1>2, <2>12, <2>13 DEF Handles!Door
<1>3. Handles!SweepDue => P!SweepDue
  BY DEF Handles!SweepDue, P!SweepDue
<1>4. Handles!Close => P!Close
  BY DEF Handles!Close, P!Close
<1>5. Handles!CloseHandles => P!CloseHandles
  BY SameSums DEF Handles!CloseHandles, P!CloseHandles, Handles!Quiet, P!Quiet
<1>6. ASSUME NEW r \in Stores, Handles!OpeningEnds(r) \/ Handles!Maintain(r) \/ Handles!Lifecycle(r)
      PROVE  P!OpeningEnds(r) \/ P!Maintain(r) \/ P!Lifecycle(r)
  <2>1. Handles!OpeningEnds(r) => P!OpeningEnds(r)
    BY DEF Handles!OpeningEnds, P!OpeningEnds, Handles!Rejected, P!Rejected
  <2>2. Handles!Maintain(r) => P!Maintain(r)
    BY DEF Handles!Maintain, P!Maintain
  <2>3. Handles!MaintainCloses(r) => P!MaintainCloses(r)
    BY DEF Handles!MaintainCloses, P!MaintainCloses, Handles!Drained, P!Drained
  <2>4. Handles!MaintainClosed(r) => P!MaintainClosed(r)
    BY DEF Handles!MaintainClosed, P!MaintainClosed
  <2>5. Handles!MaintainEnds(r) => P!MaintainEnds(r)
    BY DEF Handles!MaintainEnds, P!MaintainEnds
  <2> QED
    BY <1>6, <2>1, <2>2, <2>3, <2>4, <2>5 DEF Handles!Lifecycle, P!Lifecycle
<1>7. SUFFICES ASSUME Handles!Next PROVE P!Next
  OBVIOUS
<1>8. CASE \E i \in Calls : Handles!Step(i)
  <2>1. \E i \in Calls : P!Step(i)
    BY <1>1, <1>8
  <2> QED
    BY <2>1 DEF P!Next
<1>9. CASE Handles!Door \/ Handles!SweepDue \/ Handles!Close \/ Handles!CloseHandles
  <2>1. P!Door \/ P!SweepDue \/ P!Close \/ P!CloseHandles
    BY <1>2, <1>3, <1>4, <1>5, <1>9
  <2> QED
    BY <2>1 DEF P!Next
<1>10. CASE \E r \in Stores : Handles!OpeningEnds(r) \/ Handles!Maintain(r) \/ Handles!Lifecycle(r)
  <2>1. \E r \in Stores : P!OpeningEnds(r) \/ P!Maintain(r) \/ P!Lifecycle(r)
    BY <1>6, <1>10
  <2> QED
    BY <2>1 DEF P!Next
<1> QED
  BY <1>7, <1>8, <1>9, <1>10 DEF Handles!Next

LEMMA HandlesGoOn == HandleInv /\ [Next]_vars => HandleInv'
<1> SUFFICES ASSUME HandleInv, [Next]_vars, part' = "handles" PROVE P!IInv'
  BY DEF HandleInv
<1>1. part = "handles" /\ P!IInv
  BY DEF Next, vars, HandleInv
<1>2. CASE Handles!Next
  BY <1>1, <1>2, SameStep, SamePool, P!NextKeeps
<1>3. CASE UNCHANGED vars
  <2>1. UNCHANGED P!vars
    BY <1>3 DEF vars, handleVars, P!vars, P!pool, P!queue, P!bounds
  <2> QED
    BY <1>1, <2>1, P!SameKeeps
<1> QED
  BY <1>1, <1>2, <1>3 DEF Next, InApply, InHandles, InLifecycle, InDrains

LEMMA SameProperties ==
  /\ P!TypeOK => Handles!TypeOK
  /\ P!HandlesBounded => Handles!HandlesBounded
  /\ P!MaintainedAlone => Handles!MaintainedAlone
  /\ P!ClosedIsEmpty => Handles!ClosedIsEmpty
<1> USE DEF P!InFlight, Handles!InFlight, P!Settled, Handles!Settled, P!Cached, Handles!Cached,
            P!Blocked, Handles!Blocked
<1>1. P!TypeOK => Handles!TypeOK
  BY DEF P!TypeOK, Handles!TypeOK
<1>2. P!HandlesBounded => Handles!HandlesBounded
  BY SameSums DEF P!HandlesBounded, Handles!HandlesBounded
<1>3. P!MaintainedAlone => Handles!MaintainedAlone
  BY DEF P!MaintainedAlone, Handles!MaintainedAlone
<1>4. P!ClosedIsEmpty => Handles!ClosedIsEmpty
  BY DEF P!ClosedIsEmpty, Handles!ClosedIsEmpty
<1> QED
  BY <1>1, <1>2, <1>3, <1>4

PoolIsWhole == part = "handles" =>
  /\ Handles!TypeOK
  /\ Handles!HandlesBounded /\ Handles!MaintainedAlone /\ Handles!ClosedIsEmpty

LEMMA HandleInvIsEnough == HandleInv => PoolIsWhole
<1> SUFFICES ASSUME P!IInv
             PROVE  /\ Handles!TypeOK
                    /\ Handles!HandlesBounded /\ Handles!MaintainedAlone /\ Handles!ClosedIsEmpty
  BY DEF HandleInv, PoolIsWhole
<1>1. P!TypeOK /\ P!HandlesBounded /\ P!MaintainedAlone /\ P!ClosedIsEmpty
  BY SamePool, P!TypesFollow, P!SafetyFollows
<1> QED
  BY <1>1, SameProperties

LEMMA CutsAreOfTheList == HandleInv /\ [Next]_vars => Handles!CutStep
<1> SUFFICES ASSUME HandleInv, [Next]_vars PROVE Handles!CutStep
  OBVIOUS
<1>1. CASE Handles!Next /\ part = "handles"
  <2>1. P!IInv /\ P!Next
    BY <1>1, SameStep DEF HandleInv
  <2>2. P!CutStep
    BY <2>1, P!CutsFollow
  <2> QED
    BY <2>2 DEF P!CutStep, Handles!CutStep
<1>2. CASE UNCHANGED handleVars
  BY <1>2 DEF handleVars, Handles!CutStep
<1> QED
  BY <1>1, <1>2 DEF Next, vars, InApply, InHandles, InLifecycle, InDrains

\* For any stores, calls, sweeps of idle handles, deletions and failures: the
\* pool keeps its bound, maintenance has a database to itself, a closed store is
\* empty, and a database is closed under a call only by the running sweep, which
\* had listed its handle (ResourceKeyValueStore).
THEOREM HandlesStaySafe == Spec => HandlesAreSafe
<1>1. HandleInv => PoolIsWhole
  BY HandleInvIsEnough
<1>2. HandleInv /\ [Next]_vars => HandleInv'
  BY HandlesGoOn
<1>3. HandleInv /\ [Next]_vars => [Handles!CutStep]_Handles!vars
  BY CutsAreOfTheList
<1>4. Spec => []PoolIsWhole
  BY <1>1, <1>2, HandlesBegin, PTL DEF Spec
<1>5. Spec => [][Handles!CutStep]_Handles!vars
  BY <1>2, <1>3, HandlesBegin, PTL DEF Spec
<1> QED
  BY <1>4, <1>5 DEF HandlesAreSafe, PoolIsWhole, Handles!OnlyListedAreCut

-----------------------------------------------------------------------------
(***************************************************************************)
(* The runs of a database.  For any number of runs, drafts, changes,       *)
(* writes, crashes and faults, no acknowledged write is lost, there is     *)
(* something to recover from, and the rows say what the files went         *)
(* through.                                                                *)
(*                                                                         *)
(* The argument: one run is open at a time, and a task that is not idle or *)
(* about to release the catalog is of the open run.  So whatever the files *)
(* are between two steps of a task is known from where that task stands,   *)
(* except for what a user may do meanwhile: write, until the writes are    *)
(* blocked and drained, and discard the backup of an earlier run.          *)
(***************************************************************************)

(***************************************************************************)
(* The strengthening.                                                      *)
(***************************************************************************)
\* Where a task may stand, by what it has done.
Begun == {"uses", "mark", "check", "gate", "migrate", "block", "drain"}
Applying == {"backup", "change", "verify", "undo", "undone"}
Restoring == {"overwrite", "overwritten", "stamp"}
Ending == {"reopen", "thrown", "finish", "fail"}
Recopying == {"recopy", "recopied", "restamp"}
Places == {"idle", "release", "look", "settle"} \cup Begun \cup Applying \cup Restoring \cup Ending \cup Recopying

ApplyStep == Apply!Next \/ UNCHANGED applyVars

IsActive(r) == run[r].status \in Apply!Active
Operations == {"none", "create", "change", "drop"}

Typed ==
  /\ Apply!TypeOK
  /\ task \in [Apply!Runs -> [pc: Places, out: {"none", "succeeded", "recovered", "failed"}, keep: BOOLEAN]]
  /\ lane \in [op: Operations, of: Apply!Drafts \cup {0}]
  /\ lane # Apply!NoLane => lane.op # "none" /\ lane.of \in Apply!Drafts
  /\ written \in Nat /\ discarded \in SUBSET Apply!Runs

\* One run is open, and whoever works works for it; a run is of a draft or of a
\* backup, and says it retains one only when it is over.
RunsInv ==
  /\ \A r, q \in Apply!Runs : IsActive(r) /\ IsActive(q) => r = q
  /\ \A r \in Apply!Runs :
       /\ task[r].pc \notin {"idle", "release"} => IsActive(r)
       /\ task[r].pc # "idle" => run[r].status # "none"
       /\ run[r].status = "none" => run[r].of = 0 /\ run[r].source = 0
       /\ run[r].status # "none" => (run[r].of # 0 <=> run[r].source = 0)
       /\ run[r].retained => ~IsActive(r) /\ run[r].status # "none"
       /\ task[r].pc \in {"check"} \cup Applying => run[r].of # 0
       /\ task[r].pc \in Restoring \cup {"restamp"} => run[r].of = 0
       /\ task[r].pc \in {"reopen", "finish", "settle"} => task[r].out # "none"
       /\ task[r].pc \in {"reopen", "finish"} => task[r].out # "failed"
       /\ task[r].pc \in Recopying => task[r].out = "recovered"

\* The drafts follow the open run, and one is worked on at a time.
DraftsInv ==
  /\ \A d \in Apply!Drafts :
       draft[d].status = "applying" <=> \E r \in Apply!Runs : run[r].of = d /\ IsActive(r)
  /\ \A d, e \in Apply!Drafts :
       {draft[d].status, draft[e].status} \subseteq {"editing", "applying"} => d = e
  /\ lane.op \in {"create", "change"} => draft[lane.of].status = "editing"

\* A marker is in the live file or in a backup only after its run put it there.
MarksInv ==
  \A r \in Apply!Runs :
    /\ run[r].status = "none" \/ task[r].pc \in Begun \cup {"backup"} =>
         r \notin live.marks /\ \A q \in Apply!Runs : r \notin backup[q].marks
    /\ r \notin backup[r].marks

\* What a draft was reviewed with: the marker of its run, its status, and the
\* steps between the review and the marker.
Matches(d) == draft[d].proof \in {-1, draft[d].changes}
ReviewInv ==
  /\ \A d \in Apply!Drafts : draft[d].status = "applied" => Matches(d)
  /\ \A r \in Apply!Runs : IsActive(r) /\ run[r].of # 0 =>
       /\ r \in live.marks => Matches(run[r].of)
       /\ task[r].pc \in {"gate", "migrate", "block", "drain"} \cup Applying => Matches(run[r].of)

\* The files, by where the task of the open run stands.
Closed == {"drain"} \cup Applying \cup Restoring \cup {"reopen"}
FilesInv ==
  \A r \in Apply!Runs :
    /\ task[r].pc \in Closed => blocked
    /\ task[r].pc \in Applying => writer # "admitted"
    /\ task[r].pc \in {"change", "verify", "undo", "undone"} => backup[r].ok /\ backup[r].writes = written
    /\ task[r].pc \in {"change", "verify"} => live.ok
    /\ task[r].pc = "verify" => r \in live.marks
    /\ task[r].pc \in {"reopen", "finish", "settle"} =>
         /\ task[r].out = "succeeded" => r \in live.marks
         /\ task[r].out = "recovered" /\ run[r].of # 0 => live.ok /\ r \notin live.marks
    /\ task[r].pc \in {"reopen", "finish", "settle"} \cup Recopying /\ task[r].keep /\ run[r].of # 0 => backup[r].ok
    /\ run[r].of # 0 /\ run[r].retained => backup[r].ok \/ r \in discarded

RunInv ==
  /\ Typed /\ RunsInv /\ DraftsInv /\ MarksInv /\ ReviewInv /\ FilesInv
  /\ Apply!NoAcknowledgedWriteLost /\ Apply!RecoverySource

-----------------------------------------------------------------------------
(* The steps, by what they leave alone.                                    *)

LEMMA BrokenFile == Apply!BoundsAssumption => Apply!Broken \in Apply!File
BY DEF Apply!BoundsAssumption, Apply!Broken, Apply!File

\* The first state.
LEMMA InitHolds == Apply!BoundsAssumption /\ Apply!Init => RunInv
<1> SUFFICES ASSUME Apply!BoundsAssumption, Apply!Init PROVE RunInv
  OBVIOUS
<1> USE DEF Apply!Init
<1>1. Typed
  <2>1. live \in Apply!File /\ backup \in [Apply!Runs -> Apply!File]
    BY BrokenFile DEF Apply!File, Apply!Broken
  <2>2. MaxChanges \in Nat
    BY DEF Apply!BoundsAssumption
  <2>3. draft \in [Apply!Drafts -> [status: {"none", "editing", "applying", "applied", "error", "discarded"},
                             proof: -1..MaxChanges, changes: 0..MaxChanges]]
    BY <2>2
  <2>4. run \in [Apply!Runs -> [status: Apply!Active \cup {"none", "succeeded", "failed", "recovered"},
                         of: Apply!Drafts \cup {0}, source: Apply!Runs \cup {0}, retained: BOOLEAN]]
    OBVIOUS
  <2>5. Apply!TypeOK
    BY <2>1, <2>3, <2>4 DEF Apply!TypeOK
  <2>6. Apply!Idle \in [pc: Places, out: {"none", "succeeded", "recovered", "failed"}, keep: BOOLEAN]
    BY DEF Apply!Idle, Places
  <2> QED
    BY <2>5, <2>6 DEF Typed, Apply!NoLane, Operations
<1>2. RunsInv /\ DraftsInv
  BY DEF RunsInv, DraftsInv, IsActive, Apply!Active, Apply!Idle, Begun, Applying, Restoring, Recopying,
     Apply!NoLane
<1>3. MarksInv
  BY DEF MarksInv, Apply!Broken
<1>4. ReviewInv /\ FilesInv
  BY DEF ReviewInv, FilesInv, IsActive, Apply!Active, Apply!Idle, Closed, Applying, Restoring, Recopying
<1>5. Apply!NoAcknowledgedWriteLost /\ Apply!RecoverySource
  BY DEF Apply!NoAcknowledgedWriteLost, Apply!RecoverySource, Apply!Broken
<1> QED
  BY <1>1, <1>2, <1>3, <1>4, <1>5 DEF RunInv

-----------------------------------------------------------------------------
(* What the steps leave alone.                                             *)

LaneSteps == Apply!DropFile \/ Apply!FinishDraftOperation \/ (\E d \in Apply!Drafts : Apply!CreateDraft(d) \/ Apply!ChangeDraft(d))
RowSteps(r) == Apply!MarkApplying(r) \/ Apply!Finish(r) \/ Apply!FailRun(r) \/ Apply!Settle(r) \/ Apply!Restore(r)
RowsMove ==
  \/ LaneSteps \/ Apply!DiscardBackupRow \/ Apply!BootDone \/ Apply!Crash
  \/ \E d \in Apply!Drafts : Apply!ConfirmApply(d)
  \/ \E r \in Apply!Runs : RowSteps(r)

LiveSteps(r) ==
  \/ Apply!ChangeLive(r) \/ Apply!UndoStarts(r) \/ Apply!UndoEnds(r) \/ Apply!OverwriteStarts(r) \/ Apply!OverwriteEnds(r)
  \/ Apply!StampLive(r) \/ Apply!RecopyStarts(r) \/ Apply!RecopyEnds(r) \/ Apply!Restamp(r)
FilesMove == Apply!WriteRuns \/ \E r \in Apply!Runs : LiveSteps(r) \/ Apply!DiscardBackup(r) \/ Apply!CopyBackup(r)

Starts(r) == Apply!Restore(r) \/ Apply!PollStaleRun(r) \/ Apply!BootRun(r)
TaskMove ==
  \/ Apply!Crash \/ \E d \in Apply!Drafts : Apply!ConfirmApply(d)
  \/ \E r \in Apply!Runs : Starts(r) \/ Apply!Execute(r) \/ Apply!Reconcile(r)

LEMMA RowsFrame == ApplyStep => RowsMove \/ UNCHANGED <<draft, run, lane>>
<1> SUFFICES ASSUME ApplyStep, ~RowsMove PROVE UNCHANGED <<draft, run, lane>>
  OBVIOUS
<1> USE DEF RowsMove, LaneSteps, RowSteps, Apply!files, Apply!rows, Apply!memory
<1>1. ASSUME NEW r \in Apply!Runs, Apply!Execute(r) PROVE UNCHANGED <<draft, run, lane>>
  BY <1>1 DEF Apply!Execute, Apply!DrainUses, Apply!CheckDraft, Apply!EnterGate, Apply!MarkMigrating,
     Apply!Block, Apply!Drain, Apply!CopyBackup, Apply!ChangeLive,
     Apply!VerifyLive, Apply!UndoStarts, Apply!UndoEnds, Apply!OverwriteStarts, Apply!OverwriteEnds,
     Apply!StampLive, Apply!MarkReady, Apply!MarkError
<1>2. ASSUME NEW r \in Apply!Runs, Apply!Reconcile(r) PROVE UNCHANGED <<draft, run, lane>>
  BY <1>2 DEF Apply!Reconcile, Apply!Look, Apply!RecopyStarts, Apply!RecopyEnds, Apply!Restamp,
     Apply!Release
<1>3. ASSUME NEW r \in Apply!Runs, Apply!DiscardBackup(r) \/ Apply!PollStaleRun(r) \/ Apply!BootRun(r) PROVE UNCHANGED <<draft, run, lane>>
  BY <1>3 DEF Apply!DiscardBackup, Apply!PollStaleRun, Apply!BootRun
<1>4. ASSUME NEW d \in Apply!Drafts, Apply!DiscardDraft(d) PROVE UNCHANGED <<draft, run, lane>>
  BY <1>4 DEF Apply!DiscardDraft
<1>5. CASE Apply!WriteChecked \/ Apply!WriteAdmitted \/ Apply!WriteRuns \/ Apply!BootFiles
  BY <1>5 DEF Apply!WriteChecked, Apply!WriteAdmitted, Apply!WriteRuns, Apply!BootFiles
<1> QED
  BY <1>1, <1>2, <1>3, <1>4, <1>5 DEF ApplyStep, Apply!Next, applyVars

LEMMA FilesFrame == ApplyStep => FilesMove \/ UNCHANGED <<live, backup, written, discarded>>
<1> SUFFICES ASSUME ApplyStep, ~FilesMove PROVE UNCHANGED <<live, backup, written, discarded>>
  OBVIOUS
<1> USE DEF FilesMove, LiveSteps, Apply!files, Apply!rows, Apply!memory, Apply!ghosts
<1>1. ASSUME NEW r \in Apply!Runs, Apply!Execute(r) PROVE UNCHANGED <<live, backup, written, discarded>>
  BY <1>1 DEF Apply!Execute, Apply!DrainUses, Apply!MarkApplying, Apply!CheckDraft, Apply!EnterGate,
     Apply!MarkMigrating, Apply!Block, Apply!Drain, Apply!VerifyLive,
     Apply!MarkReady, Apply!MarkError, Apply!Finish, Apply!FailRun
<1>2. ASSUME NEW r \in Apply!Runs, Apply!Reconcile(r) PROVE UNCHANGED <<live, backup, written, discarded>>
  BY <1>2 DEF Apply!Reconcile, Apply!Look, Apply!Settle, Apply!Release
<1>3. ASSUME NEW r \in Apply!Runs, Starts(r) PROVE UNCHANGED <<live, backup, written, discarded>>
  BY <1>3 DEF Starts, Apply!Restore, Apply!PollStaleRun, Apply!BootRun
<1>4. ASSUME NEW d \in Apply!Drafts, Apply!CreateDraft(d) \/ Apply!ChangeDraft(d) \/ Apply!DiscardDraft(d) \/ Apply!ConfirmApply(d)
      PROVE UNCHANGED <<live, backup, written, discarded>>
  BY <1>4 DEF Apply!CreateDraft, Apply!ChangeDraft, Apply!DiscardDraft, Apply!ConfirmApply
<1>5. CASE Apply!WriteChecked \/ Apply!WriteAdmitted \/ Apply!DropFile \/ Apply!FinishDraftOperation \/ Apply!DiscardBackupRow \/ Apply!BootFiles \/ Apply!BootDone \/ Apply!Crash
  BY <1>5 DEF Apply!WriteChecked, Apply!WriteAdmitted, Apply!DropFile, Apply!FinishDraftOperation,
     Apply!DiscardBackupRow, Apply!BootFiles, Apply!BootDone, Apply!Crash
<1> QED
  BY <1>1, <1>2, <1>3, <1>4, <1>5 DEF ApplyStep, Apply!Next, Starts, applyVars

LEMMA TaskFrame == ApplyStep => TaskMove \/ UNCHANGED task
<1>1. ASSUME NEW d \in Apply!Drafts, Apply!CreateDraft(d) \/ Apply!ChangeDraft(d) \/ Apply!DiscardDraft(d) PROVE UNCHANGED task
  BY <1>1 DEF Apply!CreateDraft, Apply!ChangeDraft, Apply!DiscardDraft
<1>2. ASSUME NEW r \in Apply!Runs, Apply!DiscardBackup(r) PROVE UNCHANGED task
  BY <1>2 DEF Apply!DiscardBackup
<1>3. CASE Apply!WriteChecked \/ Apply!WriteAdmitted \/ Apply!WriteRuns \/ Apply!DropFile \/ Apply!FinishDraftOperation \/ Apply!DiscardBackupRow \/ Apply!BootFiles \/ Apply!BootDone
  BY <1>3 DEF Apply!WriteChecked, Apply!WriteAdmitted, Apply!WriteRuns, Apply!DropFile,
     Apply!FinishDraftOperation, Apply!DiscardBackupRow, Apply!BootFiles, Apply!BootDone
<1> QED
  BY <1>1, <1>2, <1>3 DEF ApplyStep, Apply!Next, TaskMove, Starts, applyVars, Apply!memory

-----------------------------------------------------------------------------
(* Types.                                                                  *)

FilesTyped == live \in Apply!File /\ backup \in [Apply!Runs -> Apply!File] /\ written \in Nat /\ discarded \in SUBSET Apply!Runs
DraftRows == [Apply!Drafts -> [status: {"none", "editing", "applying", "applied", "error", "discarded"},
                         proof: -1..MaxChanges, changes: 0..MaxChanges]]
RunRows == [Apply!Runs -> [status: Apply!Active \cup {"none", "succeeded", "failed", "recovered"},
                     of: Apply!Drafts \cup {0}, source: Apply!Runs \cup {0}, retained: BOOLEAN]]
RowsTyped ==
  /\ draft \in DraftRows /\ run \in RunRows
  /\ lane \in [op: Operations, of: Apply!Drafts \cup {0}]
  /\ lane # Apply!NoLane => lane.op # "none" /\ lane.of \in Apply!Drafts
Tasks == [Apply!Runs -> [pc: Places, out: {"none", "succeeded", "recovered", "failed"}, keep: BOOLEAN]]
StatesTyped ==
  /\ catalog \in {"ready", "migrating", "error"}
  /\ gate \in Apply!Runs \cup {0} /\ blocked \in BOOLEAN /\ writer \in {"none", "checked", "admitted"}
  /\ boot \in {"done", "files", "runs"}
  /\ dropping \in Apply!Drafts \cup {0} /\ discarding \in Apply!Runs \cup {0}

LEMMA TypesSplit == Typed <=> FilesTyped /\ RowsTyped /\ task \in Tasks /\ StatesTyped
BY DEF Typed, Apply!TypeOK, FilesTyped, RowsTyped, DraftRows, RunRows, Tasks, StatesTyped

LEMMA Stamped ==
  ASSUME NEW f \in Apply!File, NEW r \in Apply!Runs
  PROVE  [f EXCEPT !.marks = @ \cup {r}] \in Apply!File
BY DEF Apply!File

LEMMA FilesTypedKept ==
  ASSUME Apply!BoundsAssumption, FilesTyped, RowsTyped, task \in Tasks, RunsInv, ApplyStep
  PROVE  FilesTyped'
<1> USE BrokenFile DEF FilesTyped, Apply!At
<1>1. CASE Apply!WriteRuns
  BY <1>1 DEF Apply!WriteRuns, Apply!File
<1>2. ASSUME NEW r \in Apply!Runs, Apply!DiscardBackup(r) PROVE FilesTyped'
  BY <1>2 DEF Apply!DiscardBackup
<1>3. ASSUME NEW r \in Apply!Runs, Apply!CopyBackup(r) PROVE FilesTyped'
  BY <1>3 DEF Apply!CopyBackup, Apply!ghosts
<1>4. ASSUME NEW r \in Apply!Runs, Apply!ChangeLive(r) PROVE FilesTyped'
  <2>1. run[r].of \in Apply!Drafts
    BY <1>4 DEF Apply!ChangeLive, RunsInv, RowsTyped, RunRows, Applying
  <2>2. draft[run[r].of].changes \in 0..MaxChanges
    BY <2>1 DEF RowsTyped, DraftRows
  <2>3. Apply!Changed(r) \in Apply!File
    BY <2>1, <2>2 DEF Apply!Changed, Apply!File
  <2> QED
    BY <1>4, <2>3 DEF Apply!ChangeLive, Apply!ghosts
<1>5. ASSUME NEW r \in Apply!Runs, Apply!UndoStarts(r) \/ Apply!UndoEnds(r) PROVE FilesTyped'
  BY <1>5 DEF Apply!UndoStarts, Apply!UndoEnds, Apply!ghosts
<1>6. ASSUME NEW r \in Apply!Runs, Apply!OverwriteStarts(r) \/ Apply!OverwriteEnds(r) PROVE FilesTyped'
  <2>1. run[r].source \in Apply!Runs
    BY <1>6 DEF Apply!OverwriteStarts, Apply!OverwriteEnds, RunsInv, RowsTyped, RunRows, Restoring
  <2>2. backup[run[r].source] \in Apply!File /\ backup[run[r].source].writes \in Nat
    BY <2>1 DEF Apply!File
  <2> QED
    BY <1>6, <2>2 DEF Apply!OverwriteStarts, Apply!OverwriteEnds, Apply!ghosts
<1>7. ASSUME NEW r \in Apply!Runs, Apply!StampLive(r) \/ Apply!Restamp(r) PROVE FilesTyped'
  BY <1>7, Stamped DEF Apply!StampLive, Apply!Restamp, Apply!ghosts
<1>8. ASSUME NEW r \in Apply!Runs, Apply!RecopyStarts(r) \/ Apply!RecopyEnds(r) PROVE FilesTyped'
  <2>1. Apply!Baseline(r) \in Apply!Runs
    BY DEF Apply!Baseline, RowsTyped, RunRows
  <2>2. backup[Apply!Baseline(r)] \in Apply!File /\ backup[Apply!Baseline(r)].writes \in Nat
    BY <2>1 DEF Apply!File
  <2> QED
    BY <1>8, <2>2 DEF Apply!RecopyStarts, Apply!RecopyEnds, Apply!ghosts
<1> QED
  BY FilesFrame, <1>1, <1>2, <1>3, <1>4, <1>5, <1>6, <1>7, <1>8 DEF FilesMove, LiveSteps

RunStatuses == Apply!Active \cup {"none", "succeeded", "failed", "recovered"}
LEMMA RunUpdates ==
  ASSUME NEW f \in RunRows, NEW r \in Apply!Runs
  PROVE  /\ \A x \in RunStatuses : [f EXCEPT ![r].status = x] \in RunRows
         /\ \A x \in Apply!Drafts : [f EXCEPT ![r].of = x] \in RunRows
         /\ \A x \in Apply!Runs : [f EXCEPT ![r].source = x] \in RunRows
         /\ \A x \in BOOLEAN : [f EXCEPT ![r].retained = x] \in RunRows
<1>1. ASSUME NEW x \in RunStatuses PROVE [f EXCEPT ![r].status = x] \in RunRows
  BY DEF RunRows, RunStatuses
<1>2. ASSUME NEW x \in Apply!Drafts PROVE [f EXCEPT ![r].of = x] \in RunRows
  BY DEF RunRows
<1>3. ASSUME NEW x \in Apply!Runs PROVE [f EXCEPT ![r].source = x] \in RunRows
  BY DEF RunRows
<1>4. ASSUME NEW x \in BOOLEAN PROVE [f EXCEPT ![r].retained = x] \in RunRows
  BY DEF RunRows
<1> QED
  BY <1>1, <1>2, <1>3, <1>4

LEMMA RowsTypedKept ==
  ASSUME Apply!BoundsAssumption, FilesTyped, RowsTyped, StatesTyped, task \in Tasks, ApplyStep
  PROVE  RowsTyped'
<1> USE DEF RowsTyped, DraftRows, Apply!At
<1> Apply!Active \subseteq RunStatuses /\ {"none", "succeeded", "failed", "recovered"} \subseteq RunStatuses
  BY DEF RunStatuses
<1> "preparing" \in RunStatuses /\ "applying" \in RunStatuses
  BY DEF Apply!Active
<1> MaxChanges \in Nat
  BY DEF Apply!BoundsAssumption
<1>1. ASSUME NEW d \in Apply!Drafts, Apply!CreateDraft(d) \/ Apply!ChangeDraft(d) PROVE RowsTyped'
  BY <1>1 DEF Apply!CreateDraft, Apply!ChangeDraft, Operations, Apply!NoLane
<1>2. CASE Apply!DropFile
  BY <1>2 DEF Apply!DropFile, StatesTyped, Operations, Apply!NoLane
<1>3. CASE Apply!FinishDraftOperation
  <2>1. lane.of \in Apply!Drafts
    BY <1>3 DEF Apply!FinishDraftOperation
  <2>2. draft[lane.of] \in [status: {"none", "editing", "applying", "applied", "error", "discarded"},
                            proof: -1..MaxChanges, changes: 0..MaxChanges]
    BY <2>1
  <2>3. draft[lane.of].changes \in Int /\ draft[lane.of].proof \in -1..MaxChanges /\ draft[lane.of].changes >= 0
    BY <2>2
  <2>4. Apply!RowOf(lane.of) \in [status: {"none", "editing", "applying", "applied", "error", "discarded"},
                            proof: -1..MaxChanges, changes: 0..MaxChanges]
    BY <2>2, <2>3 DEF Apply!RowOf
  <2>5. draft' \in DraftRows
    BY <1>3, <2>1, <2>4 DEF Apply!FinishDraftOperation
  <2> QED
    BY <1>3, <2>5 DEF Apply!FinishDraftOperation, Apply!NoLane, Operations
<1>4. ASSUME NEW d \in Apply!Drafts, Apply!ConfirmApply(d) PROVE RowsTyped'
  <2>1. PICK r \in Apply!Runs : run' = [run EXCEPT ![r].status = "preparing", ![r].of = d]
    BY <1>4 DEF Apply!ConfirmApply, Apply!Unused
  <2>2. [run EXCEPT ![r].status = "preparing"] \in RunRows
    BY RunUpdates
  <2>3. run' \in RunRows
    BY <2>1, <2>2, RunUpdates
  <2>4. draft' \in DraftRows
    BY <1>4 DEF Apply!ConfirmApply
  <2> QED
    BY <1>4, <2>3, <2>4 DEF Apply!ConfirmApply
<1>5. ASSUME NEW s \in Apply!Runs, Apply!Restore(s) PROVE RowsTyped'
  <2>1. PICK r \in Apply!Runs : run' = [run EXCEPT ![r].status = "preparing", ![r].source = s]
    BY <1>5 DEF Apply!Restore, Apply!Unused
  <2>2. [run EXCEPT ![r].status = "preparing"] \in RunRows
    BY RunUpdates
  <2>3. run' \in RunRows
    BY <2>1, <2>2, RunUpdates
  <2> QED
    BY <1>5, <2>3 DEF Apply!Restore
<1>6. CASE Apply!DiscardBackupRow
  <2>1. PICK r \in Apply!Runs : r = discarding
    BY <1>6 DEF Apply!DiscardBackupRow, StatesTyped
  <2>2. run' \in RunRows
    <3>1. CASE run' = [run EXCEPT ![r].retained = FALSE]
      BY <3>1, RunUpdates
    <3> QED
      BY <1>6, <2>1, <3>1 DEF Apply!DiscardBackupRow
  <2> QED
    BY <1>6, <2>2 DEF Apply!DiscardBackupRow
<1>7. ASSUME NEW r \in Apply!Runs, Apply!MarkApplying(r) PROVE RowsTyped'
  BY <1>7, RunUpdates DEF Apply!MarkApplying
<1>8. ASSUME NEW r \in Apply!Runs, NEW out \in {"none", "succeeded", "recovered", "failed"}, NEW keep \in BOOLEAN,
             NEW other \in {"editing", "error"}, Apply!Settled(r, out, keep, other), UNCHANGED lane
      PROVE  RowsTyped'
  <2>1. run' \in RunRows
    <3>1. [run EXCEPT ![r].status = out] \in RunRows
      BY RunUpdates
    <3> QED
      BY <1>8, <3>1, RunUpdates DEF Apply!Settled
  <2>2. Apply!DraftAfter(out, other) \in {"applied", "editing", "error"}
    BY DEF Apply!DraftAfter
  <2>3. draft' \in DraftRows
    <3>1. CASE run[r].of = 0
      BY <1>8, <3>1 DEF Apply!Settled
    <3>2. CASE run[r].of # 0
      <4>1. PICK d \in Apply!Drafts : d = run[r].of
        BY <3>2 DEF RunRows
      <4>2. PICK x \in {"applied", "editing", "error"} : x = Apply!DraftAfter(out, other)
        BY <2>2
      <4>3. [draft EXCEPT ![d].status = x] \in DraftRows
        OBVIOUS
      <4> QED
        BY <1>8, <3>2, <4>1, <4>2, <4>3 DEF Apply!Settled
    <3> QED
      BY <3>1, <3>2
  <2> QED
    BY <1>8, <2>1, <2>3
<1>9. ASSUME NEW r \in Apply!Runs, Apply!Finish(r) PROVE RowsTyped'
  BY <1>8, <1>9 DEF Apply!Finish, Tasks
<1>10. ASSUME NEW r \in Apply!Runs, Apply!FailRun(r) PROVE RowsTyped'
  <2> run[r].retained \in BOOLEAN
    BY DEF RunRows
  <2> QED
    BY <1>8, <1>10 DEF Apply!FailRun
<1>11. ASSUME NEW r \in Apply!Runs, Apply!Settle(r) PROVE RowsTyped'
  BY <1>8, <1>11 DEF Apply!Settle, Tasks
<1>12. CASE Apply!Crash
  BY <1>12 DEF Apply!Crash, Apply!rows, Apply!NoLane, Operations
<1>13. CASE Apply!BootDone
  BY <1>13 DEF Apply!BootDone
<1> QED
  BY RowsFrame, <1>1, <1>2, <1>3, <1>4, <1>5, <1>6, <1>7, <1>9, <1>10, <1>11, <1>12, <1>13
  DEF RowsMove, LaneSteps, RowSteps

Outcomes == {"none", "succeeded", "recovered", "failed"}

LEMMA TaskGoes ==
  ASSUME task \in Tasks, NEW r \in Apply!Runs
  PROVE  /\ \A p \in Places : Apply!To(r, p) => task' \in Tasks
         /\ \A p \in Places, out \in Outcomes, keep \in BOOLEAN : Apply!ToWith(r, p, out, keep) => task' \in Tasks
         /\ Apply!Leave(r) => task' \in Tasks
<1>1. ASSUME NEW p \in Places, Apply!To(r, p) PROVE task' \in Tasks
  BY <1>1 DEF Tasks, Apply!To
<1>2. ASSUME NEW p \in Places, NEW out \in Outcomes, NEW keep \in BOOLEAN, Apply!ToWith(r, p, out, keep) PROVE task' \in Tasks
  BY <1>2 DEF Tasks, Apply!ToWith, Outcomes
<1>3. ASSUME Apply!Leave(r) PROVE task' \in Tasks
  BY <1>3 DEF Tasks, Apply!Leave, Apply!Idle, Places
<1> QED
  BY <1>1, <1>2, <1>3

LEMMA TasksTypedKept ==
  ASSUME FilesTyped, RowsTyped, task \in Tasks, ApplyStep
  PROVE  task' \in Tasks
<1> USE TaskGoes DEF Places, Begun, Applying, Restoring, Ending, Recopying, Outcomes
<1>1. ASSUME NEW d \in Apply!Drafts, Apply!ConfirmApply(d) PROVE task' \in Tasks
  BY <1>1 DEF Apply!ConfirmApply, Apply!Unused
<1>2. ASSUME NEW r \in Apply!Runs, Starts(r) PROVE task' \in Tasks
  BY <1>2 DEF Starts, Apply!Restore, Apply!PollStaleRun, Apply!BootRun, Apply!Unused
<1>3. ASSUME NEW r \in Apply!Runs, Apply!Execute(r) PROVE task' \in Tasks
  <2>1. CASE Apply!DrainUses(r) \/ Apply!MarkApplying(r) \/ Apply!CheckDraft(r) \/ Apply!EnterGate(r) \/ Apply!MarkMigrating(r) \/ Apply!Block(r) \/ Apply!Drain(r)
    BY <2>1 DEF Apply!DrainUses, Apply!MarkApplying, Apply!CheckDraft, Apply!EnterGate,
       Apply!MarkMigrating, Apply!Block, Apply!Drain
  <2>2. CASE Apply!CopyBackup(r) \/ Apply!ChangeLive(r) \/ Apply!VerifyLive(r) \/ Apply!UndoStarts(r) \/ Apply!UndoEnds(r)
    BY <2>2 DEF Apply!CopyBackup, Apply!ChangeLive, Apply!VerifyLive, Apply!UndoStarts, Apply!UndoEnds
  <2>3. CASE Apply!OverwriteStarts(r) \/ Apply!OverwriteEnds(r) \/ Apply!StampLive(r)
    BY <2>3 DEF Apply!OverwriteStarts, Apply!OverwriteEnds, Apply!StampLive
  <2>4. CASE Apply!MarkReady(r) \/ Apply!MarkError(r) \/ Apply!Finish(r) \/ Apply!FailRun(r)
    BY <2>4 DEF Apply!MarkReady, Apply!MarkError, Apply!Finish, Apply!FailRun
  <2> QED
    BY <1>3, <2>1, <2>2, <2>3, <2>4 DEF Apply!Execute
<1>4. ASSUME NEW r \in Apply!Runs, Apply!Reconcile(r) PROVE task' \in Tasks
  <2>1. backup[r].ok \in BOOLEAN /\ backup[Apply!Baseline(r)].ok \in BOOLEAN
    BY DEF FilesTyped, Apply!File, RowsTyped, RunRows, Apply!Baseline
  <2>2. CASE Apply!Look(r)
    <3>1. Apply!Verdict(r) \in [pc: Places, out: Outcomes, keep: BOOLEAN]
      BY <2>1 DEF Apply!Verdict
    <3> QED
      BY <2>2, <3>1 DEF Apply!Look, Tasks
  <2>3. Apply!Unrecoverable(r) => task' \in Tasks
    BY <2>1 DEF Apply!Unrecoverable
  <2>4. CASE Apply!RecopyStarts(r) \/ Apply!RecopyEnds(r) \/ Apply!Restamp(r) \/ Apply!Settle(r) \/ Apply!Release(r)
    BY <2>3, <2>4 DEF Apply!RecopyStarts, Apply!RecopyEnds, Apply!Restamp, Apply!Settle, Apply!Release
  <2> QED
    BY <1>4, <2>2, <2>4 DEF Apply!Reconcile
<1>5. CASE Apply!Crash
  BY <1>5 DEF Apply!Crash, Tasks, Apply!Idle
<1> QED
  BY TaskFrame, <1>1, <1>2, <1>3, <1>4, <1>5 DEF TaskMove

LEMMA StatesTypedKept ==
  ASSUME FilesTyped, StatesTyped, ApplyStep
  PROVE  StatesTyped'
<1> USE DEF StatesTyped, Apply!files, Apply!rows, Apply!memory, Apply!ghosts
<1>1. ASSUME NEW d \in Apply!Drafts, Apply!CreateDraft(d) \/ Apply!ChangeDraft(d) \/ Apply!DiscardDraft(d) \/ Apply!ConfirmApply(d) PROVE StatesTyped'
  BY <1>1 DEF Apply!CreateDraft, Apply!ChangeDraft, Apply!DiscardDraft, Apply!ConfirmApply
<1>2. ASSUME NEW r \in Apply!Runs, Apply!Restore(r) \/ Apply!DiscardBackup(r) \/ Apply!PollStaleRun(r) \/ Apply!BootRun(r) PROVE StatesTyped'
  BY <1>2 DEF Apply!Restore, Apply!DiscardBackup, Apply!PollStaleRun, Apply!BootRun
<1>3. ASSUME NEW r \in Apply!Runs, Apply!Execute(r) PROVE StatesTyped'
  <2>1. CASE Apply!DrainUses(r) \/ Apply!MarkApplying(r) \/ Apply!CheckDraft(r) \/ Apply!EnterGate(r) \/ Apply!MarkMigrating(r) \/ Apply!Block(r) \/ Apply!Drain(r)
    BY <2>1 DEF Apply!DrainUses, Apply!MarkApplying, Apply!CheckDraft, Apply!EnterGate,
       Apply!MarkMigrating, Apply!Block, Apply!Drain
  <2>2. CASE Apply!CopyBackup(r) \/ Apply!ChangeLive(r) \/ Apply!VerifyLive(r) \/ Apply!UndoStarts(r) \/ Apply!UndoEnds(r)
    BY <2>2 DEF Apply!CopyBackup, Apply!ChangeLive, Apply!VerifyLive, Apply!UndoStarts, Apply!UndoEnds
  <2>3. CASE Apply!OverwriteStarts(r) \/ Apply!OverwriteEnds(r) \/ Apply!StampLive(r)
    BY <2>3 DEF Apply!OverwriteStarts, Apply!OverwriteEnds, Apply!StampLive
  <2>4. CASE Apply!MarkReady(r) \/ Apply!MarkError(r) \/ Apply!Finish(r) \/ Apply!FailRun(r)
    BY <2>4 DEF Apply!MarkReady, Apply!MarkError, Apply!Finish, Apply!FailRun
  <2> QED
    BY <1>3, <2>1, <2>2, <2>3, <2>4 DEF Apply!Execute
<1>4. ASSUME NEW r \in Apply!Runs, Apply!Reconcile(r) PROVE StatesTyped'
  <2>1. CASE Apply!Look(r) \/ Apply!Settle(r) \/ Apply!Release(r)
    BY <2>1 DEF Apply!Look, Apply!Settle, Apply!Release
  <2>2. CASE Apply!RecopyStarts(r) \/ Apply!RecopyEnds(r) \/ Apply!Restamp(r)
    BY <2>2 DEF Apply!RecopyStarts, Apply!RecopyEnds, Apply!Restamp, Apply!Unrecoverable
  <2> QED
    BY <1>4, <2>1, <2>2 DEF Apply!Reconcile
<1>5. CASE Apply!WriteChecked \/ Apply!WriteAdmitted \/ Apply!WriteRuns \/ Apply!DropFile \/ Apply!FinishDraftOperation
  BY <1>5 DEF Apply!WriteChecked, Apply!WriteAdmitted, Apply!WriteRuns, Apply!DropFile,
     Apply!FinishDraftOperation
<1>6. CASE Apply!DiscardBackupRow \/ Apply!BootFiles \/ Apply!BootDone \/ Apply!Crash
  BY <1>6 DEF Apply!DiscardBackupRow, Apply!BootFiles, Apply!BootDone, Apply!Crash
<1> QED
  BY <1>1, <1>2, <1>3, <1>4, <1>5, <1>6 DEF ApplyStep, Apply!Next, applyVars

LEMMA TypedKept ==
  ASSUME Apply!BoundsAssumption, Typed, RunsInv, ApplyStep
  PROVE  Typed'
<1>1. FilesTyped /\ RowsTyped /\ task \in Tasks /\ StatesTyped
  BY TypesSplit
<1>2. FilesTyped' /\ RowsTyped' /\ task' \in Tasks /\ StatesTyped'
  BY <1>1, FilesTypedKept, RowsTypedKept, TasksTypedKept, StatesTypedKept
<1>3. (FilesTyped /\ RowsTyped /\ task \in Tasks /\ StatesTyped)' => Typed'
  BY TypesSplit, PTL
<1>4. task' \in Tasks => (task \in Tasks)'
  BY DEF Tasks, Apply!Runs
<1> QED
  BY <1>2, <1>3, <1>4

-----------------------------------------------------------------------------
(* One open run, and one task that works for it.                           *)

LEMMA Alone ==
  ASSUME RunsInv, NEW r \in Apply!Runs, task[r].pc \notin {"idle", "release"}
  PROVE  /\ IsActive(r)
         /\ \A q \in Apply!Runs : q # r => ~IsActive(q) /\ task[q].pc \in {"idle", "release"}
BY DEF RunsInv

\* What the invariant says of one run.
RunSound(r) ==
  /\ task[r].pc \notin {"idle", "release"} => IsActive(r)
  /\ task[r].pc # "idle" => run[r].status # "none"
  /\ run[r].status = "none" => run[r].of = 0 /\ run[r].source = 0
  /\ run[r].status # "none" => (run[r].of # 0 <=> run[r].source = 0)
  /\ run[r].retained => ~IsActive(r) /\ run[r].status # "none"
  /\ task[r].pc \in {"check"} \cup Applying => run[r].of # 0
  /\ task[r].pc \in Restoring \cup {"restamp"} => run[r].of = 0
  /\ task[r].pc \in {"reopen", "finish", "settle"} => task[r].out # "none"
  /\ task[r].pc \in {"reopen", "finish"} => task[r].out # "failed"
  /\ task[r].pc \in Recopying => task[r].out = "recovered"
AllSound == \A r \in Apply!Runs : RunSound(r)
OneActive == \A r, q \in Apply!Runs : IsActive(r) /\ IsActive(q) => r = q

LEMMA RunByRun == RunsInv <=> OneActive /\ AllSound
BY DEF RunsInv, OneActive, AllSound, RunSound

LEMMA RunByRunNext == OneActive' /\ AllSound' => RunsInv'
BY RunByRun, PTL

\* A step of the task of one run that leaves the rows.
LEMMA RunsByTask ==
  ASSUME RunsInv, run' = run, NEW r \in Apply!Runs, \A q \in Apply!Runs : q # r => task'[q] = task[q], RunSound(r)'
  PROVE  RunsInv'
<1>1. OneActive'
  BY RunByRun DEF OneActive, IsActive, Apply!Runs
<1>2. ASSUME NEW q \in Apply!Runs, q # r PROVE RunSound(q)'
  BY <1>2, RunByRun DEF AllSound, RunSound, IsActive
<1>3. AllSound'
  BY <1>2 DEF AllSound, Apply!Runs
<1> QED
  BY <1>1, <1>3, RunByRunNext

\* A run that is settled: its task has ended or goes on to the release.
LEMMA RunsBySettling ==
  ASSUME Typed, RunsInv, NEW r \in Apply!Runs, IsActive(r),
         NEW out \in {"succeeded", "recovered", "failed"}, NEW keep \in BOOLEAN, NEW other, Apply!Settled(r, out, keep, other),
         \A q \in Apply!Runs : q # r => task'[q] = task[q], task'[r].pc \in {"idle", "release"}
  PROVE  RunsInv'
<1> USE DEF Typed, Apply!TypeOK
<1>1. /\ \A q \in Apply!Runs : q # r => run'[q] = run[q]
      /\ run'[r].status = out /\ run'[r].of = run[r].of /\ run'[r].source = run[r].source
  BY DEF Apply!Settled
<1>2. OneActive'
  BY <1>1, RunByRun DEF OneActive, IsActive, Apply!Runs, Apply!Active
<1>3. RunSound(r) /\ ~IsActive(r)' /\ run[r].status # "none" /\ run'[r].status # "none"
  BY <1>1, RunByRun DEF IsActive, Apply!Active, AllSound
<1>4. RunSound(r)'
  BY <1>1, <1>3 DEF RunSound, Applying, Restoring, Recopying
<1>5. ASSUME NEW q \in Apply!Runs, q # r PROVE RunSound(q)'
  BY <1>1, <1>5, RunByRun DEF AllSound, RunSound, IsActive
<1>6. AllSound'
  BY <1>4, <1>5 DEF AllSound, Apply!Runs
<1> QED
  BY <1>2, <1>6, RunByRunNext

\* A run that begins.
LEMMA RunsByStart ==
  ASSUME Typed, RunsInv, Apply!NoActive, NEW r \in Apply!Runs, run[r].status = "none",
         \A q \in Apply!Runs : q # r => run'[q] = run[q] /\ task'[q] = task[q],
         run'[r].status = "preparing", run'[r].of # 0 <=> run'[r].source = 0, run'[r].retained = FALSE,
         task'[r].pc = "uses"
  PROVE  RunsInv'
<1>1. OneActive'
  BY DEF OneActive, IsActive, Apply!Runs, Apply!NoActive
<1>2. RunSound(r)'
  BY DEF RunSound, IsActive, Apply!Active, Applying, Restoring, Recopying
<1>3. ASSUME NEW q \in Apply!Runs, q # r PROVE RunSound(q)'
  BY <1>3, RunByRun DEF AllSound, RunSound, IsActive
<1>4. AllSound'
  BY <1>2, <1>3 DEF AllSound, Apply!Runs
<1> QED
  BY <1>1, <1>4, RunByRunNext

LEMMA RunsKept ==
  ASSUME Typed, RunsInv, ApplyStep
  PROVE  RunsInv'
<1> USE DEF Apply!At
<1>1. task \in Tasks /\ run \in RunRows
  BY DEF Typed, Apply!TypeOK, Tasks, RunRows
<1>2. \A r \in Apply!Runs : RunSound(r)
  BY RunByRun DEF AllSound
<1>3. ASSUME NEW r \in Apply!Runs, Apply!Execute(r), run' = run PROVE RunsInv'
  <2> USE <1>1, <1>2 DEF Apply!To, Apply!ToWith, Tasks, RunSound, IsActive, Begun, Applying, Restoring,
  Recopying, Apply!rows
  <2>1. CASE Apply!DrainUses(r) \/ Apply!MarkApplying(r) \/ Apply!CheckDraft(r) \/ Apply!EnterGate(r) \/ Apply!MarkMigrating(r) \/ Apply!Block(r) \/ Apply!Drain(r)
    <3>1. RunSound(r)' /\ \A q \in Apply!Runs : q # r => task'[q] = task[q]
      BY <1>3, <2>1 DEF Apply!DrainUses, Apply!MarkApplying, Apply!CheckDraft, Apply!EnterGate,
         Apply!MarkMigrating, Apply!Block, Apply!Drain
    <3> QED
      BY <1>3, <3>1, RunsByTask
  <2>2. CASE Apply!CopyBackup(r) \/ Apply!ChangeLive(r) \/ Apply!VerifyLive(r) \/ Apply!UndoStarts(r) \/ Apply!UndoEnds(r)
    <3>1. RunSound(r)' /\ \A q \in Apply!Runs : q # r => task'[q] = task[q]
      BY <1>3, <2>2 DEF Apply!CopyBackup, Apply!ChangeLive, Apply!VerifyLive, Apply!UndoStarts,
         Apply!UndoEnds
    <3> QED
      BY <1>3, <3>1, RunsByTask
  <2>3. CASE Apply!OverwriteStarts(r) \/ Apply!OverwriteEnds(r) \/ Apply!StampLive(r) \/ Apply!MarkReady(r) \/ Apply!MarkError(r)
    <3>1. RunSound(r)' /\ \A q \in Apply!Runs : q # r => task'[q] = task[q]
      BY <1>3, <2>3 DEF Apply!OverwriteStarts, Apply!OverwriteEnds, Apply!StampLive, Apply!MarkReady,
         Apply!MarkError
    <3> QED
      BY <1>3, <3>1, RunsByTask
  <2>4. CASE Apply!Finish(r) \/ Apply!FailRun(r)
    <3>1. RunSound(r)' /\ \A q \in Apply!Runs : q # r => task'[q] = task[q]
      BY <1>3, <2>4 DEF Apply!Finish, Apply!FailRun, Apply!Settled, Apply!Leave, Apply!Idle
    <3> QED
      BY <1>3, <3>1, RunsByTask
  <2> QED
    BY <1>3, <2>1, <2>2, <2>3, <2>4 DEF Apply!Execute
<1>4. ASSUME NEW r \in Apply!Runs, Apply!Reconcile(r), run' = run PROVE RunsInv'
  <2> USE <1>1, <1>2 DEF Apply!To, Apply!ToWith, Apply!Leave, Tasks, RunSound, IsActive, Begun, Applying,
  Restoring, Recopying
  <2>1. CASE Apply!Look(r)
    <3>1. RunSound(r)' /\ \A q \in Apply!Runs : q # r => task'[q] = task[q]
      BY <1>4, <2>1 DEF Apply!Look, Apply!Verdict
    <3> QED
      BY <1>4, <3>1, RunsByTask
  <2>2. CASE Apply!RecopyStarts(r) \/ Apply!RecopyEnds(r) \/ Apply!Restamp(r)
    <3>1. RunSound(r)' /\ \A q \in Apply!Runs : q # r => task'[q] = task[q]
      BY <1>4, <2>2 DEF Apply!RecopyStarts, Apply!RecopyEnds, Apply!Restamp, Apply!Unrecoverable
    <3> QED
      BY <1>4, <3>1, RunsByTask
  <2>3. CASE Apply!Settle(r) \/ Apply!Release(r)
    <3>1. RunSound(r)' /\ \A q \in Apply!Runs : q # r => task'[q] = task[q]
      BY <1>4, <2>3 DEF Apply!Settle, Apply!Release, Apply!Settled, Apply!Idle
    <3> QED
      BY <1>4, <3>1, RunsByTask
  <2> QED
    BY <1>4, <2>1, <2>2, <2>3 DEF Apply!Reconcile
<1>5. ASSUME NEW r \in Apply!Runs, Apply!PollStaleRun(r) \/ Apply!BootRun(r) PROVE RunsInv'
  <2>1. RunSound(r)' /\ run' = run /\ \A q \in Apply!Runs : q # r => task'[q] = task[q]
    BY <1>1, <1>2, <1>5 DEF Apply!PollStaleRun, Apply!BootRun, Apply!Unowned, Apply!To, Tasks, RunSound,
       IsActive, Apply!Active, Apply!Idle, Applying, Restoring, Recopying, Apply!rows
  <2> QED
    BY <2>1, RunsByTask
<1>6. ASSUME NEW r \in Apply!Runs, Apply!MarkApplying(r) PROVE RunsInv'
  <2>1. CASE run' = run
    BY <1>3, <1>6, <2>1 DEF Apply!Execute
  <2>2. CASE run' = [run EXCEPT ![r].status = "applying"] /\ Apply!To(r, IF run[r].of # 0 THEN "check" ELSE "gate")
    <3>1. IsActive(r)
      BY <1>6, Alone DEF Apply!MarkApplying
    <3>2. /\ \A q \in Apply!Runs : q # r => run'[q] = run[q] /\ task'[q] = task[q]
          /\ run'[r] = [run[r] EXCEPT !.status = "applying"]
          /\ task'[r].pc = IF run[r].of # 0 THEN "check" ELSE "gate"
      BY <1>1, <2>2 DEF Apply!To, Tasks, RunRows
    <3>3. OneActive'
      BY <3>1, <3>2, RunByRun DEF OneActive, IsActive, Apply!Active, Apply!Runs
    <3>4. RunSound(r)'
      BY <1>1, <1>2, <3>1, <3>2 DEF RunSound, IsActive, Apply!Active, Applying, Restoring, Recopying,
         RunRows
    <3>5. ASSUME NEW q \in Apply!Runs, q # r PROVE RunSound(q)'
      BY <1>2, <3>2, <3>5 DEF RunSound, IsActive
    <3>6. AllSound'
      BY <3>4, <3>5 DEF AllSound, Apply!Runs
    <3> QED
      BY <3>3, <3>6, RunByRunNext
  <2> QED
    BY <1>6, <2>1, <2>2 DEF Apply!MarkApplying
<1>7. ASSUME NEW r \in Apply!Runs, Apply!Finish(r) \/ Apply!FailRun(r) \/ Apply!Settle(r) PROVE RunsInv'
  <2>1. CASE run' = run
    BY <1>3, <1>4, <1>7, <2>1 DEF Apply!Execute, Apply!Reconcile
  <2>2. CASE run' # run
    <3>1. IsActive(r)
      BY <1>7, Alone DEF Apply!Finish, Apply!FailRun, Apply!Settle
    <3>2. /\ \A q \in Apply!Runs : q # r => task'[q] = task[q]
          /\ task'[r].pc \in {"idle", "release"}
      BY <1>1, <1>7, <2>2 DEF Apply!Finish, Apply!FailRun, Apply!Settle, Apply!Leave, Apply!To, Apply!Idle,
         Tasks
    <3>3. \E out \in {"succeeded", "recovered", "failed"}, keep \in BOOLEAN, other \in {"editing", "error"} :
            Apply!Settled(r, out, keep, other)
      BY <1>1, <1>2, <1>7, <2>2 DEF Apply!Finish, Apply!FailRun, Apply!Settle, RunSound, Tasks, RunRows
    <3> QED
      BY <3>1, <3>2, <3>3, RunsBySettling
  <2> QED
    BY <2>1, <2>2
<1>8. ASSUME NEW d \in Apply!Drafts, Apply!ConfirmApply(d) PROVE RunsInv'
  <2>1. PICK r \in Apply!Runs : r \in Apply!Unused /\ run' = [run EXCEPT ![r].status = "preparing", ![r].of = d] /\ Apply!To(r, "uses")
    BY <1>8 DEF Apply!ConfirmApply, Apply!Unused
  <2>2. run[r].status = "none" /\ run[r].source = 0 /\ run[r].retained = FALSE
    BY <1>1, <1>2, <2>1 DEF Apply!Unused, RunSound, RunRows
  <2>3. /\ \A q \in Apply!Runs : q # r => run'[q] = run[q] /\ task'[q] = task[q]
        /\ run'[r] = [run[r] EXCEPT !.status = "preparing", !.of = d] /\ task'[r].pc = "uses"
    BY <1>1, <2>1 DEF Apply!To, Tasks, RunRows
  <2>4. /\ run'[r].status = "preparing" /\ run'[r].of = d /\ d # 0
        /\ run'[r].source = 0 /\ run'[r].retained = FALSE
    BY <1>1, <2>2, <2>3 DEF RunRows, Apply!Drafts
  <2> QED
    BY <1>8, <2>2, <2>3, <2>4, RunsByStart DEF Apply!ConfirmApply
<1>9. ASSUME NEW s \in Apply!Runs, Apply!Restore(s) PROVE RunsInv'
  <2>1. PICK r \in Apply!Runs : r \in Apply!Unused /\ run' = [run EXCEPT ![r].status = "preparing", ![r].source = s] /\ Apply!To(r, "uses")
    BY <1>9 DEF Apply!Restore, Apply!Unused
  <2>2. run[r].status = "none" /\ run[r].of = 0 /\ run[r].retained = FALSE
    BY <1>1, <1>2, <2>1 DEF Apply!Unused, RunSound, RunRows
  <2>3. /\ \A q \in Apply!Runs : q # r => run'[q] = run[q] /\ task'[q] = task[q]
        /\ run'[r] = [run[r] EXCEPT !.status = "preparing", !.source = s] /\ task'[r].pc = "uses"
    BY <1>1, <2>1 DEF Apply!To, Tasks, RunRows
  <2>4. /\ run'[r].status = "preparing" /\ run'[r].of = 0 /\ s # 0
        /\ run'[r].source = s /\ run'[r].retained = FALSE
    BY <1>1, <2>2, <2>3 DEF RunRows, Apply!Runs
  <2> QED
    BY <1>9, <2>2, <2>3, <2>4, RunsByStart DEF Apply!Restore
<1>10. CASE Apply!DiscardBackupRow
  <2>1. PICK r \in Apply!Runs : r = discarding
    BY <1>10 DEF Apply!DiscardBackupRow, Typed, Apply!TypeOK
  <2>2. task' = task /\ \A q \in Apply!Runs : /\ run'[q].status = run[q].status /\ run'[q].of = run[q].of
                                       /\ run'[q].source = run[q].source /\ (run'[q].retained => run[q].retained)
    BY <1>1, <1>10, <2>1 DEF Apply!DiscardBackupRow, RunRows
  <2>3. OneActive' /\ AllSound'
    BY <1>2, <2>2, RunByRun DEF OneActive, AllSound, RunSound, IsActive, Apply!Runs
  <2> QED
    BY <2>3, RunByRunNext
<1>11. CASE Apply!Crash
  <2>1. run' = run /\ \A q \in Apply!Runs : task'[q].pc = "idle"
    BY <1>11 DEF Apply!Crash, Apply!Idle, Apply!rows
  <2>2. OneActive' /\ AllSound'
    BY <1>2, <2>1, RunByRun DEF OneActive, AllSound, RunSound, IsActive, Apply!Runs, Applying, Restoring,
       Recopying
  <2> QED
    BY <2>2, RunByRunNext
<1>12. CASE run' = run /\ task' = task
  <2>1. OneActive' /\ AllSound'
    BY <1>12, RunByRun DEF OneActive, AllSound, RunSound, IsActive, Apply!Runs
  <2> QED
    BY <2>1, RunByRunNext
<1>13. LaneSteps \/ Apply!BootDone => run' = run /\ task' = task
  BY DEF LaneSteps, Apply!DropFile, Apply!FinishDraftOperation, Apply!CreateDraft, Apply!ChangeDraft,
     Apply!BootDone
<1> QED
  BY RowsFrame, TaskFrame, <1>3, <1>4, <1>5, <1>6, <1>7, <1>8, <1>9, <1>10, <1>11, <1>12, <1>13
  DEF RowsMove, RowSteps, TaskMove, Starts

-----------------------------------------------------------------------------
(* The drafts follow the open run.                                         *)

LEMMA DraftsBySettling ==
  ASSUME Typed, RunsInv, DraftsInv, NEW r \in Apply!Runs, IsActive(r),
         NEW out \in {"succeeded", "recovered", "failed"}, NEW keep \in BOOLEAN, NEW other \in {"editing", "error"},
         Apply!Settled(r, out, keep, other), UNCHANGED lane
  PROVE  DraftsInv'
<1>1. draft \in DraftRows /\ run \in RunRows
  BY DEF Typed, Apply!TypeOK, DraftRows, RunRows
<1>2. /\ \A q \in Apply!Runs : run'[q].of = run[q].of
      /\ \A q \in Apply!Runs : q # r => run'[q].status = run[q].status
      /\ run'[r].status = out
  BY <1>1 DEF Apply!Settled, RunRows
<1>3. \A q \in Apply!Runs : ~IsActive(q)'
  BY <1>2 DEF IsActive, Apply!Active, RunsInv
<1>4. Apply!DraftAfter(out, other) \in {"applied", "editing", "error"}
  BY DEF Apply!DraftAfter
<1>5. \A d \in Apply!Drafts : draft[d].status = "applying" => d = run[r].of
  BY DEF DraftsInv, RunsInv
<1>6. CASE run[r].of = 0
  <2>1. UNCHANGED <<draft, lane>>
    BY <1>6 DEF Apply!Settled
  <2>2. \A d \in Apply!Drafts : draft[d].status # "applying"
    BY <1>5, <1>6 DEF Apply!Drafts
  <2>3. \A d \in Apply!Drafts : draft'[d].status = "applying" <=> \E q \in Apply!Runs : run'[q].of = d /\ IsActive(q)'
    BY <1>3, <2>1, <2>2
  <2> QED
    BY <2>1, <2>3 DEF DraftsInv, Apply!Drafts, Apply!Runs, IsActive
<1>7. CASE run[r].of # 0
  <2>1. run[r].of \in Apply!Drafts /\ draft[run[r].of].status = "applying"
    BY <1>1, <1>7 DEF DraftsInv, RunRows
  <2>2. /\ \A d \in Apply!Drafts : d # run[r].of => draft'[d] = draft[d]
        /\ draft'[run[r].of].status = Apply!DraftAfter(out, other)
    BY <1>1, <1>7, <2>1 DEF Apply!Settled, DraftRows
  <2>3. \A d \in Apply!Drafts : draft'[d].status # "applying"
    BY <1>4, <1>5, <2>2
  <2>4. \A d \in Apply!Drafts : draft'[d].status = "editing" => draft[d].status \in {"editing", "applying"}
    BY <2>1, <2>2
  <2>5. \A d, e \in Apply!Drafts : {draft'[d].status, draft'[e].status} \subseteq {"editing", "applying"} => d = e
    BY <2>3, <2>4 DEF DraftsInv
  <2>6. lane.op \in {"create", "change"} => draft'[lane.of].status = "editing"
    BY <1>1, <2>1, <2>2 DEF DraftsInv, Typed, Apply!NoLane
  <2> QED
    BY <1>3, <2>3, <2>5, <2>6 DEF DraftsInv, Apply!Drafts, Apply!Runs, IsActive
<1> QED
  BY <1>6, <1>7

LEMMA DraftsKept ==
  ASSUME Typed, RunsInv, DraftsInv, ApplyStep
  PROVE  DraftsInv'
<1> USE DEF Apply!At
<1>1. draft \in DraftRows /\ run \in RunRows /\ task \in Tasks
  BY DEF Typed, Apply!TypeOK, DraftRows, RunRows, Tasks
<1>2. CASE UNCHANGED <<draft, run, lane>>
  BY <1>2 DEF DraftsInv, IsActive, Apply!Drafts, Apply!Runs
\* Only the draft in the lane changes, and not to or from applying.
<1>3. ASSUME NEW d \in Apply!Drafts, run' = run, \A e \in Apply!Drafts : e # d => draft'[e].status = draft[e].status,
             draft'[d].status = "applying" <=> draft[d].status = "applying",
             draft'[d].status = "editing" => draft[d].status = "editing" \/ \A e \in Apply!Drafts : draft[e].status \notin {"editing", "applying"},
             lane'.op \in {"create", "change"} => lane'.of = d /\ draft'[d].status = "editing"
      PROVE  DraftsInv'
  BY <1>3 DEF DraftsInv, IsActive, Apply!Drafts, Apply!Runs
<1>4. ASSUME NEW d \in Apply!Drafts, Apply!CreateDraft(d) \/ Apply!ChangeDraft(d) PROVE DraftsInv'
  BY <1>1, <1>3, <1>4 DEF Apply!CreateDraft, Apply!ChangeDraft, DraftRows
<1>5. CASE Apply!DropFile
  <2>1. PICK d \in Apply!Drafts : d = dropping
    BY <1>5 DEF Apply!DropFile, Typed, Apply!TypeOK
  <2> QED
    BY <1>1, <1>3, <1>5, <2>1 DEF Apply!DropFile, DraftRows
<1>6. CASE Apply!FinishDraftOperation
  <2>1. PICK d \in Apply!Drafts : d = lane.of
    BY <1>6 DEF Apply!FinishDraftOperation, Typed
  <2>2. Apply!RowOf(d).status \in {draft[d].status, "error", "discarded"}
    BY <1>1, <2>1 DEF Apply!RowOf, DraftRows
  <2>3. draft[d].status = "applying" => Apply!RowOf(d).status = "applying"
    BY <1>1, <2>1 DEF Apply!RowOf, DraftRows, DraftsInv
  <2>4. lane.op = "create" => draft[d].status = "editing"
    BY <2>1 DEF DraftsInv
  <2>5. \A e \in Apply!Drafts : e # d => draft'[e].status = draft[e].status
    BY <1>1, <1>6, <2>1 DEF Apply!FinishDraftOperation, DraftRows
  <2>6. draft'[d] \in {draft[d], Apply!RowOf(d), [draft[d] EXCEPT !.status = "error"]}
    BY <1>1, <1>6, <2>1 DEF Apply!FinishDraftOperation, DraftRows
  <2>7. draft'[d].status \in {draft[d].status, "error", "discarded"}
    BY <1>1, <2>2, <2>6 DEF DraftRows
  <2>8. draft[d].status = "applying" => draft'[d].status = "applying"
    BY <1>1, <1>6, <2>1, <2>3, <2>4 DEF Apply!FinishDraftOperation, DraftRows
  <2> QED
    BY <1>3, <1>6, <2>5, <2>7, <2>8 DEF Apply!FinishDraftOperation, Apply!NoLane
<1>7. ASSUME NEW d \in Apply!Drafts, Apply!ConfirmApply(d) PROVE DraftsInv'
  <2>1. PICK r \in Apply!Runs : run' = [run EXCEPT ![r].status = "preparing", ![r].of = d]
    BY <1>7 DEF Apply!ConfirmApply, Apply!Unused
  <2>2. /\ \A q \in Apply!Runs : q # r => run'[q] = run[q]
        /\ run'[r].status = "preparing" /\ run'[r].of = d
    BY <1>1, <2>1 DEF RunRows
  <2>3. /\ \A e \in Apply!Drafts : e # d => draft'[e] = draft[e] /\ draft[e].status \notin {"editing", "applying"}
        /\ draft'[d].status = "applying" /\ lane' = Apply!NoLane
    BY <1>1, <1>7 DEF Apply!ConfirmApply, DraftRows, DraftsInv, Apply!LaneFree
  <2>4. \A q \in Apply!Runs : q # r => ~IsActive(q)'
    BY <1>7, <2>2 DEF Apply!ConfirmApply, Apply!NoActive, IsActive
  <2>5. \A e \in Apply!Drafts : draft'[e].status = "applying" <=> \E q \in Apply!Runs : run'[q].of = e /\ IsActive(q)'
    BY <2>2, <2>3, <2>4 DEF IsActive, Apply!Active
  <2> QED
    BY <2>3, <2>5 DEF DraftsInv, Apply!NoLane, Apply!Drafts, Apply!Runs, IsActive
<1>8. ASSUME NEW s \in Apply!Runs, Apply!Restore(s) PROVE DraftsInv'
  <2>1. PICK r \in Apply!Runs : r \in Apply!Unused /\ run' = [run EXCEPT ![r].status = "preparing", ![r].source = s]
    BY <1>8 DEF Apply!Restore, Apply!Unused
  <2>2. /\ \A q \in Apply!Runs : q # r => run'[q] = run[q]
        /\ run'[r].of = 0
    BY <1>1, <2>1 DEF RunRows, Apply!Unused, RunsInv
  <2>3. \A e \in Apply!Drafts : draft[e].status # "applying"
    BY <1>8 DEF Apply!Restore, DraftsInv, Apply!NoActive, IsActive
  <2>4. \A q \in Apply!Runs : q # r => ~IsActive(q)'
    BY <1>8, <2>2 DEF Apply!Restore, Apply!NoActive, IsActive
  <2>5. UNCHANGED <<draft, lane>>
    BY <1>8 DEF Apply!Restore
  <2>6. \A d \in Apply!Drafts : draft'[d].status = "applying" <=> \E q \in Apply!Runs : run'[q].of = d /\ IsActive(q)'
    BY <2>2, <2>3, <2>4, <2>5 DEF Apply!Drafts
  <2> QED
    BY <2>5, <2>6 DEF DraftsInv, Apply!Drafts, Apply!Runs, IsActive
<1>9. CASE Apply!DiscardBackupRow
  <2>1. PICK r \in Apply!Runs : r = discarding
    BY <1>9 DEF Apply!DiscardBackupRow, Typed, Apply!TypeOK
  <2>2. \A q \in Apply!Runs : run'[q].status = run[q].status /\ run'[q].of = run[q].of
    BY <1>1, <1>9, <2>1 DEF Apply!DiscardBackupRow, RunRows
  <2> QED
    BY <1>9, <2>2 DEF DraftsInv, Apply!DiscardBackupRow, IsActive, Apply!Drafts, Apply!Runs
<1>10. ASSUME NEW r \in Apply!Runs, Apply!MarkApplying(r) PROVE DraftsInv'
  <2>1. IsActive(r)
    BY <1>10, Alone DEF Apply!MarkApplying
  <2>2. \A q \in Apply!Runs : run'[q].of = run[q].of /\ (IsActive(q)' <=> IsActive(q))
    BY <1>1, <1>10, <2>1 DEF Apply!MarkApplying, RunRows, IsActive, Apply!Active
  <2> QED
    BY <1>10, <2>2 DEF DraftsInv, Apply!MarkApplying, Apply!Drafts, Apply!Runs, IsActive
<1>11. ASSUME NEW r \in Apply!Runs, Apply!Finish(r) \/ Apply!FailRun(r) \/ Apply!Settle(r), run' # run PROVE DraftsInv'
  <2>1. IsActive(r)
    BY <1>11, Alone DEF Apply!Finish, Apply!FailRun, Apply!Settle
  <2>2. \E out \in {"succeeded", "recovered", "failed"}, keep \in BOOLEAN, other \in {"editing", "error"} :
            Apply!Settled(r, out, keep, other)
    BY <1>1, <1>11 DEF Apply!Finish, Apply!FailRun, Apply!Settle, RunsInv, Tasks, RunRows
  <2> QED
    BY <1>11, <2>1, <2>2, DraftsBySettling DEF Apply!Finish, Apply!FailRun, Apply!Settle
<1>12. ASSUME NEW r \in Apply!Runs, Apply!Finish(r) \/ Apply!FailRun(r) \/ Apply!Settle(r), run' = run PROVE DraftsInv'
  <2>1. Typed /\ IsActive(r) /\ run[r].status # "failed"
    BY <1>12, Alone DEF Apply!Finish, Apply!FailRun, Apply!Settle, IsActive, Apply!Active
  <2>2. UNCHANGED <<draft, lane>>
    BY <1>1, <1>12, <2>1 DEF Apply!Finish, Apply!FailRun, Apply!Settle, Apply!Settled, RunRows, Tasks,
       IsActive, RunsInv, Apply!Active
  <2> QED
    BY <1>2, <1>12, <2>2
<1>13. CASE Apply!Crash
  BY <1>13 DEF Apply!Crash, DraftsInv, IsActive, Apply!NoLane, Apply!rows, Apply!Drafts, Apply!Runs
<1>14. CASE Apply!BootDone
  <2>1. \A d \in Apply!Drafts : ~Apply!Orphaned(d)
    BY DEF Apply!Orphaned, DraftsInv, IsActive
  <2>2. draft' = draft
    BY <1>1, <1>14, <2>1 DEF Apply!BootDone, DraftRows
  <2> QED
    BY <1>2, <1>14, <2>2 DEF Apply!BootDone
<1> QED
  BY RowsFrame, <1>2, <1>4, <1>5, <1>6, <1>7, <1>8, <1>9, <1>10, <1>11, <1>12, <1>13, <1>14
  DEF RowsMove, LaneSteps, RowSteps

-----------------------------------------------------------------------------
(* Markers.                                                                *)

Fresh(r) == run[r].status = "none" \/ task[r].pc \in Begun \cup {"backup"}

\* No run is fresh again.
LEMMA FreshBefore ==
  ASSUME Typed, RunsInv, ApplyStep, NEW r \in Apply!Runs, Fresh(r)'
  PROVE  Fresh(r)
<1> USE DEF Apply!At
<1>1. run \in RunRows /\ task \in Tasks
  BY DEF Typed, Apply!TypeOK, RunRows, Tasks
<1>2. run'[r].status = "none" => run[r].status = "none"
  <2>1. ASSUME NEW q \in Apply!Runs, NEW out, NEW keep, NEW other, Apply!Settled(q, out, keep, other), out # "none"
        PROVE  run'[r].status = "none" => run[r].status = "none"
    BY <1>1, <2>1 DEF Apply!Settled, RunRows
  <2>2. ASSUME NEW q \in Apply!Runs, Apply!Finish(q) \/ Apply!FailRun(q) \/ Apply!Settle(q)
        PROVE  run'[r].status = "none" => run[r].status = "none"
    BY <2>1, <2>2 DEF Apply!Finish, Apply!FailRun, Apply!Settle, RunsInv
  <2>3. ASSUME NEW q \in Apply!Runs, Apply!MarkApplying(q) \/ Apply!Restore(q)
        PROVE  run'[r].status = "none" => run[r].status = "none"
    BY <1>1, <2>3 DEF Apply!MarkApplying, Apply!Restore, Apply!Unused, RunRows
  <2>4. ASSUME NEW d \in Apply!Drafts, Apply!ConfirmApply(d)
        PROVE  run'[r].status = "none" => run[r].status = "none"
    BY <1>1, <2>4 DEF Apply!ConfirmApply, Apply!Unused, RunRows
  <2>5. CASE Apply!DiscardBackupRow
    <3>1. PICK q \in Apply!Runs : q = discarding
      BY <2>5 DEF Apply!DiscardBackupRow, Typed, Apply!TypeOK
    <3> QED
      BY <1>1, <2>5, <3>1 DEF Apply!DiscardBackupRow, RunRows
  <2>6. CASE LaneSteps \/ Apply!BootDone \/ Apply!Crash
    BY <2>6 DEF LaneSteps, Apply!DropFile, Apply!FinishDraftOperation, Apply!CreateDraft,
       Apply!ChangeDraft, Apply!BootDone, Apply!Crash, Apply!rows
  <2> QED
    BY RowsFrame, <2>2, <2>3, <2>4, <2>5, <2>6 DEF RowsMove, RowSteps
<1>3. task'[r].pc \in Begun \cup {"backup"} => Fresh(r)
  <2> USE <1>1 DEF Fresh, Begun, Tasks, Apply!To, Apply!ToWith, Apply!Leave, Apply!Idle
  <2>1. ASSUME NEW d \in Apply!Drafts, Apply!ConfirmApply(d) PROVE task'[r].pc \in Begun \cup {"backup"} => Fresh(r)
    <3>1. PICK q \in Apply!Runs : run[q].status = "none" /\ Apply!To(q, "uses")
      BY <2>1 DEF Apply!ConfirmApply, Apply!Unused
    <3>2. q # r => task'[r] = task[r]
      BY <3>1
    <3> QED
      BY <3>1, <3>2
  <2>2. ASSUME NEW q \in Apply!Runs, Starts(q) PROVE task'[r].pc \in Begun \cup {"backup"} => Fresh(r)
    <3>1. CASE Apply!Restore(q)
      <4>1. PICK n \in Apply!Runs : run[n].status = "none" /\ Apply!To(n, "uses")
        BY <3>1 DEF Apply!Restore, Apply!Unused
      <4>2. n # r => task'[r] = task[r]
        BY <4>1
      <4> QED
        BY <4>1, <4>2
    <3>2. CASE Apply!PollStaleRun(q) \/ Apply!BootRun(q)
      BY <3>2 DEF Apply!PollStaleRun, Apply!BootRun
    <3> QED
      BY <2>2, <3>1, <3>2 DEF Starts
  <2>3. ASSUME NEW q \in Apply!Runs, Apply!Execute(q) PROVE task'[r].pc \in Begun \cup {"backup"} => Fresh(r)
    <3>1. CASE Apply!DrainUses(q) \/ Apply!MarkApplying(q) \/ Apply!CheckDraft(q) \/ Apply!EnterGate(q) \/ Apply!MarkMigrating(q) \/ Apply!Block(q) \/ Apply!Drain(q)
      BY <3>1 DEF Apply!DrainUses, Apply!MarkApplying, Apply!CheckDraft, Apply!EnterGate,
         Apply!MarkMigrating, Apply!Block, Apply!Drain
    <3>2. CASE Apply!CopyBackup(q) \/ Apply!ChangeLive(q) \/ Apply!VerifyLive(q) \/ Apply!UndoStarts(q) \/ Apply!UndoEnds(q)
      BY <3>2 DEF Apply!CopyBackup, Apply!ChangeLive, Apply!VerifyLive, Apply!UndoStarts, Apply!UndoEnds
    <3>3. CASE Apply!OverwriteStarts(q) \/ Apply!OverwriteEnds(q) \/ Apply!StampLive(q)
      BY <3>3 DEF Apply!OverwriteStarts, Apply!OverwriteEnds, Apply!StampLive
    <3>4. CASE Apply!MarkReady(q) \/ Apply!MarkError(q) \/ Apply!Finish(q) \/ Apply!FailRun(q)
      BY <3>4 DEF Apply!MarkReady, Apply!MarkError, Apply!Finish, Apply!FailRun
    <3> QED
      BY <2>3, <3>1, <3>2, <3>3, <3>4 DEF Apply!Execute
  <2>4. ASSUME NEW q \in Apply!Runs, Apply!Reconcile(q) PROVE task'[r].pc \in Begun \cup {"backup"} => Fresh(r)
    <3>1. CASE Apply!Look(q)
      BY <3>1 DEF Apply!Look, Apply!Verdict
    <3>2. CASE Apply!RecopyStarts(q) \/ Apply!RecopyEnds(q) \/ Apply!Restamp(q) \/ Apply!Settle(q) \/ Apply!Release(q)
      BY <3>2 DEF Apply!RecopyStarts, Apply!RecopyEnds, Apply!Restamp, Apply!Settle, Apply!Release,
         Apply!Unrecoverable
    <3> QED
      BY <2>4, <3>1, <3>2 DEF Apply!Reconcile
  <2>5. CASE Apply!Crash
    BY <2>5 DEF Apply!Crash
  <2> QED
    BY TaskFrame, <2>1, <2>2, <2>3, <2>4, <2>5 DEF TaskMove
<1> QED
  BY <1>2, <1>3 DEF Fresh

\* The files that hold a marker of a run.
Clean(r) == r \notin live.marks /\ \A q \in Apply!Runs : r \notin backup[q].marks

LEMMA MarksKept ==
  ASSUME Apply!BoundsAssumption, Typed, RunsInv, MarksInv, ApplyStep
  PROVE  MarksInv'
<1> USE DEF Apply!At
<1>1. live \in Apply!File /\ backup \in [Apply!Runs -> Apply!File] /\ run \in RunRows
  BY DEF Typed, Apply!TypeOK, RunRows
<1>2. /\ \A r \in Apply!Runs : Fresh(r) => Clean(r)
      /\ \A r \in Apply!Runs : r \notin backup[r].marks
  BY DEF MarksInv, Fresh, Clean
<1>3. ASSUME \A r \in Apply!Runs : Fresh(r) => Clean(r)', \A r \in Apply!Runs : r \notin backup'[r].marks
      PROVE  MarksInv'
  <2>1. \A r \in Apply!Runs : Fresh(r)' => Clean(r)'
    BY <1>3, FreshBefore
  <2> QED
    BY <1>3, <2>1 DEF MarksInv, Fresh, Clean, Apply!Runs
<1>4. Apply!Broken.marks = {}
  BY DEF Apply!Broken
<1>5. CASE Apply!WriteRuns
  <2>1. live'.marks = live.marks /\ backup' = backup
    BY <1>1, <1>5 DEF Apply!WriteRuns, Apply!File
  <2> QED
    BY <1>2, <1>3, <2>1 DEF Clean, Apply!Runs
<1>6. ASSUME NEW r \in Apply!Runs, Apply!DiscardBackup(r) \/ Apply!CopyBackup(r) PROVE MarksInv'
  <2>1. /\ live' = live
        /\ backup' = backup \/ backup' = [backup EXCEPT ![r] = Apply!Broken] \/ (backup' = [backup EXCEPT ![r] = live] /\ Fresh(r))
    BY <1>6 DEF Apply!DiscardBackup, Apply!CopyBackup, Fresh
  <2>2. \A q \in Apply!Runs : Clean(q) => Clean(q)'
    BY <1>1, <1>4, <2>1 DEF Clean, Apply!Runs
  <2>3. \A q \in Apply!Runs : q \notin backup'[q].marks
    BY <1>1, <1>2, <1>4, <2>1 DEF Clean
  <2> QED
    BY <1>2, <1>3, <2>2, <2>3
\* The live file is a backup now, or gone, or has the marker of its run.
<1>7. ASSUME NEW r \in Apply!Runs, ~Fresh(r), backup' = backup,
             live'.marks \subseteq live.marks \cup {r} \/ \E q \in Apply!Runs : live' = backup[q]
      PROVE  MarksInv'
  <2>1. \A q \in Apply!Runs : Fresh(q) => Clean(q)'
    BY <1>2, <1>7 DEF Clean, Apply!Runs
  <2> QED
    BY <1>2, <1>3, <1>7, <2>1
<1>8. ASSUME NEW r \in Apply!Runs, LiveSteps(r) PROVE MarksInv'
  <2>1. ~Fresh(r)
    <3>1. task[r].pc \notin {"idle", "release"} \cup Begun \cup {"backup"}
      BY <1>8 DEF LiveSteps, Apply!ChangeLive, Apply!UndoStarts, Apply!UndoEnds, Apply!OverwriteStarts,
         Apply!OverwriteEnds, Apply!StampLive, Apply!RecopyStarts,
         Apply!RecopyEnds, Apply!Restamp, Begun
    <3> QED
      BY <3>1 DEF Fresh, RunsInv
  <2>2. backup' = backup
    BY <1>8 DEF LiveSteps, Apply!ChangeLive, Apply!UndoStarts, Apply!UndoEnds, Apply!OverwriteStarts,
       Apply!OverwriteEnds, Apply!StampLive, Apply!RecopyStarts, Apply!RecopyEnds, Apply!Restamp
  <2>3. live'.marks \subseteq live.marks \cup {r} \/ \E q \in Apply!Runs : live' = backup[q]
    <3>1. CASE Apply!ChangeLive(r)
      BY <1>1, <3>1 DEF Apply!ChangeLive, Apply!Changed, Apply!File
    <3>2. CASE Apply!UndoStarts(r) \/ Apply!UndoEnds(r)
      BY <1>4, <3>2 DEF Apply!UndoStarts, Apply!UndoEnds
    <3>3. CASE Apply!OverwriteStarts(r) \/ Apply!OverwriteEnds(r)
      <4>1. run[r].source \in Apply!Runs
        BY <1>1, <3>3 DEF Apply!OverwriteStarts, Apply!OverwriteEnds, RunsInv, RunRows, Restoring,
           IsActive, Apply!Active
      <4> QED
        BY <1>4, <3>3, <4>1 DEF Apply!OverwriteStarts, Apply!OverwriteEnds
    <3>4. CASE Apply!RecopyStarts(r) \/ Apply!RecopyEnds(r)
      <4>1. Apply!Baseline(r) \in Apply!Runs
        BY <1>1 DEF Apply!Baseline, RunRows
      <4> QED
        BY <1>4, <3>4, <4>1 DEF Apply!RecopyStarts, Apply!RecopyEnds
    <3>5. CASE Apply!StampLive(r) \/ Apply!Restamp(r)
      BY <1>1, <3>5 DEF Apply!StampLive, Apply!Restamp, Apply!File
    <3> QED
      BY <1>8, <3>1, <3>2, <3>3, <3>4, <3>5 DEF LiveSteps
  <2> QED
    BY <1>7, <2>1, <2>2, <2>3
<1>9. CASE UNCHANGED <<live, backup>>
  BY <1>2, <1>3, <1>9 DEF Clean, Apply!Runs
<1> QED
  BY FilesFrame, <1>5, <1>6, <1>8, <1>9 DEF FilesMove

-----------------------------------------------------------------------------
(* Reviews.                                                                *)

\* Neither the evidence nor the rows of a draft that is applied change, except
\* that its file may be dropped.
LEMMA MatchesKept ==
  ASSUME Typed, DraftsInv, ApplyStep,
         NEW d \in Apply!Drafts, draft[d].status \in {"applying", "applied"}, Matches(d)
  PROVE  Matches(d)'
<1> USE DEF Matches
<1>1. draft \in DraftRows /\ run \in RunRows
  BY DEF Typed, Apply!TypeOK, DraftRows, RunRows
<1>2. ASSUME NEW e \in Apply!Drafts, Apply!CreateDraft(e) \/ Apply!ChangeDraft(e) \/ Apply!ConfirmApply(e) PROVE Matches(d)'
  BY <1>1, <1>2 DEF Apply!CreateDraft, Apply!ChangeDraft, Apply!ConfirmApply, DraftRows
<1>3. CASE Apply!DropFile
  <2>1. PICK e \in Apply!Drafts : e = dropping
    BY <1>3 DEF Apply!DropFile, Typed, Apply!TypeOK
  <2> QED
    BY <1>1, <1>3, <2>1 DEF Apply!DropFile, DraftRows
<1>4. CASE Apply!FinishDraftOperation
  <2>1. PICK e \in Apply!Drafts : e = lane.of
    BY <1>4 DEF Apply!FinishDraftOperation, Typed
  <2>2. e = d => lane.op \notin {"create", "change"}
    BY <2>1 DEF DraftsInv
  <2>3. draft'[d].proof = draft[d].proof /\ draft'[d].changes = draft[d].changes
    <3>1. CASE e # d
      BY <1>1, <1>4, <2>1, <3>1 DEF Apply!FinishDraftOperation, DraftRows
    <3>2. CASE e = d
      BY <1>1, <1>4, <2>1, <2>2, <3>2 DEF Apply!FinishDraftOperation, Apply!RowOf, DraftRows
    <3> QED
      BY <3>1, <3>2
  <2> QED
    BY <2>3
<1>5. ASSUME NEW r \in Apply!Runs, RowSteps(r) PROVE Matches(d)'
  BY <1>1, <1>5 DEF RowSteps, Apply!MarkApplying, Apply!Finish, Apply!FailRun, Apply!Settle, Apply!Restore,
     Apply!Settled, DraftRows, RunRows
<1>6. CASE Apply!BootDone
  BY <1>1, <1>6 DEF Apply!BootDone, DraftRows
<1>7. CASE Apply!DiscardBackupRow \/ Apply!Crash
  BY <1>7 DEF Apply!DiscardBackupRow, Apply!Crash, Apply!rows
<1> QED
  BY RowsFrame, <1>2, <1>3, <1>4, <1>5, <1>6, <1>7 DEF RowsMove, LaneSteps

\* A run of a draft gets into the live file by its change.
LEMMA NewMark ==
  ASSUME Typed, RunsInv, MarksInv, ApplyStep,
         NEW r \in Apply!Runs, IsActive(r), run[r].of # 0, r \in live'.marks
  PROVE  r \in live.marks \/ task[r].pc = "change"
<1> USE DEF Apply!At
<1>1. live \in Apply!File /\ backup \in [Apply!Runs -> Apply!File] /\ run \in RunRows
  BY DEF Typed, Apply!TypeOK, RunRows
<1>2. CASE Apply!WriteRuns
  BY <1>1, <1>2 DEF Apply!WriteRuns, Apply!File
<1>3. ASSUME NEW q \in Apply!Runs, LiveSteps(q) PROVE r \in live.marks \/ task[r].pc = "change"
  <2>1. q = r
    BY <1>3, Alone DEF LiveSteps, Apply!ChangeLive, Apply!UndoStarts, Apply!UndoEnds,
       Apply!OverwriteStarts, Apply!OverwriteEnds, Apply!StampLive,
       Apply!RecopyStarts, Apply!RecopyEnds, Apply!Restamp
  <2>2. task[r].pc \notin Restoring \cup {"restamp"}
    BY DEF RunsInv
  <2>3. Apply!Baseline(r) = r
    BY DEF Apply!Baseline, RunsInv, IsActive, Apply!Active
  <2>4. live' \in {live, Apply!Broken, backup[r]} \/ task[r].pc = "change"
    BY <1>3, <2>1, <2>2, <2>3 DEF LiveSteps, Apply!ChangeLive, Apply!UndoStarts, Apply!UndoEnds,
       Apply!OverwriteStarts, Apply!OverwriteEnds,
       Apply!StampLive, Apply!RecopyStarts, Apply!RecopyEnds, Apply!Restamp, Restoring
  <2> QED
    BY <2>4 DEF MarksInv, Apply!Broken
<1>4. ASSUME NEW q \in Apply!Runs, Apply!DiscardBackup(q) \/ Apply!CopyBackup(q) PROVE r \in live.marks
  BY <1>4 DEF Apply!DiscardBackup, Apply!CopyBackup
<1> QED
  BY FilesFrame, <1>2, <1>3, <1>4 DEF FilesMove

\* A run of a draft gets beyond the check only by the check.
Reviewed == {"gate", "migrate", "block", "drain"} \cup Applying
LEMMA NewReview ==
  ASSUME Typed, ApplyStep, NEW r \in Apply!Runs, run[r].of # 0, task'[r].pc \in Reviewed
  PROVE  task[r].pc \in Reviewed \/ (task[r].pc = "check" /\ Apply!Validated(r))
<1> USE DEF Apply!At, Apply!To, Apply!ToWith, Apply!Leave, Apply!Idle, Reviewed, Applying, Tasks
<1>1. task \in Tasks /\ run \in RunRows
  BY DEF Typed, Apply!TypeOK, RunRows
<1> DEFINE Goal == task[r].pc \in Reviewed \/ (task[r].pc = "check" /\ Apply!Validated(r))
<1>2. ASSUME NEW d \in Apply!Drafts, Apply!ConfirmApply(d) PROVE Goal
  BY <1>1, <1>2 DEF Apply!ConfirmApply, Apply!Unused
<1>3. ASSUME NEW q \in Apply!Runs, Starts(q) PROVE Goal
  <2>1. \E x \in Apply!Runs, p \in {"uses", "look"} : Apply!To(x, p)
    BY <1>3 DEF Starts, Apply!Restore, Apply!Unused, Apply!PollStaleRun, Apply!BootRun
  <2> QED
    BY <1>1, <2>1
<1>4. ASSUME NEW q \in Apply!Runs, Apply!Execute(q) PROVE Goal
  <2>1. CASE Apply!DrainUses(q) \/ Apply!MarkApplying(q) \/ Apply!CheckDraft(q) \/ Apply!EnterGate(q) \/ Apply!MarkMigrating(q) \/ Apply!Block(q) \/ Apply!Drain(q)
    BY <1>1, <2>1 DEF Apply!DrainUses, Apply!MarkApplying, Apply!CheckDraft, Apply!EnterGate,
       Apply!MarkMigrating, Apply!Block, Apply!Drain
  <2>2. CASE Apply!CopyBackup(q) \/ Apply!ChangeLive(q) \/ Apply!VerifyLive(q) \/ Apply!UndoStarts(q) \/ Apply!UndoEnds(q)
    BY <1>1, <2>2 DEF Apply!CopyBackup, Apply!ChangeLive, Apply!VerifyLive, Apply!UndoStarts, Apply!UndoEnds
  <2>3. CASE Apply!OverwriteStarts(q) \/ Apply!OverwriteEnds(q) \/ Apply!StampLive(q)
    BY <1>1, <2>3 DEF Apply!OverwriteStarts, Apply!OverwriteEnds, Apply!StampLive
  <2>4. CASE Apply!MarkReady(q) \/ Apply!MarkError(q) \/ Apply!Finish(q) \/ Apply!FailRun(q)
    BY <1>1, <2>4 DEF Apply!MarkReady, Apply!MarkError, Apply!Finish, Apply!FailRun
  <2> QED
    BY <1>4, <2>1, <2>2, <2>3, <2>4 DEF Apply!Execute
<1>5. ASSUME NEW q \in Apply!Runs, Apply!Reconcile(q) PROVE Goal
  <2>1. CASE Apply!Look(q)
    BY <1>1, <2>1 DEF Apply!Look, Apply!Verdict
  <2>2. CASE Apply!RecopyStarts(q) \/ Apply!RecopyEnds(q) \/ Apply!Restamp(q) \/ Apply!Settle(q) \/ Apply!Release(q)
    BY <1>1, <2>2 DEF Apply!RecopyStarts, Apply!RecopyEnds, Apply!Restamp, Apply!Settle, Apply!Release,
       Apply!Unrecoverable
  <2> QED
    BY <1>5, <2>1, <2>2 DEF Apply!Reconcile
<1>6. CASE Apply!Crash
  BY <1>1, <1>6 DEF Apply!Crash
<1>7. CASE UNCHANGED task
  BY <1>7
<1> QED
  BY TaskFrame, <1>2, <1>3, <1>4, <1>5, <1>6, <1>7 DEF TaskMove

\* A run that is open was, or has just been made.
LEMMA OpenBefore ==
  ASSUME Typed, RunsInv, ApplyStep, NEW r \in Apply!Runs, IsActive(r)'
  PROVE  \/ IsActive(r) /\ run'[r].of = run[r].of
         \/ run[r].status = "none" /\ task'[r].pc = "uses" /\ UNCHANGED <<live, backup>>
<1> USE DEF Apply!At
<1>1. run \in RunRows /\ task \in Tasks
  BY DEF Typed, Apply!TypeOK, RunRows, Tasks
<1> DEFINE Goal == \/ IsActive(r) /\ run'[r].of = run[r].of
                   \/ run[r].status = "none" /\ task'[r].pc = "uses" /\ UNCHANGED <<live, backup>>
<1>2. ASSUME NEW q \in Apply!Runs, NEW out, NEW keep, NEW other, Apply!Settled(q, out, keep, other), out \notin Apply!Active
      PROVE  Goal
  BY <1>1, <1>2 DEF Apply!Settled, RunRows, IsActive
<1>3. ASSUME NEW q \in Apply!Runs, Apply!Finish(q) \/ Apply!FailRun(q) \/ Apply!Settle(q)
      PROVE  Goal
  BY <1>1, <1>2, <1>3 DEF Apply!Finish, Apply!FailRun, Apply!Settle, Tasks, Apply!Active, IsActive
<1>4. ASSUME NEW q \in Apply!Runs, Apply!MarkApplying(q) PROVE Goal
  <2>1. IsActive(q)
    BY <1>4, Alone DEF Apply!MarkApplying
  <2> QED
    BY <1>1, <1>4, <2>1 DEF Apply!MarkApplying, RunRows, IsActive
<1>5. ASSUME NEW s \in Apply!Runs, Apply!Restore(s) PROVE Goal
  <2>1. PICK q \in Apply!Runs : q \in Apply!Unused /\ run' = [run EXCEPT ![q].status = "preparing", ![q].source = s] /\ Apply!To(q, "uses")
    BY <1>5 DEF Apply!Restore, Apply!Unused
  <2> QED
    BY <1>1, <1>5, <2>1 DEF Apply!Restore, Apply!Unused, RunRows, IsActive, Apply!To, Tasks, Apply!files
<1>6. ASSUME NEW d \in Apply!Drafts, Apply!ConfirmApply(d) PROVE Goal
  <2>1. PICK q \in Apply!Runs : q \in Apply!Unused /\ run' = [run EXCEPT ![q].status = "preparing", ![q].of = d] /\ Apply!To(q, "uses")
    BY <1>6 DEF Apply!ConfirmApply, Apply!Unused
  <2> QED
    BY <1>1, <1>6, <2>1 DEF Apply!ConfirmApply, Apply!Unused, RunRows, IsActive, Apply!To, Tasks,
       Apply!files
<1>7. CASE Apply!DiscardBackupRow
  <2>1. PICK q \in Apply!Runs : q = discarding
    BY <1>7 DEF Apply!DiscardBackupRow, Typed, Apply!TypeOK
  <2> QED
    BY <1>1, <1>7, <2>1 DEF Apply!DiscardBackupRow, RunRows, IsActive
<1>8. CASE run' = run
  BY <1>8 DEF IsActive
<1>9. LaneSteps \/ Apply!BootDone \/ Apply!Crash => run' = run
  BY DEF LaneSteps, Apply!DropFile, Apply!FinishDraftOperation, Apply!CreateDraft, Apply!ChangeDraft,
     Apply!BootDone, Apply!Crash, Apply!rows
<1> QED
  BY RowsFrame, <1>3, <1>4, <1>5, <1>6, <1>7, <1>8, <1>9 DEF RowsMove, RowSteps

LEMMA ReviewKept ==
  ASSUME Apply!BoundsAssumption, Typed, RunsInv, DraftsInv, MarksInv, ReviewInv, FilesInv, ApplyStep
  PROVE  ReviewInv'
<1> USE DEF Apply!At
<1>1. draft \in DraftRows /\ run \in RunRows /\ task \in Tasks
  BY DEF Typed, Apply!TypeOK, DraftRows, RunRows, Tasks
\* What is applied from now on is the draft of a run whose marker is in the live file.
<1>2. ASSUME NEW d \in Apply!Drafts, draft'[d].status = "applied" PROVE Matches(d)'
  <2>1. CASE draft[d].status = "applied"
    BY <2>1, MatchesKept DEF ReviewInv
  <2>2. CASE draft[d].status # "applied"
    <3>1. ASSUME NEW e \in Apply!Drafts, Apply!CreateDraft(e) \/ Apply!ChangeDraft(e) \/ Apply!ConfirmApply(e) PROVE FALSE
      BY <1>1, <1>2, <2>2, <3>1 DEF Apply!CreateDraft, Apply!ChangeDraft, Apply!ConfirmApply, DraftRows
    <3>2. CASE Apply!DropFile
      <4>1. PICK e \in Apply!Drafts : e = dropping
        BY <3>2 DEF Apply!DropFile, Typed, Apply!TypeOK
      <4> QED
        BY <1>1, <1>2, <2>2, <3>2, <4>1 DEF Apply!DropFile, DraftRows
    <3>3. CASE Apply!FinishDraftOperation
      <4>1. PICK e \in Apply!Drafts : e = lane.of
        BY <3>3 DEF Apply!FinishDraftOperation, Typed
      <4>2. Apply!RowOf(e).status \in {draft[e].status, "error", "discarded"}
        BY <1>1, <4>1 DEF Apply!RowOf, DraftRows
      <4> QED
        BY <1>1, <1>2, <2>2, <3>3, <4>1, <4>2 DEF Apply!FinishDraftOperation, DraftRows
    <3>4. CASE Apply!BootDone \/ Apply!DiscardBackupRow \/ Apply!Crash
      BY <1>1, <1>2, <2>2, <3>4 DEF Apply!BootDone, Apply!DiscardBackupRow, Apply!Crash, Apply!rows,
         DraftRows
    <3>5. ASSUME NEW r \in Apply!Runs, Apply!MarkApplying(r) \/ Apply!Restore(r) PROVE FALSE
      BY <1>2, <2>2, <3>5 DEF Apply!MarkApplying, Apply!Restore
    <3>6. ASSUME NEW r \in Apply!Runs, Apply!Finish(r) \/ Apply!FailRun(r) \/ Apply!Settle(r) PROVE Matches(d)'
      <4> DEFINE Told == task[r].pc \in {"finish", "settle"} /\ task[r].out = "succeeded"
      <4>a. ASSUME NEW out, NEW keep, NEW other \in {"editing", "error"}, Apply!Settled(r, out, keep, other)
            PROVE  run[r].of = d /\ out = "succeeded"
        <5>1. run[r].of = d /\ Apply!DraftAfter(out, other) = "applied"
          BY <1>1, <1>2, <2>2, <4>a DEF Apply!Settled, DraftRows
        <5> QED
          BY <5>1 DEF Apply!DraftAfter
      <4>b. draft' # draft
        BY <1>2, <2>2
      <4>1. run[r].of = d /\ Told
        <5>1. CASE Apply!Finish(r)
          <6>1. Apply!Settled(r, task[r].out, task[r].keep, "editing") /\ task[r].pc = "finish"
            BY <4>b, <5>1 DEF Apply!Finish
          <6> QED
            BY <4>a, <6>1
        <5>2. CASE Apply!FailRun(r)
          <6>1. Apply!Settled(r, "failed", run[r].retained, "editing")
            BY <4>b, <5>2 DEF Apply!FailRun
          <6> QED
            BY <4>a, <6>1
        <5>3. CASE Apply!Settle(r)
          <6>1. Apply!Settled(r, task[r].out, task[r].keep, "error") /\ task[r].pc = "settle"
            BY <4>b, <5>3 DEF Apply!Settle
          <6> QED
            BY <4>a, <6>1
        <5> QED
          BY <3>6, <5>1, <5>2, <5>3
      <4>2. draft[d].status = "applying"
        <5>1. IsActive(r)
          BY <3>6, Alone DEF Apply!Finish, Apply!FailRun, Apply!Settle
        <5> QED
          BY <4>1, <5>1 DEF DraftsInv
      <4>3. r \in live.marks /\ IsActive(r)
        BY <4>1, Alone DEF FilesInv
      <4>4. Matches(d)
        BY <4>1, <4>3 DEF ReviewInv, Apply!Drafts
      <4> QED
        BY <4>2, <4>4, MatchesKept
    <3> QED
      BY RowsFrame, <1>2, <2>2, <3>1, <3>2, <3>3, <3>4, <3>5, <3>6 DEF RowsMove, LaneSteps, RowSteps
  <2> QED
    BY <2>1, <2>2
<1>3. ASSUME NEW r \in Apply!Runs, IsActive(r)', run'[r].of # 0
      PROVE  /\ r \in live'.marks => Matches(run[r].of)'
             /\ task'[r].pc \in Reviewed => Matches(run[r].of)'
  <2>1. CASE run[r].status = "none" /\ task'[r].pc = "uses" /\ UNCHANGED <<live, backup>>
    BY <2>1 DEF MarksInv, Reviewed, Applying
  <2>2. CASE IsActive(r) /\ run'[r].of = run[r].of
    <3>1. PICK d \in Apply!Drafts : d = run[r].of
      BY <1>1, <1>3, <2>2 DEF RunRows
    <3>2. draft[d].status = "applying"
      BY <2>2, <3>1 DEF DraftsInv
    <3>3. r \in live.marks \/ task[r].pc \in Reviewed => Matches(d)
      BY <1>3, <2>2, <3>1 DEF ReviewInv, Reviewed
    <3>4. task[r].pc = "check" /\ Apply!Validated(r) => Matches(d)
      BY <3>1 DEF Apply!Validated, Matches
    <3>5. r \in live'.marks \/ task'[r].pc \in Reviewed => Matches(d)
      BY <1>3, <2>2, <3>3, <3>4, NewMark, NewReview DEF Reviewed, Applying
    <3>6. r \in live'.marks \/ task'[r].pc \in Reviewed => Matches(d)'
      BY <3>2, <3>5, MatchesKept
    <3> QED
      BY <2>2, <3>1, <3>6 DEF Matches
  <2> QED
    BY <1>3, <2>1, <2>2, OpenBefore
<1> QED
  BY <1>2, <1>3 DEF ReviewInv, Reviewed, Apply!Drafts, Apply!Runs, IsActive, Matches

-----------------------------------------------------------------------------
(* The files, by where the task of the open run stands.                    *)

Kept(r) == run[r].of # 0 /\ run[r].retained => backup[r].ok \/ r \in discarded
PlaceSound(r) ==
  /\ task[r].pc \in Closed => blocked
  /\ task[r].pc \in Applying => writer # "admitted"
  /\ task[r].pc \in {"change", "verify", "undo", "undone"} => backup[r].ok /\ backup[r].writes = written
  /\ task[r].pc \in {"change", "verify"} => live.ok
  /\ task[r].pc = "verify" => r \in live.marks
  /\ task[r].pc \in {"reopen", "finish", "settle"} =>
       /\ task[r].out = "succeeded" => r \in live.marks
       /\ task[r].out = "recovered" /\ run[r].of # 0 => live.ok /\ r \notin live.marks
  /\ task[r].pc \in {"reopen", "finish", "settle"} \cup Recopying /\ task[r].keep /\ run[r].of # 0 => backup[r].ok

LEMMA FilesSplit == FilesInv <=> \A r \in Apply!Runs : PlaceSound(r) /\ Kept(r)
BY DEF FilesInv, PlaceSound, Kept

\* Where nothing is said of the files.
Quiet == {"idle", "release", "look", "uses", "mark", "check", "gate", "migrate", "block", "thrown", "fail"}
LEMMA QuietIsSound ==
  ASSUME NEW r \in Apply!Runs, task'[r].pc \in Quiet
  PROVE  PlaceSound(r)'
BY DEF PlaceSound, Quiet, Closed, Applying, Restoring, Recopying

LEMMA ExecuteSound ==
  ASSUME Typed, RunsInv, MarksInv, FilesInv, Apply!NoAcknowledgedWriteLost, NEW r \in Apply!Runs, Apply!Execute(r)
  PROVE  PlaceSound(r)'
<1> USE DEF Apply!At, Apply!To, Apply!ToWith, Apply!Leave, Apply!Idle
<1>1. run \in RunRows /\ task \in Tasks /\ live \in Apply!File /\ backup \in [Apply!Runs -> Apply!File]
  BY DEF Typed, Apply!TypeOK, RunRows, Tasks
<1>2. PlaceSound(r)
  BY FilesSplit
<1>3. CASE Apply!DrainUses(r) \/ Apply!MarkApplying(r) \/ Apply!CheckDraft(r) \/ Apply!EnterGate(r) \/ Apply!MarkMigrating(r) \/ Apply!MarkError(r) \/ Apply!Finish(r) \/ Apply!FailRun(r)
  <2>1. task'[r].pc \in Quiet
    BY <1>1, <1>3 DEF Apply!DrainUses, Apply!MarkApplying, Apply!CheckDraft, Apply!EnterGate,
       Apply!MarkMigrating, Apply!MarkError, Apply!Finish, Apply!FailRun, Quiet, Tasks
  <2> QED
    BY <2>1, QuietIsSound
<1>4. CASE Apply!Block(r)
  <2>1. task'[r].pc = "drain" /\ blocked'
    BY <1>1, <1>4 DEF Apply!Block, Tasks
  <2> QED
    BY <2>1 DEF PlaceSound, Closed, Applying, Restoring, Recopying
<1>5. CASE Apply!Drain(r)
  <2>1. task'[r].pc \in {"backup", "overwrite", "thrown"} /\ blocked' /\ writer' # "admitted"
    BY <1>1, <1>2, <1>5 DEF Apply!Drain, Apply!Drained, Tasks, PlaceSound, Closed
  <2> QED
    BY <2>1 DEF PlaceSound, Closed, Applying, Restoring, Recopying
<1>6. CASE Apply!CopyBackup(r)
  <2>1. CASE task'[r].pc = "thrown"
    BY <2>1, QuietIsSound DEF Quiet
  <2>2. CASE task'[r].pc # "thrown"
    <3>1. task'[r].pc = "change" /\ live.ok /\ backup'[r] = live /\ UNCHANGED <<live, blocked, writer, written>>
      BY <1>1, <1>6, <2>2 DEF Apply!CopyBackup, Tasks, Apply!ghosts
    <3>2. blocked /\ writer # "admitted" /\ live.writes = written
      BY <1>2, <1>6, <3>1 DEF Apply!CopyBackup, PlaceSound, Closed, Applying, Apply!NoAcknowledgedWriteLost
    <3> QED
      BY <3>1, <3>2 DEF PlaceSound, Closed, Applying, Recopying
  <2> QED
    BY <2>1, <2>2
<1>7. CASE Apply!ChangeLive(r)
  <2>1. /\ task'[r].pc \in {"verify", "undo"} /\ UNCHANGED <<backup, blocked, writer, written>>
        /\ task'[r].pc = "verify" => live' = Apply!Changed(r)
    BY <1>1, <1>7 DEF Apply!ChangeLive, Tasks, Apply!ghosts
  <2>2. blocked /\ writer # "admitted" /\ live.ok /\ backup[r].ok /\ backup[r].writes = written
    BY <1>2, <1>7 DEF Apply!ChangeLive, PlaceSound, Closed, Applying
  <2>3. Apply!Changed(r).ok = live.ok /\ r \in Apply!Changed(r).marks
    BY <1>1 DEF Apply!Changed, Apply!File
  <2> QED
    BY <2>1, <2>2, <2>3 DEF PlaceSound, Closed, Applying, Recopying
<1>8. CASE Apply!VerifyLive(r)
  <2>1. /\ task'[r].pc = "undo" \/ (task'[r].pc = "reopen" /\ task'[r].out = "succeeded")
        /\ UNCHANGED <<live, backup, blocked, writer, written, run>>
    BY <1>1, <1>8 DEF Apply!VerifyLive, Tasks, Apply!ghosts, Apply!files, Apply!rows
  <2>2. blocked /\ writer # "admitted" /\ backup[r].ok /\ backup[r].writes = written /\ r \in live.marks
    BY <1>2, <1>8 DEF Apply!VerifyLive, PlaceSound, Closed, Applying
  <2> QED
    BY <2>1, <2>2 DEF PlaceSound, Closed, Applying, Restoring, Recopying
<1>9. CASE Apply!UndoStarts(r)
  <2>1. task'[r].pc = "undone" /\ UNCHANGED <<backup, blocked, writer, written, run>>
    BY <1>1, <1>9 DEF Apply!UndoStarts, Tasks, Apply!ghosts, Apply!rows
  <2>2. blocked /\ writer # "admitted" /\ backup[r].ok /\ backup[r].writes = written
    BY <1>2, <1>9 DEF Apply!UndoStarts, PlaceSound, Closed, Applying
  <2> QED
    BY <2>1, <2>2 DEF PlaceSound, Closed, Applying, Restoring, Recopying
<1>10. CASE Apply!UndoEnds(r)
  <2>1. CASE task'[r].pc = "thrown"
    BY <2>1, QuietIsSound DEF Quiet
  <2>2. CASE task'[r].pc # "thrown"
    <3>1. /\ task'[r].pc = "reopen" /\ task'[r].out = "recovered" /\ live' = backup[r]
          /\ UNCHANGED <<backup, blocked, writer, written, run>>
      BY <1>1, <1>10, <2>2 DEF Apply!UndoEnds, Tasks, Apply!ghosts, Apply!rows
    <3>2. blocked /\ backup[r].ok /\ r \notin backup[r].marks
      BY <1>2, <1>10 DEF Apply!UndoEnds, PlaceSound, Closed, Applying, MarksInv
    <3> QED
      BY <3>1, <3>2 DEF PlaceSound, Closed, Applying, Restoring, Recopying
  <2> QED
    BY <2>1, <2>2
<1>11. CASE Apply!OverwriteStarts(r) \/ Apply!OverwriteEnds(r)
  <2>1. task'[r].pc \in {"overwritten", "stamp", "thrown"} /\ blocked'
    BY <1>1, <1>2, <1>11 DEF Apply!OverwriteStarts, Apply!OverwriteEnds, Tasks, PlaceSound, Closed,
       Restoring
  <2> QED
    BY <2>1 DEF PlaceSound, Closed, Applying, Restoring, Recopying
<1>12. CASE Apply!StampLive(r)
  <2>1. CASE task'[r].pc = "thrown"
    BY <2>1, QuietIsSound DEF Quiet
  <2>2. CASE task'[r].pc # "thrown"
    <3>1. /\ task'[r].pc = "reopen" /\ task'[r].out = "succeeded" /\ task'[r].keep = FALSE
          /\ live' = [live EXCEPT !.marks = @ \cup {r}] /\ UNCHANGED blocked
      BY <1>1, <1>12, <2>2 DEF Apply!StampLive, Tasks
    <3>2. blocked /\ r \in live'.marks
      BY <1>1, <1>2, <1>12, <3>1 DEF Apply!StampLive, PlaceSound, Closed, Restoring, Apply!File
    <3> QED
      BY <3>1, <3>2 DEF PlaceSound, Closed, Applying, Restoring, Recopying
  <2> QED
    BY <2>1, <2>2
<1>13. CASE Apply!MarkReady(r)
  <2>1. CASE task'[r].pc = "thrown"
    BY <2>1, QuietIsSound DEF Quiet
  <2>2. CASE task'[r].pc # "thrown"
    <3>1. /\ task'[r].pc = "finish" /\ task'[r].out = task[r].out /\ task'[r].keep = task[r].keep
          /\ UNCHANGED <<live, backup, run>>
      BY <1>1, <1>13, <2>2 DEF Apply!MarkReady, Tasks, Apply!files
    <3>2. task[r].pc = "reopen"
      BY <1>13 DEF Apply!MarkReady
    <3> QED
      BY <1>2, <3>1, <3>2 DEF PlaceSound, Closed, Applying, Restoring, Recopying
  <2> QED
    BY <2>1, <2>2
<1> QED
  BY <1>3, <1>4, <1>5, <1>6, <1>7, <1>8, <1>9, <1>10, <1>11, <1>12, <1>13 DEF Apply!Execute

LEMMA ReconcileSound ==
  ASSUME Typed, RunsInv, MarksInv, FilesInv, NEW r \in Apply!Runs, Apply!Reconcile(r)
  PROVE  PlaceSound(r)'
<1> USE DEF Apply!At, Apply!To, Apply!ToWith, Apply!Leave, Apply!Idle
<1>1. run \in RunRows /\ task \in Tasks /\ live \in Apply!File /\ backup \in [Apply!Runs -> Apply!File]
  BY DEF Typed, Apply!TypeOK, RunRows, Tasks
<1>2. PlaceSound(r)
  BY FilesSplit
<1>3. task[r].pc \notin {"idle", "release"} => (run[r].of # 0 <=> Apply!Baseline(r) = r /\ run[r].source = 0)
  <2>1. ASSUME task[r].pc \notin {"idle", "release"} PROVE run[r].of # 0 <=> run[r].source = 0
    BY <2>1 DEF RunsInv, IsActive, Apply!Active
  <2> QED
    BY <2>1 DEF Apply!Baseline
<1>4. Apply!Baseline(r) \in Apply!Runs
  BY <1>1 DEF Apply!Baseline, RunRows
\* What is left is said of a run that gave up.
<1>5. ASSUME UNCHANGED <<backup, run>>, task[r].pc \notin {"idle", "release"},
             task'[r] = [pc |-> "settle", out |-> "failed", keep |-> backup[r].ok \/ backup[Apply!Baseline(r)].ok]
      PROVE  PlaceSound(r)'
  <2>1. task'[r].pc = "settle" /\ task'[r].out = "failed" /\ task'[r].keep = (backup[r].ok \/ backup[Apply!Baseline(r)].ok)
    BY <1>5
  <2>2. task'[r].keep /\ run[r].of # 0 => backup[r].ok
    BY <1>3, <1>5, <2>1
  <2> QED
    BY <1>5, <2>1, <2>2 DEF PlaceSound, Closed, Applying, Restoring, Recopying
<1>6. CASE Apply!Look(r)
  <2>1. task'[r] = Apply!Verdict(r) /\ UNCHANGED <<live, backup, run>>
    BY <1>1, <1>6 DEF Apply!Look, Apply!files, Apply!rows, Tasks
  <2>2. /\ Apply!Verdict(r).pc \in {"settle", "recopy"}
        /\ Apply!Verdict(r).pc = "settle" => Apply!Verdict(r).out # "recovered"
        /\ Apply!Verdict(r).out = "succeeded" => r \in live.marks
        /\ Apply!Verdict(r).keep => backup[r].ok \/ backup[Apply!Baseline(r)].ok
    BY <1>1, <1>4 DEF Apply!Verdict, Apply!Marked, Apply!File
  <2> QED
    BY <1>3, <1>6, <2>1, <2>2 DEF PlaceSound, Closed, Applying, Restoring, Recopying, Apply!Look
<1>7. CASE Apply!RecopyStarts(r)
  <2>1. CASE Apply!Unrecoverable(r)
    BY <1>1, <1>5, <1>7, <2>1 DEF Apply!RecopyStarts, Apply!Unrecoverable, Tasks, Apply!rows
  <2>2. CASE ~Apply!Unrecoverable(r)
    <3>1. task'[r].pc = "recopied" /\ task'[r].keep = task[r].keep /\ UNCHANGED <<backup, run>> /\ task[r].pc = "recopy"
      BY <1>1, <1>7, <2>2 DEF Apply!RecopyStarts, Tasks, Apply!rows
    <3> QED
      BY <1>2, <3>1 DEF PlaceSound, Closed, Applying, Restoring, Recopying
  <2> QED
    BY <2>1, <2>2
<1>8. CASE Apply!RecopyEnds(r)
  <2>1. CASE Apply!Unrecoverable(r)
    BY <1>1, <1>5, <1>8, <2>1 DEF Apply!RecopyEnds, Apply!Unrecoverable, Tasks, Apply!rows
  <2>2. CASE ~Apply!Unrecoverable(r)
    <3>1. /\ task'[r].pc \in {"restamp", "settle"} /\ task'[r].keep = task[r].keep /\ task'[r].out = task[r].out
          /\ UNCHANGED <<backup, run>> /\ task[r].pc = "recopied"
          /\ live' = backup[Apply!Baseline(r)] /\ backup[Apply!Baseline(r)].ok
      BY <1>1, <1>8, <2>2 DEF Apply!RecopyEnds, Tasks, Apply!rows
    <3>2. task[r].out = "recovered" /\ (run[r].of # 0 => r \notin live'.marks /\ live'.ok)
      BY <1>3, <3>1 DEF RunsInv, Recopying, MarksInv
    <3> QED
      BY <1>2, <3>1, <3>2 DEF PlaceSound, Closed, Applying, Restoring, Recopying
  <2> QED
    BY <2>1, <2>2
<1>9. CASE Apply!Restamp(r)
  <2>1. CASE Apply!Unrecoverable(r)
    BY <1>1, <1>5, <1>9, <2>1 DEF Apply!Restamp, Apply!Unrecoverable, Tasks, Apply!rows
  <2>2. CASE ~Apply!Unrecoverable(r)
    <3>1. task'[r].pc = "settle" /\ task'[r].out = task[r].out /\ UNCHANGED run /\ task[r].pc = "restamp"
      BY <1>1, <1>9, <2>2 DEF Apply!Restamp, Tasks, Apply!rows
    <3>2. task[r].out = "recovered" /\ run[r].of = 0
      BY <3>1 DEF RunsInv, Recopying
    <3> QED
      BY <3>1, <3>2 DEF PlaceSound, Closed, Applying, Restoring, Recopying
  <2> QED
    BY <2>1, <2>2
<1>10. CASE Apply!Settle(r) \/ Apply!Release(r)
  <2>1. task'[r].pc \in Quiet
    BY <1>1, <1>10 DEF Apply!Settle, Apply!Release, Tasks, Quiet
  <2> QED
    BY <2>1, QuietIsSound
<1> QED
  BY <1>6, <1>7, <1>8, <1>9, <1>10 DEF Apply!Reconcile

\* A task takes its own steps, and only while it is neither idle nor releasing,
\* but for the release.
LEMMA TaskAlone ==
  ASSUME task \in Tasks, NEW q \in Apply!Runs, NEW r \in Apply!Runs, q # r, Apply!Execute(q) \/ Apply!Reconcile(q)
  PROVE  task'[r] = task[r]
<1> USE DEF Apply!To, Apply!ToWith, Apply!Leave, Tasks
<1>1. CASE Apply!DrainUses(q) \/ Apply!MarkApplying(q) \/ Apply!CheckDraft(q) \/ Apply!EnterGate(q) \/ Apply!MarkMigrating(q) \/ Apply!Block(q) \/ Apply!Drain(q)
  BY <1>1 DEF Apply!DrainUses, Apply!MarkApplying, Apply!CheckDraft, Apply!EnterGate, Apply!MarkMigrating,
     Apply!Block, Apply!Drain
<1>2. CASE Apply!CopyBackup(q) \/ Apply!ChangeLive(q) \/ Apply!VerifyLive(q) \/ Apply!UndoStarts(q) \/ Apply!UndoEnds(q)
  BY <1>2 DEF Apply!CopyBackup, Apply!ChangeLive, Apply!VerifyLive, Apply!UndoStarts, Apply!UndoEnds
<1>3. CASE Apply!OverwriteStarts(q) \/ Apply!OverwriteEnds(q) \/ Apply!StampLive(q)
  BY <1>3 DEF Apply!OverwriteStarts, Apply!OverwriteEnds, Apply!StampLive
<1>4. CASE Apply!MarkReady(q) \/ Apply!MarkError(q) \/ Apply!Finish(q) \/ Apply!FailRun(q)
  BY <1>4 DEF Apply!MarkReady, Apply!MarkError, Apply!Finish, Apply!FailRun
<1>5. CASE Apply!Look(q) \/ Apply!Settle(q) \/ Apply!Release(q)
  BY <1>5 DEF Apply!Look, Apply!Settle, Apply!Release
<1>6. CASE Apply!RecopyStarts(q) \/ Apply!RecopyEnds(q) \/ Apply!Restamp(q)
  BY <1>6 DEF Apply!RecopyStarts, Apply!RecopyEnds, Apply!Restamp, Apply!Unrecoverable
<1> QED
  BY <1>1, <1>2, <1>3, <1>4, <1>5, <1>6 DEF Apply!Execute, Apply!Reconcile

LEMMA TaskWorks ==
  ASSUME NEW q \in Apply!Runs, Apply!Execute(q) \/ Apply!Reconcile(q), ~Apply!Release(q)
  PROVE  task[q].pc \notin {"idle", "release"}
<1> USE DEF Apply!At
<1>1. CASE Apply!DrainUses(q) \/ Apply!MarkApplying(q) \/ Apply!CheckDraft(q) \/ Apply!EnterGate(q) \/ Apply!MarkMigrating(q) \/ Apply!Block(q) \/ Apply!Drain(q)
  BY <1>1 DEF Apply!DrainUses, Apply!MarkApplying, Apply!CheckDraft, Apply!EnterGate, Apply!MarkMigrating,
     Apply!Block, Apply!Drain
<1>2. CASE Apply!CopyBackup(q) \/ Apply!ChangeLive(q) \/ Apply!VerifyLive(q) \/ Apply!UndoStarts(q) \/ Apply!UndoEnds(q)
  BY <1>2 DEF Apply!CopyBackup, Apply!ChangeLive, Apply!VerifyLive, Apply!UndoStarts, Apply!UndoEnds
<1>3. CASE Apply!OverwriteStarts(q) \/ Apply!OverwriteEnds(q) \/ Apply!StampLive(q)
  BY <1>3 DEF Apply!OverwriteStarts, Apply!OverwriteEnds, Apply!StampLive
<1>4. CASE Apply!MarkReady(q) \/ Apply!MarkError(q) \/ Apply!Finish(q) \/ Apply!FailRun(q)
  BY <1>4 DEF Apply!MarkReady, Apply!MarkError, Apply!Finish, Apply!FailRun
<1>5. CASE Apply!Look(q) \/ Apply!Settle(q) \/ Apply!RecopyStarts(q) \/ Apply!RecopyEnds(q) \/ Apply!Restamp(q)
  BY <1>5 DEF Apply!Look, Apply!Settle, Apply!RecopyStarts, Apply!RecopyEnds, Apply!Restamp
<1> QED
  BY <1>1, <1>2, <1>3, <1>4, <1>5 DEF Apply!Execute, Apply!Reconcile

\* Whoever else moves leaves the files of the open run as its task knows them.
LEMMA OthersSound ==
  ASSUME Apply!BoundsAssumption, Typed, RunsInv, FilesInv, ApplyStep, NEW r \in Apply!Runs, ~Apply!Execute(r), ~Apply!Reconcile(r)
  PROVE  PlaceSound(r)'
<1> USE DEF Apply!At
<1>1. run \in RunRows /\ task \in Tasks /\ live \in Apply!File /\ backup \in [Apply!Runs -> Apply!File]
  BY DEF Typed, Apply!TypeOK, RunRows, Tasks
<1>2. PlaceSound(r)
  BY FilesSplit
<1>3. ASSUME UNCHANGED <<task, live, backup, written, blocked>>, run'[r].of = run[r].of, writer' = "admitted" => writer = "admitted" \/ ~blocked
      PROVE  PlaceSound(r)'
  BY <1>2, <1>3 DEF PlaceSound, Closed
<1>4. CASE UNCHANGED applyVars
  BY <1>3, <1>4 DEF applyVars, Apply!files, Apply!rows, Apply!memory, Apply!ghosts
<1>5. CASE Apply!WriteChecked \/ Apply!WriteAdmitted
  BY <1>3, <1>5 DEF Apply!WriteChecked, Apply!WriteAdmitted, Apply!files, Apply!rows, Apply!ghosts
<1>6. CASE Apply!WriteRuns
  <2>1. /\ UNCHANGED <<task, backup, blocked, run>> /\ writer = "admitted"
        /\ live'.ok = live.ok /\ live'.marks = live.marks /\ writer' = "none"
    BY <1>1, <1>6 DEF Apply!WriteRuns, Apply!rows, Apply!File
  <2>2. task[r].pc \notin Applying
    BY <1>2, <2>1 DEF PlaceSound
  <2> QED
    BY <1>2, <2>1, <2>2 DEF PlaceSound, Closed, Applying
<1>7. CASE LaneSteps \/ Apply!BootFiles \/ Apply!BootDone
  BY <1>3, <1>7 DEF LaneSteps, Apply!CreateDraft, Apply!ChangeDraft, Apply!DropFile,
     Apply!FinishDraftOperation, Apply!BootFiles, Apply!BootDone, Apply!files, Apply!ghosts, Apply!memory
<1>8. ASSUME NEW d \in Apply!Drafts, Apply!DiscardDraft(d) PROVE PlaceSound(r)'
  BY <1>3, <1>8 DEF Apply!DiscardDraft, Apply!files, Apply!rows, Apply!ghosts
<1>9. CASE Apply!DiscardBackupRow
  <2>1. PICK q \in Apply!Runs : q = discarding
    BY <1>9 DEF Apply!DiscardBackupRow, Typed, Apply!TypeOK
  <2>2. run'[r].of = run[r].of
    BY <1>1, <1>9, <2>1 DEF Apply!DiscardBackupRow, RunRows
  <2> QED
    BY <1>3, <1>9, <2>2 DEF Apply!DiscardBackupRow, Apply!files, Apply!ghosts
<1>10. CASE Apply!Crash
  <2>1. task'[r].pc \in Quiet
    BY <1>10 DEF Apply!Crash, Apply!Idle, Quiet
  <2> QED
    BY <2>1, QuietIsSound
<1>11. ASSUME NEW s \in Apply!Runs, Apply!Restore(s) PROVE PlaceSound(r)'
  <2>1. task[r].pc \in {"idle", "release"}
    BY <1>11 DEF Apply!Restore, Apply!NoActive, RunsInv, IsActive
  <2>2. PICK q \in Apply!Runs : Apply!To(q, "uses")
    BY <1>11 DEF Apply!Restore, Apply!Unused
  <2>3. task'[r].pc \in Quiet
    BY <1>1, <2>1, <2>2 DEF Apply!To, Tasks, Quiet
  <2> QED
    BY <2>3, QuietIsSound
<1>12. ASSUME NEW d \in Apply!Drafts, Apply!ConfirmApply(d) PROVE PlaceSound(r)'
  <2>1. task[r].pc \in {"idle", "release"}
    BY <1>12 DEF Apply!ConfirmApply, Apply!NoActive, RunsInv, IsActive
  <2>2. PICK q \in Apply!Runs : Apply!To(q, "uses")
    BY <1>12 DEF Apply!ConfirmApply, Apply!Unused
  <2>3. task'[r].pc \in Quiet
    BY <1>1, <2>1, <2>2 DEF Apply!To, Tasks, Quiet
  <2> QED
    BY <2>3, QuietIsSound
<1>13. ASSUME NEW q \in Apply!Runs, Apply!PollStaleRun(q) \/ Apply!BootRun(q) PROVE PlaceSound(r)'
  <2>1. CASE q = r
    <3>1. task'[r].pc \in Quiet
      BY <1>1, <1>13, <2>1 DEF Apply!PollStaleRun, Apply!BootRun, Apply!To, Tasks, Quiet
    <3> QED
      BY <3>1, QuietIsSound
  <2>2. CASE q # r
    <3>1. task'[r].pc \in Quiet
      BY <1>1, <1>13, <2>2 DEF Apply!PollStaleRun, Apply!BootRun, Apply!Unowned, Apply!To, Tasks, Quiet,
         RunsInv, IsActive
    <3> QED
      BY <3>1, QuietIsSound
  <2> QED
    BY <2>1, <2>2
<1>14. ASSUME NEW q \in Apply!Runs, Apply!DiscardBackup(q) PROVE PlaceSound(r)'
  <2>1. CASE task[r].pc \in {"idle", "release"}
    BY <1>14, <2>1, QuietIsSound DEF Apply!DiscardBackup, Quiet
  <2>2. CASE task[r].pc \notin {"idle", "release"}
    <3>1. q # r
      BY <1>14, <2>2 DEF Apply!DiscardBackup, RunsInv
    <3>2. UNCHANGED <<task, live, written, blocked, writer, run>> /\ backup'[r] = backup[r]
      BY <1>1, <1>14, <3>1 DEF Apply!DiscardBackup, Apply!rows
    <3> QED
      BY <1>2, <3>2 DEF PlaceSound
  <2> QED
    BY <2>1, <2>2
<1>15. ASSUME NEW q \in Apply!Runs, q # r, Apply!Execute(q) \/ Apply!Reconcile(q) PROVE PlaceSound(r)'
  <2>1. task'[r] = task[r]
    BY <1>1, <1>15, TaskAlone
  <2>2. CASE Apply!Release(q)
    BY <1>2, <2>1, <2>2 DEF Apply!Release, PlaceSound, Apply!files, Apply!rows, Apply!ghosts
  <2>3. CASE ~Apply!Release(q)
    <3>1. task[q].pc \notin {"idle", "release"}
      BY <1>15, <2>3, TaskWorks
    <3>2. task'[r].pc \in Quiet
      BY <1>15, <2>1, <3>1, Alone DEF Quiet
    <3> QED
      BY <3>2, QuietIsSound
  <2> QED
    BY <2>2, <2>3
<1> QED
  BY <1>4, <1>5, <1>6, <1>7, <1>8, <1>9, <1>10, <1>11, <1>12, <1>13, <1>14, <1>15 DEF ApplyStep,
     Apply!Next, LaneSteps

\* A backup that is there is there until the user discards it.
LEMMA BackupStays ==
  ASSUME Typed, ApplyStep, NEW r \in Apply!Runs, backup[r].ok \/ r \in discarded
  PROVE  backup'[r].ok \/ r \in discarded'
<1>1. CASE UNCHANGED <<live, backup, written, discarded>>
  BY <1>1
<1>2. CASE Apply!WriteRuns
  BY <1>2 DEF Apply!WriteRuns
<1>3. ASSUME NEW q \in Apply!Runs, LiveSteps(q) PROVE UNCHANGED <<backup, discarded>>
  BY <1>3 DEF LiveSteps, Apply!ChangeLive, Apply!UndoStarts, Apply!UndoEnds, Apply!OverwriteStarts,
     Apply!OverwriteEnds, Apply!StampLive, Apply!RecopyStarts,
     Apply!RecopyEnds, Apply!Restamp, Apply!ghosts
<1>4. ASSUME NEW q \in Apply!Runs, Apply!DiscardBackup(q) PROVE backup'[r].ok \/ r \in discarded'
  BY <1>4 DEF Apply!DiscardBackup, Typed, Apply!TypeOK
<1>5. ASSUME NEW q \in Apply!Runs, Apply!CopyBackup(q) PROVE backup'[r].ok \/ r \in discarded'
  BY <1>5 DEF Apply!CopyBackup, Typed, Apply!TypeOK, Apply!ghosts
<1> QED
  BY FilesFrame, <1>1, <1>2, <1>3, <1>4, <1>5 DEF FilesMove

\* A run comes to say that it retains a backup only when it has one.
LEMMA ClaimsAreBacked ==
  ASSUME Typed, RunsInv, FilesInv, ApplyStep, NEW r \in Apply!Runs, run'[r].retained, run'[r].of # 0
  PROVE  (run[r].retained /\ run[r].of # 0) \/ backup[r].ok
<1>1. run \in RunRows
  BY DEF Typed, Apply!TypeOK, RunRows
<1>2. ASSUME run'[r].retained = run[r].retained, run[r].status = "none" => run'[r].status = "none" \/ IsActive(r)',
             run[r].status # "none" => run'[r].of = run[r].of, UNCHANGED <<draft, lane>>
      PROVE  run[r].retained /\ run[r].of # 0
  BY <1>2 DEF RunsInv
<1>3. ASSUME UNCHANGED run PROVE run[r].retained /\ run[r].of # 0
  BY <1>3
<1>4. CASE LaneSteps \/ Apply!BootDone \/ Apply!Crash
  BY <1>3, <1>4 DEF LaneSteps, Apply!CreateDraft, Apply!ChangeDraft, Apply!DropFile,
     Apply!FinishDraftOperation, Apply!BootDone, Apply!Crash, Apply!rows
<1>5. CASE Apply!DiscardBackupRow
  <2>1. PICK q \in Apply!Runs : q = discarding
    BY <1>5 DEF Apply!DiscardBackupRow, Typed, Apply!TypeOK
  <2> QED
    BY <1>1, <1>5, <2>1 DEF Apply!DiscardBackupRow, RunRows
<1>6. ASSUME NEW d \in Apply!Drafts, Apply!ConfirmApply(d) PROVE run[r].retained /\ run[r].of # 0
  <2>1. PICK q \in Apply!Runs : run[q].status = "none" /\ run' = [run EXCEPT ![q].status = "preparing", ![q].of = d]
    BY <1>6 DEF Apply!ConfirmApply, Apply!Unused
  <2>2. run[r].retained
    BY <1>1, <2>1 DEF RunRows
  <2>3. r # q
    BY <2>1, <2>2 DEF RunsInv
  <2> QED
    BY <1>1, <2>1, <2>2, <2>3 DEF RunRows
<1>7. ASSUME NEW s \in Apply!Runs, Apply!Restore(s) PROVE run[r].retained /\ run[r].of # 0
  <2>1. PICK q \in Apply!Runs : run' = [run EXCEPT ![q].status = "preparing", ![q].source = s]
    BY <1>7 DEF Apply!Restore, Apply!Unused
  <2> QED
    BY <1>1, <2>1 DEF RunRows
<1>8. ASSUME NEW q \in Apply!Runs, Apply!MarkApplying(q) PROVE run[r].retained /\ run[r].of # 0
  BY <1>1, <1>8 DEF Apply!MarkApplying, RunRows
<1>9. ASSUME NEW q \in Apply!Runs, NEW out, NEW keep, NEW other, Apply!Settled(q, out, keep, other)
      PROVE  run[r].of # 0 /\ (run[r].retained \/ (q = r /\ keep))
  BY <1>1, <1>9 DEF Apply!Settled, RunRows
<1>10. ASSUME NEW q \in Apply!Runs, Apply!Finish(q) PROVE (run[r].retained /\ run[r].of # 0) \/ backup[r].ok
  <2>1. CASE UNCHANGED run
    BY <1>3, <2>1
  <2>2. CASE Apply!Settled(q, task[q].out, task[q].keep, "editing")
    <3>1. run[r].of # 0 /\ (run[r].retained \/ (q = r /\ task[q].keep))
      BY <1>9, <2>2
    <3> QED
      BY <1>10, <3>1 DEF Apply!Finish, Apply!At, FilesInv
  <2> QED
    BY <1>10, <2>1, <2>2 DEF Apply!Finish
<1>11. ASSUME NEW q \in Apply!Runs, Apply!FailRun(q) PROVE run[r].retained /\ run[r].of # 0
  <2>1. CASE UNCHANGED run
    BY <1>3, <2>1
  <2>2. CASE Apply!Settled(q, "failed", run[q].retained, "editing")
    <3>1. run[r].of # 0 /\ (run[r].retained \/ (q = r /\ run[q].retained))
      BY <1>9, <2>2
    <3> QED
      BY <3>1
  <2> QED
    BY <1>11, <2>1, <2>2 DEF Apply!FailRun
<1>12. ASSUME NEW q \in Apply!Runs, Apply!Settle(q) PROVE (run[r].retained /\ run[r].of # 0) \/ backup[r].ok
  <2>1. CASE UNCHANGED run
    BY <1>3, <2>1
  <2>2. CASE Apply!Settled(q, task[q].out, task[q].keep, "error")
    <3>1. run[r].of # 0 /\ (run[r].retained \/ (q = r /\ task[q].keep))
      BY <1>9, <2>2
    <3> QED
      BY <1>12, <3>1 DEF Apply!Settle, Apply!At, FilesInv
  <2> QED
    BY <1>12, <2>1, <2>2 DEF Apply!Settle
<1> QED
  BY RowsFrame, <1>3, <1>4, <1>5, <1>6, <1>7, <1>8, <1>10, <1>11, <1>12 DEF RowsMove, RowSteps

LEMMA FilesKept ==
  ASSUME Apply!BoundsAssumption, Typed, RunsInv, MarksInv, FilesInv, Apply!NoAcknowledgedWriteLost, ApplyStep
  PROVE  FilesInv'
<1>1. ASSUME NEW r \in Apply!Runs PROVE PlaceSound(r)'
  BY ExecuteSound, ReconcileSound, OthersSound
<1>2. ASSUME NEW r \in Apply!Runs PROVE Kept(r)'
  <2> SUFFICES ASSUME run'[r].of # 0, run'[r].retained PROVE backup'[r].ok \/ r \in discarded'
    BY DEF Kept
  <2>1. backup[r].ok \/ r \in discarded
    BY ClaimsAreBacked DEF FilesInv
  <2> QED
    BY <2>1, BackupStays
<1> QED
  BY <1>1, <1>2 DEF FilesInv, PlaceSound, Kept, Apply!Runs

-----------------------------------------------------------------------------
(* The writes the live file owes, and what to recover it from.             *)

LEMMA WritesKept ==
  ASSUME Typed, RunsInv, FilesInv, Apply!NoAcknowledgedWriteLost, ApplyStep
  PROVE  Apply!NoAcknowledgedWriteLost'
<1> USE DEF Apply!NoAcknowledgedWriteLost, Apply!ghosts
<1>1. live \in Apply!File /\ backup \in [Apply!Runs -> Apply!File]
  BY DEF Typed, Apply!TypeOK
<1>2. CASE Apply!WriteRuns
  BY <1>1, <1>2 DEF Apply!WriteRuns, Apply!File
<1>3. ASSUME NEW r \in Apply!Runs, Apply!DiscardBackup(r) \/ Apply!CopyBackup(r) PROVE Apply!NoAcknowledgedWriteLost'
  BY <1>3 DEF Apply!DiscardBackup, Apply!CopyBackup
<1>4. ASSUME NEW r \in Apply!Runs, Apply!ChangeLive(r) PROVE Apply!NoAcknowledgedWriteLost'
  <2>1. Apply!Changed(r).ok = live.ok /\ Apply!Changed(r).writes = live.writes
    BY <1>1 DEF Apply!Changed, Apply!File
  <2> QED
    BY <1>4, <2>1 DEF Apply!ChangeLive
<1>5. ASSUME NEW r \in Apply!Runs, Apply!StampLive(r) \/ Apply!Restamp(r) PROVE Apply!NoAcknowledgedWriteLost'
  BY <1>1, <1>5 DEF Apply!StampLive, Apply!Restamp, Apply!File
<1>6. ASSUME NEW r \in Apply!Runs, Apply!UndoStarts(r) \/ Apply!OverwriteStarts(r) \/ Apply!RecopyStarts(r) PROVE Apply!NoAcknowledgedWriteLost'
  BY <1>6 DEF Apply!UndoStarts, Apply!OverwriteStarts, Apply!RecopyStarts, Apply!Broken
<1>7. ASSUME NEW r \in Apply!Runs, Apply!UndoEnds(r) PROVE Apply!NoAcknowledgedWriteLost'
  BY <1>7 DEF Apply!UndoEnds, Apply!At, FilesInv
<1>8. ASSUME NEW r \in Apply!Runs, Apply!OverwriteEnds(r) \/ Apply!RecopyEnds(r) PROVE Apply!NoAcknowledgedWriteLost'
  BY <1>8 DEF Apply!OverwriteEnds, Apply!RecopyEnds
<1> QED
  BY FilesFrame, <1>2, <1>3, <1>4, <1>5, <1>6, <1>7, <1>8 DEF FilesMove, LiveSteps

\* The live file is removed only to be copied from a backup that is there.
LEMMA BrokenForABackup ==
  ASSUME Typed, RunsInv, FilesInv, ApplyStep, live.ok, ~live'.ok
  PROVE  \E q \in Apply!Runs : backup[q].ok
<1>1. live \in Apply!File /\ backup \in [Apply!Runs -> Apply!File] /\ run \in RunRows
  BY DEF Typed, Apply!TypeOK, RunRows
<1>2. CASE Apply!WriteRuns
  BY <1>1, <1>2 DEF Apply!WriteRuns, Apply!File
<1>3. ASSUME NEW r \in Apply!Runs, Apply!DiscardBackup(r) \/ Apply!CopyBackup(r) PROVE FALSE
  BY <1>3 DEF Apply!DiscardBackup, Apply!CopyBackup
<1>4. ASSUME NEW r \in Apply!Runs, Apply!ChangeLive(r) PROVE FALSE
  <2>1. Apply!Changed(r).ok = live.ok
    BY <1>1 DEF Apply!Changed, Apply!File
  <2> QED
    BY <1>4, <2>1 DEF Apply!ChangeLive
<1>5. ASSUME NEW r \in Apply!Runs, Apply!StampLive(r) \/ Apply!Restamp(r) PROVE FALSE
  BY <1>1, <1>5 DEF Apply!StampLive, Apply!Restamp, Apply!File
<1>6. ASSUME NEW r \in Apply!Runs, Apply!UndoStarts(r) \/ Apply!UndoEnds(r) PROVE backup[r].ok
  BY <1>6 DEF Apply!UndoStarts, Apply!UndoEnds, Apply!At, FilesInv
<1>7. ASSUME NEW r \in Apply!Runs, Apply!OverwriteStarts(r) \/ Apply!OverwriteEnds(r) PROVE \E q \in Apply!Runs : backup[q].ok
  <2>1. run[r].source \in Apply!Runs
    BY <1>1, <1>7 DEF Apply!OverwriteStarts, Apply!OverwriteEnds, Apply!At, RunsInv, RunRows, Restoring
  <2> QED
    BY <1>7, <2>1 DEF Apply!OverwriteStarts, Apply!OverwriteEnds
<1>8. ASSUME NEW r \in Apply!Runs, Apply!RecopyStarts(r) \/ Apply!RecopyEnds(r) PROVE \E q \in Apply!Runs : backup[q].ok
  <2>1. Apply!Baseline(r) \in Apply!Runs
    BY <1>1 DEF Apply!Baseline, RunRows
  <2> QED
    BY <1>8, <2>1 DEF Apply!RecopyStarts, Apply!RecopyEnds
<1> QED
  BY FilesFrame, <1>2, <1>3, <1>4, <1>5, <1>6, <1>7, <1>8 DEF FilesMove, LiveSteps

LEMMA SourceKept ==
  ASSUME Typed, RunsInv, FilesInv, Apply!RecoverySource, ApplyStep
  PROVE  Apply!RecoverySource'
<1> SUFFICES ASSUME ~live'.ok PROVE discarded' # {} \/ \E r \in Apply!Runs : backup'[r].ok
  BY DEF Apply!RecoverySource, Apply!Runs
<1>1. discarded # {} \/ \E r \in Apply!Runs : backup[r].ok
  BY BrokenForABackup DEF Apply!RecoverySource
<1>2. PICK r \in Apply!Runs : backup[r].ok \/ r \in discarded
  BY <1>1 DEF Typed
<1> QED
  BY <1>2, BackupStays

-----------------------------------------------------------------------------
(* The theorems.                                                           *)

LEMMA StepKeeps == Apply!BoundsAssumption /\ RunInv /\ ApplyStep => RunInv'
BY TypedKept, RunsKept, DraftsKept, MarksKept, ReviewKept, FilesKept, WritesKept, SourceKept DEF RunInv

\* A set whose elements are all the same has one at most.
LEMMA AtMostOne ==
  ASSUME NEW S, \A x, y \in S : x = y
  PROVE  Cardinality(S) <= 1
<1>1. CASE S = {}
  BY <1>1, FS_EmptySet
<1>2. CASE S # {}
  <2>1. PICK x \in S : TRUE
    BY <1>2
  <2>2. S = {x}
    BY <2>1
  <2> QED
    BY <2>2, FS_Singleton
<1> QED
  BY <1>1, <1>2

LEMMA SameCount == \A S : Apply!Cardinality(S) = Cardinality(S)
BY Zenon DEF Apply!Cardinality, Cardinality

\* What a run of TLC checks of the safety of runs, as the invariant implies it.
RunsAreWhole ==
  /\ Apply!TypeOK
  /\ Apply!NoAcknowledgedWriteLost /\ Apply!RecoverySource /\ Apply!BackupIsBefore
  /\ Apply!OneOpenRun /\ Apply!AppliedIsReviewed

LEMMA WholeByInvariant == RunInv => RunsAreWhole
<1> SUFFICES ASSUME RunInv PROVE RunsAreWhole
  OBVIOUS
<1>1. Apply!BackupIsBefore
  BY DEF RunInv, MarksInv, FilesInv, Apply!BackupIsBefore
<1>2. Apply!OneOpenRun
  <2>1. Cardinality({r \in Apply!Runs : run[r].status \in Apply!Active}) <= 1
    BY AtMostOne DEF RunInv, RunsInv, IsActive
  <2>2. Cardinality({d \in Apply!Drafts : draft[d].status \in {"editing", "applying"}}) <= 1
    BY AtMostOne DEF RunInv, DraftsInv
  <2> QED
    BY <2>1, <2>2, SameCount DEF Apply!OneOpenRun, RunInv, DraftsInv, IsActive
<1>3. Apply!AppliedIsReviewed
  BY DEF RunInv, ReviewInv, Apply!AppliedIsReviewed, Matches
<1> QED
  BY <1>1, <1>2, <1>3 DEF RunsAreWhole, RunInv, Typed

\* What is said of a verdict when a step reaches it.
Told ==
  \A r \in Apply!Runs : run[r].status \in Apply!Active =>
    /\ run'[r].status = "succeeded" => r \in live.marks
    /\ run'[r].status = "recovered" /\ run[r].of # 0 => live.ok /\ r \notin live.marks

LEMMA VerdictsAreTold == RunInv /\ ApplyStep => Told
<1> SUFFICES ASSUME RunInv, ApplyStep, NEW r \in Apply!Runs, run[r].status \in Apply!Active, run'[r].status \in {"succeeded", "recovered"}
             PROVE  /\ run'[r].status = "succeeded" => r \in live.marks
                    /\ run'[r].status = "recovered" /\ run[r].of # 0 => live.ok /\ r \notin live.marks
  BY DEF Told
<1>1. run \in RunRows /\ Typed
  BY DEF RunInv, Typed, Apply!TypeOK, RunRows
<1>2. ASSUME UNCHANGED run PROVE FALSE
  BY <1>2 DEF Apply!Active
<1>3. CASE LaneSteps \/ Apply!BootDone \/ Apply!Crash
  BY <1>2, <1>3 DEF LaneSteps, Apply!CreateDraft, Apply!ChangeDraft, Apply!DropFile,
     Apply!FinishDraftOperation, Apply!BootDone, Apply!Crash, Apply!rows
<1>4. CASE Apply!DiscardBackupRow
  <2>1. PICK q \in Apply!Runs : q = discarding
    BY <1>1, <1>4 DEF Apply!DiscardBackupRow, Typed, Apply!TypeOK
  <2> QED
    BY <1>1, <1>4, <2>1 DEF Apply!DiscardBackupRow, RunRows, Apply!Active
<1>5. ASSUME NEW d \in Apply!Drafts, Apply!ConfirmApply(d) PROVE FALSE
  BY <1>5 DEF Apply!ConfirmApply, Apply!NoActive
<1>6. ASSUME NEW s \in Apply!Runs, Apply!Restore(s) PROVE FALSE
  BY <1>6 DEF Apply!Restore, Apply!NoActive
<1>7. ASSUME NEW q \in Apply!Runs, Apply!MarkApplying(q) PROVE FALSE
  BY <1>1, <1>7 DEF Apply!MarkApplying, RunRows, Apply!Active
<1>8. ASSUME NEW q \in Apply!Runs, NEW out, NEW keep, NEW other, Apply!Settled(q, out, keep, other)
      PROVE  q = r /\ run'[r].status = out
  BY <1>1, <1>8 DEF Apply!Settled, RunRows, Apply!Active
<1>9. ASSUME NEW q \in Apply!Runs, Apply!FailRun(q) PROVE FALSE
  <2>1. Apply!Settled(q, "failed", run[q].retained, "editing")
    BY <1>2, <1>9 DEF Apply!FailRun
  <2> QED
    BY <1>8, <2>1
<1>10. ASSUME NEW q \in Apply!Runs, Apply!Finish(q) \/ Apply!Settle(q)
       PROVE  q = r /\ run'[r].status = task[r].out /\ task[r].pc \in {"finish", "settle"}
  <2>1. CASE Apply!Finish(q)
    <3>1. Apply!Settled(q, task[q].out, task[q].keep, "editing")
      BY <1>2, <2>1 DEF Apply!Finish
    <3> QED
      BY <1>8, <2>1, <3>1 DEF Apply!Finish, Apply!At
  <2>2. CASE Apply!Settle(q)
    <3>1. Apply!Settled(q, task[q].out, task[q].keep, "error")
      BY <1>2, <2>2 DEF Apply!Settle
    <3> QED
      BY <1>8, <2>2, <3>1 DEF Apply!Settle, Apply!At
  <2> QED
    BY <1>10, <2>1, <2>2
<1>11. ASSUME NEW q \in Apply!Runs, Apply!Finish(q) \/ Apply!Settle(q)
       PROVE  /\ run'[r].status = "succeeded" => r \in live.marks
              /\ run'[r].status = "recovered" /\ run[r].of # 0 => live.ok /\ r \notin live.marks
  BY <1>10, <1>11 DEF RunInv, FilesInv
<1> QED
  BY RowsFrame, <1>2, <1>3, <1>4, <1>5, <1>6, <1>7, <1>9, <1>11 DEF RowsMove, RowSteps

LEMMA OneStep == [Next]_vars => ApplyStep
BY DEF Next, vars, ApplyStep, InApply, InHandles, InLifecycle, InDrains

LEMMA RunsBegin == Init => RunInv
BY InitHolds, ResourcesAssumption DEF Init

LEMMA RunsGoOn == RunInv /\ [Next]_vars => RunInv'
BY OneStep, StepKeeps, ResourcesAssumption

\* Whatever the crashes and the failed file operations: no acknowledged write
\* is lost by an apply, an undone apply or a recovery, there is a backup to
\* recover a broken file from, a backup is the database before its run, one run
\* and one draft are open, and what was applied is what was reviewed
\* (DbResourceCoordinator.executeApply, executeRestore, reconcileApply).
THEOREM RunsStaySafe == Spec => []RunsAreSafe
<1>1. RunInv => RunsAreSafe
  BY WholeByInvariant DEF RunsAreWhole, RunsAreSafe
<1> QED
  BY <1>1, RunsBegin, RunsGoOn, PTL DEF Spec

\* A run is reported succeeded only when the live file has its marker, and an
\* apply recovered only when the live file is healthy without it (executeApply,
\* reconcileApply).
THEOREM VerdictsStayTrue == Spec => VerdictIsTrue
<1>1. RunInv /\ [Next]_vars => [Told]_Apply!vars
  BY OneStep, VerdictsAreTold
<1>2. Spec => [][Told]_Apply!vars
  BY <1>1, RunsBegin, RunsGoOn, PTL DEF Spec
<1> QED
  BY <1>2 DEF VerdictIsTrue, Apply!VerdictIsTrue, Told

-----------------------------------------------------------------------------
(* The leases over consumers. What is typed, first.                        *)

Ats == {"new", "refused", "asking", "rolling", "inspecting", "failed", "granted"}
Drain == [at : Ats, from : SUBSET Consumers, rest : SUBSET Consumers,
          asking : Consumers \cup {NoOne}, deadline : Nat, children : SUBSET Drains!Children]
Lease == [expires : 0 .. Drains!Forever, all : SUBSET Drains!Children, children : SUBSET Drains!Children,
          mode : Drains!Modes \cup {"any", "done"}, running : Drains!Modes \cup {"no"}, failed : SUBSET Drains!Children]
DrainScalars ==
  /\ now \in 0 .. MaxTime /\ attached \subseteq Consumers
  /\ calls \subseteq Drains!Drains \X Consumers /\ held \subseteq Drains!Children /\ sends \subseteq Drains!Sends
  /\ active \in 0 .. MaxDrains /\ leases \subseteq Drains!Drains
  /\ released \subseteq Drains!Children \X Drains!Modes /\ given \subseteq Drains!Children
  /\ moves \in 0 .. MaxMoves /\ drainFaults \in 0 .. DrainFaults
DrainsTyped == drain \in [Drains!Drains -> Drain]
LeasesTyped == release \in [Drains!Drains -> Lease]
DrainsState == DrainScalars /\ DrainsTyped /\ LeasesTyped

Undoing == {"rolling", "inspecting", "failed"}
Pending(x, m) == [child |-> x, mode |-> m, by |-> "release"] \in sends
Released(x) == \E m \in Drains!Modes : <<x, m>> \in released
ToldToResume(x) == (\E s \in sends : s.child = x) \/ x \in given

\* A drain starts when nobody owns the resource, and a lease is in force as long
\* as it is the active one.
OwnersOK ==
  /\ active # 0 => drain[active].at = "granted"
  /\ \A d \in Drains!Drains : Drains!Owns(d) => active = d
  /\ \A d \in Drains!Drains : Drains!Running(d) => active = 0 /\ \A e \in Drains!Drains : Drains!Running(e) => d = e

\* A consumer is asked once, in its turn.
CallsOK(d) ==
  /\ \A k \in Consumers : <<d, k>> \in calls =>
       /\ drain[d].at \in Undoing \/ (drain[d].at = "asking" /\ drain[d].asking = k)
       /\ k \notin drain[d].rest
  /\ drain[d].at = "asking" /\ drain[d].asking # NoOne => <<d, drain[d].asking>> \in calls

\* It answers once: its child is new then.
Untold(d, k) == drain[d].at \in {"new", "refused"} \/ k \in drain[d].rest \/ <<d, k>> \in calls
IsKnown(x) ==
  x \in held \/ (\E s \in sends : s.child = x) \/ Released(x) \/ x \in drain[x.drain].children
KnownOK(d) == \A x \in Drains!Children : x.drain = d /\ IsKnown(x) => ~Untold(d, x.of)

\* What a drain has got, and what it still has to ask for.
AskedOK(d) ==
  /\ \A x \in drain[d].children : x.drain = d
  /\ drain[d].at \in {"asking", "granted"} => \A k \in drain[d].from :
       \/ \E x \in drain[d].children : x.of = k
       \/ drain[d].at = "asking" /\ (k \in drain[d].rest \/ k = drain[d].asking)

\* The lease is as long as the shortest of its children.
LeaseOK(d) ==
  /\ drain[d].at # "granted" => release[d] = Drains!NoLease /\ d \notin leases
  /\ drain[d].at = "granted" =>
       /\ release[d].all = drain[d].children
       /\ \A x \in release[d].all : release[d].expires <= x.expires

\* A release goes to the children of its lease, another one to those of a drain
\* that failed.
SendsOK(d) == \A s \in sends : s.child.drain = d =>
  IF s.by = "release"
  THEN drain[d].at = "granted" /\ s.child \in release[d].children /\ s.mode = release[d].running
  ELSE drain[d].at \in Undoing

\* Nobody released what was got before the release begins.
Untouched(d) ==
  \/ drain[d].at = "asking"
  \/ drain[d].at = "granted" /\ release[d].mode = "any" /\ release[d].running = "no"
HeldOK(d) ==
  /\ \A x \in held : x.drain = d => now < x.expires /\ ~Released(x)
  /\ Untouched(d) => \A x \in drain[d].children : now < x.expires => x \in held

\* Who is held is known to the drain or to its lease, or was told.
RememberedOK(d) == \A x \in held : x.drain = d =>
  /\ drain[d].at = "asking" => x \in drain[d].children
  /\ drain[d].at \in Undoing => ToldToResume(x)
  /\ drain[d].at = "granted" => Drains!Expired(d) \/ (d \in leases /\ x \in release[d].children)

\* What a release has done with its children so far.
ReleaseOK(d) ==
  /\ release[d].failed \subseteq release[d].children /\ release[d].children \subseteq release[d].all
  /\ release[d].running # "no" => release[d].mode \in {"any", release[d].running}
  /\ release[d].mode = "any" /\ release[d].running = "no" => release[d].children = release[d].all
  /\ release[d].mode = "done" => release[d].running = "no" /\ release[d].children = {}
  /\ release[d].running = "no" => \A x \in release[d].children : ~Released(x)
  /\ release[d].running # "no" => \A x \in release[d].children :
       \/ Pending(x, release[d].running) /\ x \notin release[d].failed /\ ~Released(x)
       \/ ~Pending(x, release[d].running) /\ x \in release[d].failed /\ ~Released(x)
       \/ ~Pending(x, release[d].running) /\ x \notin release[d].failed /\ Released(x)

\* All in one mode.
InMode(d, m) ==
  /\ \A x \in release[d].all, n \in Drains!Modes : <<x, n>> \in released => n = m
  /\ \A x \in release[d].all \ release[d].children : <<x, m>> \in released
ModesOK(d) ==
  /\ drain[d].at = "asking" => \A x \in drain[d].children : ~Released(x)
  /\ drain[d].at = "granted" /\ release[d].running # "no" => InMode(d, release[d].running)
  /\ drain[d].at = "granted" /\ release[d].running = "no" /\ release[d].mode # "done"
       => InMode(d, release[d].mode)
  /\ release[d].mode = "done" => \E m \in Drains!Modes : InMode(d, m)

DrainOK(d) ==
  /\ CallsOK(d) /\ KnownOK(d) /\ AskedOK(d) /\ LeaseOK(d) /\ SendsOK(d)
  /\ HeldOK(d) /\ RememberedOK(d) /\ ReleaseOK(d) /\ ModesOK(d)

LeaseInv == DrainsState /\ OwnersOK /\ \A d \in Drains!Drains : DrainOK(d)

-----------------------------------------------------------------------------
\* A set of natural numbers has a least one.
LEMMA Least ==
  ASSUME NEW B \in SUBSET Nat, B # {} PROVE \E m \in B : \A k \in B : m <= k
<1>1. IsWellFoundedOn(OpToRel(<, Nat), Nat)
  BY NatLessThanWellFounded
<1>2. PICK m \in B : \A k \in B : ~(<<k, m>> \in OpToRel(<, Nat))
  BY <1>1, WFMin, Zenon
<1>3. \A k \in B : k \in Nat /\ m \in Nat /\ ~(k < m)
  <2>1. \A k \in B : <<k, m>> \in Nat \X Nat
    OBVIOUS
  <2> QED
    BY <1>2, <2>1 DEF OpToRel
<1> QED
  BY <1>3

LEMMA Bounds ==
  ASSUME Drains!UseAssumption
  PROVE  /\ MaxTime \in Nat /\ MaxDrains \in Nat /\ MaxMoves \in Nat /\ DrainFaults \in Nat
         /\ Drains!Forever \in Nat /\ Expiries \subseteq 0 .. Drains!Forever /\ Timeouts \subseteq Nat
         /\ NoOne \notin Consumers
<1>1. MaxTime \in Nat /\ MaxDrains \in Nat /\ MaxMoves \in Nat /\ DrainFaults \in Nat
  BY DEF Drains!UseAssumption
<1> QED
  BY <1>1 DEF Drains!UseAssumption, Drains!Forever

\* A lease expires no later than any of its children.
LEMMA Expiry ==
  ASSUME Drains!UseAssumption, NEW S \in SUBSET Drains!Children
  PROVE  Drains!LeaseExpiry(S) \in 0 .. Drains!Forever /\ \A x \in S : Drains!LeaseExpiry(S) <= x.expires
<1> DEFINE T == {x.expires : x \in S} \cup {Drains!Forever}
<1>0. Drains!Forever \in Nat /\ \A x \in S : x.expires \in 0 .. Drains!Forever
  BY Bounds DEF Drains!Children
<1>1. T \in SUBSET Nat /\ T \subseteq 0 .. Drains!Forever /\ T # {}
  BY <1>0
<1>2. PICK m \in T : \A n \in T : m <= n
  BY <1>1, Least
<1>3. Drains!LeaseExpiry(S) = CHOOSE j \in T : \A n \in T : j =< n
  BY DEF Drains!LeaseExpiry, Drains!Min
<1> HIDE DEF T
<1>4. Drains!LeaseExpiry(S) \in T /\ \A n \in T : Drains!LeaseExpiry(S) <= n
  BY <1>2, <1>3
<1> QED
  BY <1>1, <1>4 DEF T

\* The steps keep the types.
LEMMA DrainScalarsKept ==
  ASSUME Drains!UseAssumption, DrainScalars, DrainsTyped, LeasesTyped, Drains!Next
  PROVE  DrainScalars'
<1> USE DEF DrainScalars, Drains!bounds
<1>1. CASE Drains!Tick
  BY <1>1 DEF Drains!Tick, Drains!UseAssumption
<1>2. ASSUME NEW k \in Consumers, Drains!Attach(k) PROVE DrainScalars'
  BY <1>2 DEF Drains!Attach, Drains!UseAssumption
<1>3. ASSUME NEW d \in Drains!Drains, Drains!BeginDrain(d) PROVE DrainScalars'
  <2>0. (active' = 0 /\ leases' = leases \ {active}) \/ UNCHANGED <<active, leases>>
    BY <1>3 DEF Drains!BeginDrain
  <2>1. active' \in 0 .. MaxDrains /\ leases' \subseteq Drains!Drains
    BY <2>0, Bounds
  <2> QED
    BY <1>3, <2>1 DEF Drains!BeginDrain
<1>4. ASSUME NEW d \in Drains!Drains, Drains!AskNext(d) PROVE DrainScalars'
  BY <1>4 DEF Drains!AskNext, Drains!Turn, Drains!Fails, Drains!RolledBack, Drains!Sends, DrainsTyped,
     Drain, Drains!Modes, Drains!Drains
<1>5. ASSUME NEW d \in Drains!Drains, Drains!TimeOut(d) PROVE DrainScalars'
  BY <1>5 DEF Drains!TimeOut, Drains!Fails, Drains!RolledBack, Drains!Sends, Drains!Modes, DrainsTyped,
     Drain
<1>6. ASSUME NEW d \in Drains!Drains, Drains!Grant(d) PROVE DrainScalars'
  <2>1. active' \in 0 .. MaxDrains /\ leases' \subseteq Drains!Drains
    BY <1>6, Drains!UseAssumption DEF Drains!Grant, Drains!Drains, Drains!UseAssumption
  <2>2. sends' \subseteq Drains!Sends
    <3>1. drain[d].children \subseteq Drains!Children
      BY DEF DrainsTyped, Drain
    <3> QED
      BY <1>6, <3>1 DEF Drains!Grant, Drains!Fails, Drains!RolledBack, Drains!Sends, Drains!Modes
  <2> QED
    BY <1>6, <2>1, <2>2 DEF Drains!Grant
<1>7. ASSUME NEW d \in Drains!Drains, Drains!RollbackSettles(d) PROVE DrainScalars'
  BY <1>7 DEF Drains!RollbackSettles
<1>8. ASSUME NEW d \in Drains!Drains, Drains!Inspected(d) PROVE DrainScalars'
  BY <1>8 DEF Drains!Inspected
<1>9. ASSUME NEW d \in Drains!Drains, Drains!ReleaseExpired(d) PROVE DrainScalars'
  BY <1>9 DEF Drains!ReleaseExpired, Drains!UseAssumption
<1>10. ASSUME NEW d \in Drains!Drains, Drains!EndRelease(d) PROVE DrainScalars'
  BY <1>10 DEF Drains!EndRelease, Drains!Drains, Drains!UseAssumption
<1>11. ASSUME NEW d \in Drains!Drains, NEW mode \in Drains!Modes, Drains!BeginRelease(d, mode) PROVE DrainScalars'
  BY <1>11 DEF Drains!BeginRelease, Drains!Sends, LeasesTyped, Lease
<1>12. ASSUME NEW d \in Drains!Drains, NEW k \in Consumers, Drains!ConsumerGrants(d, k) PROVE DrainScalars'
  BY <1>12 DEF Drains!ConsumerGrants, Drains!LateGrant, Drains!Fails, Drains!RolledBack, Drains!Sends,
     Drains!Modes, DrainsTyped, Drain, Drains!Drains
<1>13. ASSUME NEW d \in Drains!Drains, NEW k \in Consumers, Drains!ConsumerRefuses(d, k) PROVE DrainScalars'
  BY <1>13 DEF Drains!ConsumerRefuses, Drains!Fails, Drains!RolledBack, Drains!Sends, Drains!Modes,
     DrainsTyped, Drain
<1>14. ASSUME NEW s \in sends, Drains!ConsumerReleases(s) PROVE DrainScalars'
  BY <1>14 DEF Drains!ConsumerReleases, Drains!Sends
<1>15. ASSUME NEW s \in sends, Drains!ConsumerRejects(s) PROVE DrainScalars'
  BY <1>15 DEF Drains!ConsumerRejects, Drains!Sends, Drains!UseAssumption
<1> QED
  BY <1>1, <1>2, <1>3, <1>4, <1>5, <1>6, <1>7, <1>8, <1>9, <1>10, <1>11, <1>12, <1>13, <1>14, <1>15
     DEF Drains!Next

LEMMA DrainsTypedKept ==
  ASSUME Drains!UseAssumption, DrainScalars, DrainsTyped, Drains!Next
  PROVE  DrainsTyped'
<1> USE DEF DrainScalars, DrainsTyped, Drain, Ats
<1>1. CASE Drains!Tick
  BY <1>1 DEF Drains!Tick
<1>2. ASSUME NEW k \in Consumers, Drains!Attach(k) PROVE DrainsTyped'
  BY <1>2 DEF Drains!Attach
<1>3. ASSUME NEW d \in Drains!Drains, Drains!BeginDrain(d) PROVE DrainsTyped'
  <2>1. CASE drain' = [drain EXCEPT ![d].at = "refused"]
    BY <2>1
  <2>2. CASE \E t \in Timeouts : drain' = [drain EXCEPT ![d] =
                [Drains!Unborn EXCEPT !.at = "asking", !.from = attached, !.rest = attached,
                               !.deadline = now + t]]
    <3>1. PICK t \in Timeouts : drain' = [drain EXCEPT ![d] =
                [Drains!Unborn EXCEPT !.at = "asking", !.from = attached, !.rest = attached,
                               !.deadline = now + t]]
      BY <2>2
    <3>2. now + t \in Nat
      BY DEF Drains!UseAssumption
    <3>3. [Drains!Unborn EXCEPT !.at = "asking", !.from = attached, !.rest = attached, !.deadline = now + t] \in Drain
      BY <3>2 DEF Drains!Unborn
    <3> QED
      BY <3>1, <3>2, <3>3
  <2> QED
    BY <1>3, <2>1, <2>2 DEF Drains!BeginDrain
<1>4. ASSUME NEW d \in Drains!Drains, Drains!AskNext(d) PROVE DrainsTyped'
  BY <1>4 DEF Drains!AskNext, Drains!Turn, Drains!Fails
<1>5. ASSUME NEW d \in Drains!Drains, Drains!TimeOut(d) PROVE DrainsTyped'
  BY <1>5 DEF Drains!TimeOut, Drains!Fails
<1>6. ASSUME NEW d \in Drains!Drains, Drains!Grant(d) PROVE DrainsTyped'
  BY <1>6 DEF Drains!Grant, Drains!Fails, Drains!Turn
<1>7. ASSUME NEW d \in Drains!Drains, Drains!RollbackSettles(d) PROVE DrainsTyped'
  BY <1>7 DEF Drains!RollbackSettles
<1>8. ASSUME NEW d \in Drains!Drains, Drains!Inspected(d) PROVE DrainsTyped'
  BY <1>8 DEF Drains!Inspected
<1>9. ASSUME NEW d \in Drains!Drains, Drains!ReleaseExpired(d) PROVE DrainsTyped'
  BY <1>9 DEF Drains!ReleaseExpired
<1>10. ASSUME NEW d \in Drains!Drains, Drains!EndRelease(d) PROVE DrainsTyped'
  BY <1>10 DEF Drains!EndRelease
<1>11. ASSUME NEW d \in Drains!Drains, NEW mode \in Drains!Modes, Drains!BeginRelease(d, mode) PROVE DrainsTyped'
  BY <1>11 DEF Drains!BeginRelease
<1>12. ASSUME NEW d \in Drains!Drains, NEW k \in Consumers, Drains!ConsumerGrants(d, k) PROVE DrainsTyped'
  BY <1>12 DEF Drains!ConsumerGrants, Drains!Fails, Drains!LateGrant
<1>13. ASSUME NEW d \in Drains!Drains, NEW k \in Consumers, Drains!ConsumerRefuses(d, k) PROVE DrainsTyped'
  BY <1>13 DEF Drains!ConsumerRefuses, Drains!Fails
<1>14. ASSUME NEW s \in sends, Drains!ConsumerReleases(s) PROVE DrainsTyped'
  BY <1>14 DEF Drains!ConsumerReleases
<1>15. ASSUME NEW s \in sends, Drains!ConsumerRejects(s) PROVE DrainsTyped'
  BY <1>15 DEF Drains!ConsumerRejects
<1> QED
  BY <1>1, <1>2, <1>3, <1>4, <1>5, <1>6, <1>7, <1>8, <1>9, <1>10, <1>11, <1>12, <1>13, <1>14, <1>15
     DEF Drains!Next

LEMMA LeasesTypedKept ==
  ASSUME Drains!UseAssumption, DrainScalars, DrainsTyped, LeasesTyped, Drains!Next
  PROVE  LeasesTyped'
<1> USE DEF LeasesTyped, Lease
<1>1. CASE Drains!Tick
  BY <1>1 DEF Drains!Tick
<1>2. ASSUME NEW k \in Consumers, Drains!Attach(k) PROVE LeasesTyped'
  BY <1>2 DEF Drains!Attach
<1>3. ASSUME NEW d \in Drains!Drains, Drains!BeginDrain(d) PROVE LeasesTyped'
  BY <1>3 DEF Drains!BeginDrain
<1>4. ASSUME NEW d \in Drains!Drains, Drains!AskNext(d) PROVE LeasesTyped'
  BY <1>4 DEF Drains!AskNext
<1>5. ASSUME NEW d \in Drains!Drains, Drains!TimeOut(d) PROVE LeasesTyped'
  BY <1>5 DEF Drains!TimeOut
<1>6. ASSUME NEW d \in Drains!Drains, Drains!Grant(d) PROVE LeasesTyped'
  <2>1. CASE UNCHANGED release
    BY <2>1
  <2>2. CASE release' = [release EXCEPT ![d] = [Drains!NoLease EXCEPT !.expires = Drains!LeaseExpiry(drain[d].children),
                           !.all = drain[d].children, !.children = drain[d].children]]
    <3>1. drain[d].children \in SUBSET Drains!Children
      BY DEF DrainsTyped, Drain
    <3>2. Drains!LeaseExpiry(drain[d].children) \in 0 .. Drains!Forever
      BY <3>1, Expiry
    <3> QED
      BY <2>2, <3>1, <3>2 DEF Drains!NoLease
  <2> QED
    BY <1>6, <2>1, <2>2 DEF Drains!Grant
<1>7. ASSUME NEW d \in Drains!Drains, Drains!RollbackSettles(d) PROVE LeasesTyped'
  BY <1>7 DEF Drains!RollbackSettles
<1>8. ASSUME NEW d \in Drains!Drains, Drains!Inspected(d) PROVE LeasesTyped'
  BY <1>8 DEF Drains!Inspected
<1>9. ASSUME NEW d \in Drains!Drains, Drains!ReleaseExpired(d) PROVE LeasesTyped'
  BY <1>9 DEF Drains!ReleaseExpired
<1>10. ASSUME NEW d \in Drains!Drains, Drains!EndRelease(d) PROVE LeasesTyped'
  BY <1>10 DEF Drains!EndRelease
<1>11. ASSUME NEW d \in Drains!Drains, NEW mode \in Drains!Modes, Drains!BeginRelease(d, mode) PROVE LeasesTyped'
  BY <1>11 DEF Drains!BeginRelease, Drains!Modes
<1>12. ASSUME NEW d \in Drains!Drains, NEW k \in Consumers, Drains!ConsumerGrants(d, k) PROVE LeasesTyped'
  BY <1>12 DEF Drains!ConsumerGrants
<1>13. ASSUME NEW d \in Drains!Drains, NEW k \in Consumers, Drains!ConsumerRefuses(d, k) PROVE LeasesTyped'
  BY <1>13 DEF Drains!ConsumerRefuses
<1>14. ASSUME NEW s \in sends, Drains!ConsumerReleases(s) PROVE LeasesTyped'
  BY <1>14 DEF Drains!ConsumerReleases
<1>15. ASSUME NEW s \in sends, Drains!ConsumerRejects(s) PROVE LeasesTyped'
  BY <1>15 DEF Drains!ConsumerRejects, DrainScalars, Drains!Sends
<1> QED
  BY <1>1, <1>2, <1>3, <1>4, <1>5, <1>6, <1>7, <1>8, <1>9, <1>10, <1>11, <1>12, <1>13, <1>14, <1>15
     DEF Drains!Next

-----------------------------------------------------------------------------
(* What a step does to a drain and to a lease, field by field.              *)

Others(d) == \A e \in Drains!Drains : e # d => drain'[e] = drain[e]
OtherLeases(d) == \A e \in Drains!Drains : e # d => release'[e] = release[e]

\* The drain starts to fail, with the children S to be told.
FailsNow(d, S) ==
  /\ Others(d)
  /\ drain'[d].at = "rolling" /\ drain'[d].asking = NoOne /\ drain'[d].children = S
  /\ drain'[d].from = drain[d].from /\ drain'[d].rest = drain[d].rest
  /\ sends' = sends \cup {[child |-> x, mode |-> "resume", by |-> "rollback"] : x \in S}

\* What Fails does to a drain.
LEMMA FailingDrain ==
  ASSUME DrainsState, NEW d \in Drains!Drains, NEW S, Drains!Fails(d, S)
  PROVE  FailsNow(d, S)
<1> USE DEF DrainsState, DrainsTyped
<1>1. drain' = [drain EXCEPT ![d].at = "rolling", ![d].asking = NoOne, ![d].children = S]
  BY DEF Drains!Fails
<1>2. Others(d)
  BY <1>1 DEF Others
<1>3. drain'[d] = [drain[d] EXCEPT !.at = "rolling", !.asking = NoOne, !.children = S]
  BY <1>1
<1> HIDE DEF DrainsState, DrainsTyped
<1>4. drain[d] \in Drain
  BY DEF DrainsState, DrainsTyped
<1>5. /\ drain'[d].at = "rolling" /\ drain'[d].asking = NoOne /\ drain'[d].children = S
      /\ drain'[d].from = drain[d].from /\ drain'[d].rest = drain[d].rest
  BY <1>3, <1>4 DEF Drain
<1> QED
  BY <1>2, <1>5 DEF Drains!Fails, Drains!RolledBack, FailsNow

\* Other steps of a drain.
Refused(d) ==
  /\ drain'[d].at = "refused" /\ drain'[d].asking = drain[d].asking
  /\ drain'[d].children = drain[d].children
  /\ drain'[d].from = drain[d].from /\ drain'[d].rest = drain[d].rest
Started(d) ==
  /\ drain'[d].at = "asking" /\ drain'[d].asking = NoOne /\ drain'[d].children = {}
  /\ drain'[d].from = attached /\ drain'[d].rest = attached
Asks(d, k) ==
  /\ drain'[d].at = "asking" /\ drain'[d].asking = k /\ drain'[d].rest = drain[d].rest \ {k}
  /\ drain'[d].from = drain[d].from /\ drain'[d].children = drain[d].children
Gets(d, x) ==
  /\ drain'[d].at = "asking" /\ drain'[d].asking = NoOne
  /\ drain'[d].children = drain[d].children \cup {x}
  /\ drain'[d].from = drain[d].from /\ drain'[d].rest = drain[d].rest
Becomes(d, at) ==
  /\ drain'[d].at = at /\ drain'[d].asking = drain[d].asking
  /\ drain'[d].children = drain[d].children
  /\ drain'[d].from = drain[d].from /\ drain'[d].rest = drain[d].rest

\* What each assignment to a drain does, field by field.
LEMMA DrainFields ==
  ASSUME DrainsState, NEW d \in Drains!Drains
  PROVE  /\ \A at \in Ats : drain' = [drain EXCEPT ![d].at = at] => Others(d) /\ Becomes(d, at)
         /\ \A k \in Consumers : drain' = [drain EXCEPT ![d].asking = k, ![d].rest = @ \ {k}] /\ drain[d].at = "asking"
              => Others(d) /\ Asks(d, k)
         /\ \A x \in Drains!Children : drain' = [drain EXCEPT ![d].asking = NoOne, ![d].children = @ \cup {x}]
                                /\ drain[d].at = "asking"
              => Others(d) /\ Gets(d, x)
         /\ \A t \in Nat : drain' = [drain EXCEPT ![d] =
                [Drains!Unborn EXCEPT !.at = "asking", !.from = attached, !.rest = attached,
                               !.deadline = now + t]] => Others(d) /\ Started(d)
<1>0. drain \in [Drains!Drains -> Drain]
  BY DEF DrainsState, DrainsTyped
<1> USE DEF Drain, Others
<1>1. ASSUME NEW at \in Ats, drain' = [drain EXCEPT ![d].at = at] PROVE Others(d) /\ Becomes(d, at)
  BY <1>0, <1>1 DEF Becomes
<1>2. ASSUME NEW k \in Consumers, drain' = [drain EXCEPT ![d].asking = k, ![d].rest = @ \ {k}], drain[d].at = "asking"
      PROVE  Others(d) /\ Asks(d, k)
  BY <1>0, <1>2 DEF Asks
<1>3. ASSUME NEW x \in Drains!Children, drain' = [drain EXCEPT ![d].asking = NoOne, ![d].children = @ \cup {x}],
             drain[d].at = "asking"
      PROVE  Others(d) /\ Gets(d, x)
  BY <1>0, <1>3 DEF Gets
<1>4. ASSUME NEW t \in Nat, drain' = [drain EXCEPT ![d] =
                [Drains!Unborn EXCEPT !.at = "asking", !.from = attached, !.rest = attached,
                               !.deadline = now + t]]
      PROVE  Others(d) /\ Started(d)
  <2>1. drain'[d] = [Drains!Unborn EXCEPT !.at = "asking", !.from = attached, !.rest = attached,
                               !.deadline = now + t]
    BY <1>0, <1>4
  <2>2. Started(d)
    BY <2>1 DEF Started, Drains!Unborn
  <2> QED
    BY <1>0, <1>4, <2>2
<1> QED
  BY <1>1, <1>2, <1>3, <1>4

LeaseAs(d, e) ==
  /\ release'[d].expires = e.expires /\ release'[d].all = e.all /\ release'[d].children = e.children
  /\ release'[d].mode = e.mode /\ release'[d].running = e.running /\ release'[d].failed = e.failed

\* What each assignment to a lease does, field by field.
LEMMA LeaseFields ==
  ASSUME DrainsState, NEW d \in Drains!Drains
  PROVE  /\ \A e \in Lease : release' = [release EXCEPT ![d] = e] => OtherLeases(d) /\ release'[d] = e
         /\ \A m \in Drains!Modes : release' = [release EXCEPT ![d].running = m, ![d].failed = {}]
              => OtherLeases(d) /\ LeaseAs(d, [release[d] EXCEPT !.running = m, !.failed = {}])
         /\ \A x \in Drains!Children : release' = [release EXCEPT ![d].failed = @ \cup {x}]
              => OtherLeases(d) /\ LeaseAs(d, [release[d] EXCEPT !.failed = @ \cup {x}])
         /\ release' = [release EXCEPT ![d].running = "no", ![d].mode = release[d].running,
                                       ![d].children = release[d].failed]
              => OtherLeases(d) /\ LeaseAs(d, [release[d] EXCEPT !.running = "no", !.mode = release[d].running,
                                                                 !.children = release[d].failed])
         /\ release' = [release EXCEPT ![d].running = "no", ![d].mode = "done", ![d].children = {}]
              => OtherLeases(d) /\ LeaseAs(d, [release[d] EXCEPT !.running = "no", !.mode = "done", !.children = {}])
<1>0. release \in [Drains!Drains -> Lease]
  BY DEF DrainsState, LeasesTyped
<1> USE DEF Lease, OtherLeases, LeaseAs
<1> QED
  BY <1>0

\* What each action does, in these terms.
LEMMA BeginDoes ==
  ASSUME Drains!UseAssumption, DrainsState, NEW d \in Drains!Drains, Drains!BeginDrain(d)
  PROVE  /\ drain[d].at = "new" /\ Others(d)
         /\ Refused(d) \/ (Started(d) /\ ~Drains!Busy)
         /\ \/ active # 0 /\ Drains!Expired(active) /\ active' = 0 /\ leases' = leases \ {active}
            \/ UNCHANGED <<active, leases>> /\ (active = 0 \/ ~Drains!Expired(active))
         /\ UNCHANGED <<now, calls, held, sends, release, released, given>>
<1>1. CASE drain' = [drain EXCEPT ![d].at = "refused"]
  BY <1>1, DrainFields DEF Drains!BeginDrain, Ats, Becomes, Refused
<1>2. ASSUME NEW t \in {x \in Timeouts : now + x <= MaxTime}, ~Drains!Busy, drain' = [drain EXCEPT ![d] =
                [Drains!Unborn EXCEPT !.at = "asking", !.from = attached, !.rest = attached,
                               !.deadline = now + t]]
      PROVE  Others(d) /\ Started(d)
  <2>1. t \in Nat
    BY Bounds
  <2> QED
    BY <1>2, <2>1, DrainFields
<1> QED
  BY <1>1, <1>2 DEF Drains!BeginDrain

LEMMA AskDoes ==
  ASSUME DrainsState, NEW d \in Drains!Drains, Drains!AskNext(d)
  PROVE  /\ Drains!Turn(d)
         /\ \/ FailsNow(d, drain[d].children) /\ UNCHANGED calls
            \/ \E k \in drain[d].rest :
                 Others(d) /\ Asks(d, k) /\ calls' = calls \cup {<<d, k>>} /\ UNCHANGED sends
         /\ UNCHANGED <<now, held, active, leases, release, released, given>>
<1>1. ASSUME Drains!Fails(d, drain[d].children) PROVE FailsNow(d, drain[d].children)
  BY <1>1, FailingDrain
<1>2. ASSUME NEW k \in drain[d].rest, drain' = [drain EXCEPT ![d].asking = k, ![d].rest = @ \ {k}], Drains!Turn(d)
      PROVE  Others(d) /\ Asks(d, k)
  <2>1. k \in Consumers
    BY DEF DrainsState, DrainsTyped, Drain
  <2> QED
    BY <1>2, <2>1, DrainFields DEF Drains!Turn
<1> QED
  BY <1>1, <1>2 DEF Drains!AskNext

LEMMA TimeOutDoes ==
  ASSUME DrainsState, NEW d \in Drains!Drains, Drains!TimeOut(d)
  PROVE  /\ drain[d].at = "asking" /\ FailsNow(d, drain[d].children)
         /\ UNCHANGED <<now, calls, held, active, leases, release, released, given>>
BY FailingDrain DEF Drains!TimeOut

LEMMA GrantDoes ==
  ASSUME Drains!UseAssumption, DrainsState, NEW d \in Drains!Drains, Drains!Grant(d)
  PROVE  /\ Drains!Turn(d) /\ drain[d].rest = {}
         /\ \/ FailsNow(d, drain[d].children) /\ UNCHANGED <<active, leases, release>>
            \/ /\ Others(d) /\ Becomes(d, "granted") /\ active' = d /\ leases' = leases \cup {d}
               /\ OtherLeases(d) /\ UNCHANGED sends
               /\ release'[d].all = drain[d].children /\ release'[d].children = drain[d].children
               /\ release'[d].mode = "any" /\ release'[d].running = "no" /\ release'[d].failed = {}
               /\ \A x \in drain[d].children : release'[d].expires <= x.expires
         /\ UNCHANGED <<now, calls, held, released, given>>
<1>1. ASSUME Drains!Fails(d, drain[d].children) PROVE FailsNow(d, drain[d].children)
  BY <1>1, FailingDrain
<1>2. ASSUME drain' = [drain EXCEPT ![d].at = "granted"] PROVE Others(d) /\ Becomes(d, "granted")
  BY <1>2, DrainFields DEF Ats
<1>3. drain[d].children \in SUBSET Drains!Children
  BY DEF DrainsState, DrainsTyped, Drain
<1>4. PICK n \in 0 .. Drains!Forever : n = Drains!LeaseExpiry(drain[d].children) /\ \A x \in drain[d].children : n <= x.expires
  BY <1>3, Expiry
<1>5. ASSUME release' = [release EXCEPT ![d] =
                    [Drains!NoLease EXCEPT !.expires = n, !.all = drain[d].children, !.children = drain[d].children]]
      PROVE  /\ OtherLeases(d)
             /\ release'[d].all = drain[d].children /\ release'[d].children = drain[d].children
             /\ release'[d].mode = "any" /\ release'[d].running = "no" /\ release'[d].failed = {}
             /\ release'[d].expires = n
  <2>1. release \in [Drains!Drains -> Lease]
    BY DEF DrainsState, LeasesTyped
  <2>2. release'[d] = [Drains!NoLease EXCEPT !.expires = n, !.all = drain[d].children, !.children = drain[d].children]
    BY <1>5, <2>1
  <2>3. OtherLeases(d)
    BY <1>5, <2>1 DEF OtherLeases
  <2> QED
    BY <2>2, <2>3 DEF Drains!NoLease
<1> QED
  BY <1>1, <1>2, <1>4, <1>5 DEF Drains!Grant

LEMMA GrantsDoes ==
  ASSUME DrainsState, NEW d \in Drains!Drains, NEW k \in Consumers, Drains!ConsumerGrants(d, k)
  PROVE  /\ <<d, k>> \in calls /\ calls' = calls \ {<<d, k>>}
         /\ \E x \in Drains!Children :
              /\ x.drain = d /\ x.of = k
              /\ held' = IF x.expires > now THEN held \cup {x} ELSE held
              /\ \/ /\ ~Drains!Awaited(d, k) /\ UNCHANGED drain
                    /\ sends' = sends \cup {[child |-> x, mode |-> "resume", by |-> "late"]}
                 \/ Drains!Awaited(d, k) /\ x.expires > now /\ Others(d) /\ Gets(d, x) /\ UNCHANGED sends
                 \/ Drains!Awaited(d, k) /\ FailsNow(d, drain[d].children \cup {x})
         /\ UNCHANGED <<now, active, leases, release, released, given>>
<1>1. PICK x \in Drains!Children :
       /\ x.drain = d /\ x.of = k
       /\ held' = IF x.expires > now THEN held \cup {x} ELSE held
       /\ IF ~Drains!Awaited(d, k)
            THEN Drains!LateGrant(x) /\ UNCHANGED drain
          ELSE IF x.fit /\ x.expires > now
            THEN /\ drain' = [drain EXCEPT ![d].asking = NoOne, ![d].children = @ \cup {x}]
                 /\ UNCHANGED sends
            ELSE Drains!Fails(d, drain[d].children \cup {x})
  BY DEF Drains!ConsumerGrants
<1>2. ASSUME Drains!Awaited(d, k), drain' = [drain EXCEPT ![d].asking = NoOne, ![d].children = @ \cup {x}]
      PROVE  Others(d) /\ Gets(d, x)
  BY <1>2, DrainFields DEF Drains!Awaited
<1>3. ASSUME Drains!Fails(d, drain[d].children \cup {x}) PROVE FailsNow(d, drain[d].children \cup {x})
  BY <1>3, FailingDrain
<1>4. \/ /\ ~Drains!Awaited(d, k) /\ UNCHANGED drain
         /\ sends' = sends \cup {[child |-> x, mode |-> "resume", by |-> "late"]}
      \/ Drains!Awaited(d, k) /\ x.expires > now /\ Others(d) /\ Gets(d, x) /\ UNCHANGED sends
      \/ Drains!Awaited(d, k) /\ FailsNow(d, drain[d].children \cup {x})
  BY <1>1, <1>2, <1>3 DEF Drains!LateGrant
<1> QED
  BY <1>1, <1>4 DEF Drains!ConsumerGrants

LEMMA RefusesDoes ==
  ASSUME DrainsState, NEW d \in Drains!Drains, NEW k \in Consumers, Drains!ConsumerRefuses(d, k)
  PROVE  /\ <<d, k>> \in calls /\ calls' = calls \ {<<d, k>>}
         /\ \/ ~Drains!Awaited(d, k) /\ UNCHANGED <<drain, sends>>
            \/ Drains!Awaited(d, k) /\ FailsNow(d, drain[d].children)
         /\ UNCHANGED <<now, held, active, leases, release, released, given>>
BY FailingDrain DEF Drains!ConsumerRefuses

LEMMA SettlesDoes ==
  ASSUME DrainsState, NEW d \in Drains!Drains, Drains!RollbackSettles(d) \/ Drains!Inspected(d)
  PROVE  /\ Others(d)
         /\ \/ drain[d].at = "rolling" /\ Becomes(d, "inspecting")
            \/ drain[d].at = "inspecting" /\ Becomes(d, "failed")
         /\ UNCHANGED <<now, calls, held, sends, active, leases, release, released, given>>
BY DrainFields DEF Drains!RollbackSettles, Drains!Inspected, Ats

LEMMA ReleaseDoes ==
  ASSUME DrainsState, NEW d \in Drains!Drains, NEW mode \in Drains!Modes, Drains!BeginRelease(d, mode)
  PROVE  /\ d \in leases /\ release[d].running = "no" /\ release[d].mode \in {"any", mode}
         /\ OtherLeases(d) /\ LeaseAs(d, [release[d] EXCEPT !.running = mode, !.failed = {}])
         /\ sends' = sends \cup {[child |-> x, mode |-> mode, by |-> "release"] : x \in release[d].children}
         /\ UNCHANGED <<now, drain, calls, held, active, leases, released, given>>
BY LeaseFields DEF Drains!BeginRelease, Drains!ModeFits

LEMMA RejectDoes ==
  ASSUME DrainsState, NEW s \in sends, Drains!ConsumerRejects(s)
  PROVE  /\ sends' = sends \ {s}
         /\ \/ /\ s.by = "release" /\ UNCHANGED given /\ OtherLeases(s.child.drain)
               /\ LET d == s.child.drain
                  IN  LeaseAs(d, [release[d] EXCEPT !.failed = @ \cup {s.child}])
            \/ s.by # "release" /\ given' = given \cup {s.child} /\ UNCHANGED release
         /\ UNCHANGED <<now, drain, calls, held, active, leases, released>>
<1>1. s.child \in Drains!Children /\ s.child.drain \in Drains!Drains
  BY DEF DrainsState, DrainScalars, Drains!Sends, Drains!Children
<1> QED
  BY <1>1, LeaseFields DEF Drains!ConsumerRejects

LEMMA EndDoes ==
  ASSUME DrainsState, NEW d \in Drains!Drains, Drains!EndRelease(d)
  PROVE  /\ release[d].running # "no" /\ \A s \in sends : s.by = "release" => s.child.drain # d
         /\ OtherLeases(d)
         /\ \/ /\ release[d].failed # {} /\ leases' = leases \cup {d} /\ UNCHANGED active
               /\ LeaseAs(d, [release[d] EXCEPT !.running = "no", !.mode = release[d].running,
                                                !.children = release[d].failed])
            \/ /\ release[d].failed = {} /\ leases' = leases \ {d}
               /\ active' = IF active = d THEN 0 ELSE active
               /\ LeaseAs(d, [release[d] EXCEPT !.running = "no", !.mode = "done", !.children = {}])
         /\ UNCHANGED <<now, drain, calls, held, sends, released, given>>
BY LeaseFields DEF Drains!EndRelease

-----------------------------------------------------------------------------
(* A step is one of a drain, and leaves the others as they are.             *)

Stays(e) ==
  /\ drain'[e] = drain[e] /\ release'[e] = release[e] /\ now' = now
  /\ \A k \in Consumers : <<e, k>> \in calls' <=> <<e, k>> \in calls
  /\ \A x \in Drains!Children : x.drain = e =>
       /\ x \in held' <=> x \in held
       /\ \A m \in Drains!Modes : <<x, m>> \in released' <=> <<x, m>> \in released
       /\ x \in given => x \in given'
  /\ \A s \in Drains!Sends : s.child.drain = e => (s \in sends' <=> s \in sends)
  /\ e \in leases' => e \in leases
  /\ e \in leases => e \in leases' \/ Drains!Expired(e)

StepOf(d) ==
  \/ Drains!BeginDrain(d) \/ Drains!AskNext(d) \/ Drains!TimeOut(d) \/ Drains!Grant(d)
  \/ Drains!RollbackSettles(d) \/ Drains!Inspected(d) \/ Drains!ReleaseExpired(d) \/ Drains!EndRelease(d)
  \/ \E mode \in Drains!Modes : Drains!BeginRelease(d, mode)
  \/ \E k \in Consumers : Drains!ConsumerGrants(d, k) \/ Drains!ConsumerRefuses(d, k)
  \/ \E s \in sends : s.child.drain = d /\ (Drains!ConsumerReleases(s) \/ Drains!ConsumerRejects(s))

\* No step of a drain touches another one, its consumers or its lease, but for
\* the expired lease that it forgets.
LEMMA Elsewhere ==
  ASSUME Drains!UseAssumption, DrainsState, NEW d \in Drains!Drains, NEW e \in Drains!Drains, e # d, AskedOK(d), ReleaseOK(d), LeaseOK(d), StepOf(d)
  PROVE  Stays(e)
<1> USE DEF Stays, Others, OtherLeases
<1>0. /\ drain \in [Drains!Drains -> Drain] /\ release \in [Drains!Drains -> Lease] /\ sends \subseteq Drains!Sends
      /\ held \subseteq Drains!Children
  BY DEF DrainsState, DrainScalars, DrainsTyped, LeasesTyped
<1>00. \A x \in drain[d].children : x.drain = d
  BY DEF AskedOK
<1>01. \A x \in release[d].children : x.drain = d
  BY <1>00 DEF ReleaseOK, LeaseOK, Drains!NoLease
<1> USE <1>0, <1>00, <1>01
<1>1. CASE Drains!BeginDrain(d)
  BY <1>1, BeginDoes
<1>2. CASE Drains!AskNext(d)
  BY <1>2, AskDoes DEF FailsNow
<1>3. CASE Drains!TimeOut(d)
  BY <1>3, TimeOutDoes DEF FailsNow
<1>4. CASE Drains!Grant(d)
  BY <1>4, GrantDoes DEF FailsNow
<1>5. CASE Drains!RollbackSettles(d) \/ Drains!Inspected(d)
  BY <1>5, SettlesDoes
<1>6. CASE Drains!ReleaseExpired(d)
  BY <1>6 DEF Drains!ReleaseExpired
<1>7. CASE Drains!EndRelease(d)
  <2>1. OtherLeases(d) /\ leases' \in {leases \cup {d}, leases \ {d}}
        /\ UNCHANGED <<now, drain, calls, held, sends, released, given>>
    BY <1>7, EndDoes
  <2> QED
    BY <2>1
<1>8. ASSUME NEW mode \in Drains!Modes, Drains!BeginRelease(d, mode) PROVE Stays(e)
  <2>1. /\ OtherLeases(d)
        /\ sends' = sends \cup {[child |-> x, mode |-> mode, by |-> "release"] : x \in release[d].children}
        /\ UNCHANGED <<now, drain, calls, held, leases, released, given>>
    BY <1>8, ReleaseDoes
  <2>2. \A s \in Drains!Sends : s.child.drain = e => (s \in sends' <=> s \in sends)
    BY <2>1
  <2> QED
    BY <2>1, <2>2
<1>9. ASSUME NEW k \in Consumers, Drains!ConsumerGrants(d, k) PROVE Stays(e)
  <2>1. PICK x \in Drains!Children :
           /\ x.drain = d /\ held' \in {held, held \cup {x}}
           /\ \/ sends' = sends \/ sends' = sends \cup {[child |-> x, mode |-> "resume", by |-> "late"]}
              \/ sends' = sends \cup {[child |-> y, mode |-> "resume", by |-> "rollback"] :
                                        y \in drain[d].children \cup {x}}
           /\ UNCHANGED drain \/ Others(d)
    BY <1>9, GrantsDoes DEF FailsNow
  <2>2. \A s \in Drains!Sends : s.child.drain = e => (s \in sends' <=> s \in sends)
    BY <2>1
  <2>3. drain'[e] = drain[e]
    BY <2>1
  <2>4. calls' = calls \ {<<d, k>>} /\ UNCHANGED <<now, leases, release, released, given>>
    BY <1>9, GrantsDoes
  <2> QED
    BY <2>1, <2>2, <2>3, <2>4
<1>10. ASSUME NEW k \in Consumers, Drains!ConsumerRefuses(d, k) PROVE Stays(e)
  <2>1. /\ sends' = sends \/ sends' = sends \cup
               {[child |-> y, mode |-> "resume", by |-> "rollback"] : y \in drain[d].children}
        /\ UNCHANGED drain \/ Others(d)
    BY <1>10, RefusesDoes DEF FailsNow
  <2>2. \A s \in Drains!Sends : s.child.drain = e => (s \in sends' <=> s \in sends)
    BY <2>1
  <2>3. calls' = calls \ {<<d, k>>} /\ UNCHANGED <<now, held, leases, release, released, given>>
    BY <1>10, RefusesDoes
  <2> QED
    BY <2>1, <2>2, <2>3
<1>11. ASSUME NEW s \in sends, s.child.drain = d, Drains!ConsumerReleases(s) PROVE Stays(e)
  BY <1>11 DEF Drains!ConsumerReleases
<1>12. ASSUME NEW s \in sends, s.child.drain = d, Drains!ConsumerRejects(s) PROVE Stays(e)
  BY <1>12, RejectDoes
<1> QED
  BY <1>1, <1>2, <1>3, <1>4, <1>5, <1>6, <1>7, <1>8, <1>9, <1>10, <1>11, <1>12 DEF StepOf

DrainShapes ==
  /\ drain \in [Drains!Drains -> Drain] /\ release \in [Drains!Drains -> Lease] /\ sends \subseteq Drains!Sends
  /\ held \subseteq Drains!Children /\ calls \subseteq Drains!Drains \X Consumers /\ leases \subseteq Drains!Drains
  /\ released \subseteq Drains!Children \X Drains!Modes /\ now \in Nat

LEMMA TypedShapes == ASSUME DrainsState PROVE DrainShapes
BY DEF DrainsState, DrainScalars, DrainsTyped, LeasesTyped, DrainShapes

LEMMA TypedShapesNext == ASSUME DrainsState' PROVE DrainShapes'
BY DEF DrainsState, DrainScalars, DrainsTyped, LeasesTyped, DrainShapes

\* What a drain and its lease refer to is their own.
LEMMA OwnChildren ==
  ASSUME DrainsState, NEW d \in Drains!Drains, DrainOK(d)
  PROVE  /\ \A x \in drain[d].children \cup release[d].all : x \in Drains!Children /\ x.drain = d
         /\ release[d].children \subseteq release[d].all /\ release[d].failed \subseteq release[d].all
BY TypedShapes DEF DrainShapes, DrainOK, AskedOK, LeaseOK, ReleaseOK, Drains!NoLease, Drain, Lease

\* A drain that stays as it is keeps what is known of it.
LEMMA StaysKeep ==
  ASSUME DrainsState, DrainsState', NEW e \in Drains!Drains, DrainOK(e), Stays(e)
  PROVE  DrainOK(e)'
<1> USE DEF DrainOK
<1>10. DrainShapes
  BY TypedShapes
<1>11. DrainShapes'
  BY TypedShapesNext
<1> USE <1>10, <1>11 DEF DrainShapes
<1>12. /\ \A x \in drain[e].children \cup release[e].all : x \in Drains!Children /\ x.drain = e
       /\ release[e].children \subseteq release[e].all /\ release[e].failed \subseteq release[e].all
  BY OwnChildren
<1>14. \A x \in Drains!Children : x.drain = e =>
        (x \in held' <=> x \in held) /\ (Released(x)' <=> Released(x))
        /\ \A m \in Drains!Modes : (<<x, m>> \in released' <=> <<x, m>> \in released)
  BY DEF Stays, Released
<1>15. \A x \in Drains!Children, m \in Drains!Modes : x.drain = e => (Pending(x, m)' <=> Pending(x, m))
  BY DEF Stays, Pending, Drains!Sends
<1>16. drain'[e] = drain[e] /\ release'[e] = release[e] /\ now' = now
  BY DEF Stays
<1>1. CallsOK(e)'
  BY DEF CallsOK, Undoing, Stays, Drain, Lease
<1>2. KnownOK(e)'
  BY DEF KnownOK, IsKnown, Released, Untold, Stays, Drain, Lease
<1>3. AskedOK(e)'
  BY DEF AskedOK, Stays, Drain, Lease
<1>4. LeaseOK(e)'
  BY DEF LeaseOK, Drains!NoLease, Stays, Drain, Lease
<1>5. SendsOK(e)'
  BY DEF SendsOK, Undoing, Stays, Drain, Lease
<1>6. HeldOK(e)'
  BY <1>12, <1>14, <1>16 DEF HeldOK, Untouched
<1>7. RememberedOK(e)'
  BY DEF RememberedOK, ToldToResume, Drains!Expired, Stays, Drain, Lease
<1>8. ReleaseOK(e)'
  BY <1>12, <1>14, <1>15, <1>16 DEF ReleaseOK, Lease
<1>9. ModesOK(e)'
  <2>1. \A m \in Drains!Modes : InMode(e, m) => InMode(e, m)'
    BY <1>12, <1>14, <1>16 DEF InMode
  <2>2. release[e].running \in Drains!Modes \cup {"no"} /\ release[e].mode \in Drains!Modes \cup {"any", "done"}
    BY DEF Lease
  <2>3. InMode(e, "any") => InMode(e, "any")'
    BY <1>12, <1>14, <1>16 DEF InMode, ReleaseOK
  <2> QED
    BY <1>12, <1>14, <1>16, <2>1, <2>2, <2>3 DEF ModesOK
<1> QED
  BY <1>1, <1>2, <1>3, <1>4, <1>5, <1>6, <1>7, <1>8, <1>9

\* Time only ends what is held.
LEMMA TickKeeps ==
  ASSUME Drains!UseAssumption, DrainsState, DrainsState', NEW e \in Drains!Drains, DrainOK(e), Drains!Tick
  PROVE  DrainOK(e)'
<1> USE DEF DrainOK
<1>10. DrainShapes
  BY TypedShapes
<1>11. DrainShapes'
  BY TypedShapesNext
<1> USE <1>10, <1>11 DEF DrainShapes
<1>12. /\ \A x \in drain[e].children \cup release[e].all : x \in Drains!Children /\ x.drain = e
       /\ release[e].children \subseteq release[e].all /\ release[e].failed \subseteq release[e].all
  BY OwnChildren
<1>1. CallsOK(e)'
  BY DEF CallsOK, Undoing, Drains!Tick, Drain, Lease
<1>2. KnownOK(e)'
  BY DEF KnownOK, IsKnown, Released, Untold, Drains!Tick, Drain, Lease
<1>3. AskedOK(e)'
  BY DEF AskedOK, Drains!Tick, Drain, Lease
<1>4. LeaseOK(e)'
  BY DEF LeaseOK, Drains!NoLease, Drains!Tick, Drain, Lease
<1>5. SendsOK(e)'
  BY DEF SendsOK, Undoing, Drains!Tick, Drain, Lease
<1>6. HeldOK(e)'
  <2>1. /\ now' = now + 1 /\ held' = {x \in held : x.expires > now'} /\ UNCHANGED <<drain, release, released>>
    BY DEF Drains!Tick
  <2>2. \A x \in Drains!Children : x.expires \in Nat
    BY Bounds DEF Drains!Children
  <2>3. \A x \in Drains!Children : Released(x)' <=> Released(x)
    BY <2>1 DEF Released
  <2>4. Untouched(e)' <=> Untouched(e)
    BY <2>1 DEF Untouched
  <2>5. \A x \in held' : x \in held /\ now' < x.expires
    BY <2>1, <2>2
  <2>6. \A x \in drain[e].children : now' < x.expires => now < x.expires
    BY <1>12, <2>1, <2>2
  <2>7. \A x \in held : x \in held' \/ ~(now' < x.expires)
    BY <2>1, <2>2
  <2> QED
    BY <1>12, <2>1, <2>3, <2>4, <2>5, <2>6, <2>7 DEF HeldOK
<1>7. RememberedOK(e)'
  BY DEF RememberedOK, ToldToResume, Drains!Expired, Drains!Tick, Drain, Lease
<1>8. ReleaseOK(e)'
  BY DEF ReleaseOK, Pending, Released, Drains!Tick, Drain, Lease
<1>9. ModesOK(e)'
  BY DEF ModesOK, InMode, Released, Drains!Tick, Drain, Lease
<1> QED
  BY <1>1, <1>2, <1>3, <1>4, <1>5, <1>6, <1>7, <1>8, <1>9

-----------------------------------------------------------------------------
(* The steps of a drain keep what is known of it.                           *)

\* A drain fails: all that it has got, S, is told to resume.
LEMMA FailKeeps ==
  ASSUME Drains!UseAssumption, DrainsState, DrainsState', NEW d \in Drains!Drains, DrainOK(d), NEW S \in SUBSET Drains!Children,
         drain[d].at = "asking", drain[d].children \subseteq S, FailsNow(d, S),
         \A x \in S : x.drain = d /\ x.of \notin drain[d].rest /\ <<d, x.of>> \notin calls',
         \A k \in Consumers : <<d, k>> \in calls' => <<d, k>> \in calls,
         \A x \in held' : x \in held \/ (x \in S /\ now < x.expires /\ ~Released(x)),
         UNCHANGED <<now, leases, release, released, given>>
  PROVE  DrainOK(d)'
<1> USE DEF DrainOK
<1>10. DrainShapes
  BY TypedShapes
<1>11. DrainShapes'
  BY TypedShapesNext
<1> USE <1>10, <1>11 DEF DrainShapes
<1>12. /\ \A x \in drain[d].children \cup release[d].all : x \in Drains!Children /\ x.drain = d
       /\ release[d].children \subseteq release[d].all /\ release[d].failed \subseteq release[d].all
  BY OwnChildren
<1>14. /\ drain'[d].at = "rolling" /\ drain'[d].children = S /\ drain'[d].rest = drain[d].rest
       /\ drain'[d].from = drain[d].from
  BY DEF FailsNow
<1>15. \A x \in Drains!Children : x.drain = d /\ (\E s \in sends' : s.child = x) =>
         x \in S \/ \E s \in sends : s.child = x
  BY DEF FailsNow
<1>16. \A x \in S : \E s \in sends' : s.child = x
  <2>1. ASSUME NEW x \in S PROVE [child |-> x, mode |-> "resume", by |-> "rollback"] \in sends'
    BY DEF FailsNow
  <2> QED
    BY <2>1
<1>17. \A s \in sends' : s \in sends \/ (s.by = "rollback" /\ s.child \in S)
  BY DEF FailsNow
<1>18. release[d] = Drains!NoLease /\ d \notin leases
  BY DEF LeaseOK
<1> USE <1>12, <1>14, <1>18
<1>1. CallsOK(d)'
  BY DEF CallsOK, Undoing, Drain, Lease
<1>2. KnownOK(d)'
  BY <1>15 DEF KnownOK, IsKnown, Released, Untold, Drains!Children
<1>3. AskedOK(d)'
  BY DEF AskedOK, Drain, Lease
<1>4. LeaseOK(d)'
  BY DEF LeaseOK, Drains!NoLease, Drain, Lease
<1>5. SendsOK(d)'
  BY <1>17 DEF SendsOK, Undoing
<1>6. HeldOK(d)'
  BY DEF HeldOK, Untouched, Released
<1>7. RememberedOK(d)'
  BY <1>16 DEF RememberedOK, ToldToResume
<1>8. ReleaseOK(d)'
  BY DEF ReleaseOK, Drains!NoLease, Released, Drains!Modes
<1>9. ModesOK(d)'
  BY DEF ModesOK, Drains!NoLease
<1> QED
  BY <1>1, <1>2, <1>3, <1>4, <1>5, <1>6, <1>7, <1>8, <1>9

\* The next consumer is asked.
LEMMA AsksKeeps ==
  ASSUME Drains!UseAssumption, DrainsState, DrainsState', NEW d \in Drains!Drains, DrainOK(d), Drains!Turn(d), NEW k \in drain[d].rest,
         Asks(d, k), calls' = calls \cup {<<d, k>>},
         UNCHANGED <<now, held, sends, leases, release, released, given>>
  PROVE  DrainOK(d)'
<1> USE DEF DrainOK
<1>10. DrainShapes
  BY TypedShapes
<1>11. DrainShapes'
  BY TypedShapesNext
<1> USE <1>10, <1>11 DEF DrainShapes
<1>12. /\ \A x \in drain[d].children \cup release[d].all : x \in Drains!Children /\ x.drain = d
       /\ release[d].children \subseteq release[d].all /\ release[d].failed \subseteq release[d].all
  BY OwnChildren
<1>14. /\ drain[d].at = "asking" /\ drain[d].asking = NoOne /\ k \in Consumers /\ NoOne \notin Consumers
       /\ drain'[d].at = "asking" /\ drain'[d].asking = k /\ drain'[d].rest = drain[d].rest \ {k}
       /\ drain'[d].from = drain[d].from /\ drain'[d].children = drain[d].children
  BY Bounds DEF Drains!Turn, Asks, Drain
<1> USE <1>12, <1>14
<1>1. CallsOK(d)'
  BY DEF CallsOK, Undoing, Drain, Lease
<1>2. KnownOK(d)'
  BY DEF KnownOK, IsKnown, Released, Untold, Drains!Children
<1>3. AskedOK(d)'
  BY DEF AskedOK, Drain, Lease
<1>4. LeaseOK(d)'
  BY DEF LeaseOK, Drains!NoLease, Drain, Lease
<1>5. SendsOK(d)'
  BY DEF SendsOK, Undoing, Drain, Lease
<1>6. HeldOK(d)'
  BY DEF HeldOK, Untouched, Released, Drain, Lease
<1>7. RememberedOK(d)'
  BY DEF RememberedOK, ToldToResume, Drains!Expired, Drain, Lease
<1>8. ReleaseOK(d)'
  BY DEF ReleaseOK, Pending, Released, Drain, Lease
<1>9. ModesOK(d)'
  BY DEF ModesOK, InMode, Released, Drain, Lease
<1> QED
  BY <1>1, <1>2, <1>3, <1>4, <1>5, <1>6, <1>7, <1>8, <1>9

\* It is asked, or it is too late.
LEMMA AskKeeps ==
  ASSUME Drains!UseAssumption, DrainsState, DrainsState', NEW d \in Drains!Drains, DrainOK(d), Drains!AskNext(d)
  PROVE  DrainOK(d)'
<1>10. DrainShapes
  BY TypedShapes
<1>11. DrainShapes'
  BY TypedShapesNext
<1>12. /\ \A x \in drain[d].children : x \in Drains!Children /\ x.drain = d
       /\ drain[d].at = "asking" => \A x \in drain[d].children :
            x.of \notin drain[d].rest /\ <<d, x.of>> \notin calls
  BY <1>10 DEF DrainShapes, DrainOK, AskedOK, KnownOK, IsKnown, Untold, Drain
<1>14. /\ Drains!Turn(d)
       /\ \/ FailsNow(d, drain[d].children) /\ UNCHANGED calls
          \/ \E k \in drain[d].rest :
               Asks(d, k) /\ calls' = calls \cup {<<d, k>>} /\ UNCHANGED sends
       /\ UNCHANGED <<now, held, active, leases, release, released, given>>
  BY AskDoes
<1>15. CASE FailsNow(d, drain[d].children) /\ UNCHANGED calls
  BY <1>10, <1>12, <1>14, <1>15, FailKeeps DEF DrainShapes, Drains!Turn, Drain
<1> QED
  BY <1>14, <1>15, AsksKeeps

\* A consumer did not answer in time.
LEMMA TimeOutKeeps ==
  ASSUME Drains!UseAssumption, DrainsState, DrainsState', NEW d \in Drains!Drains, DrainOK(d), Drains!TimeOut(d)
  PROVE  DrainOK(d)'
<1>10. DrainShapes
  BY TypedShapes
<1>11. DrainShapes'
  BY TypedShapesNext
<1>12. /\ \A x \in drain[d].children : x \in Drains!Children /\ x.drain = d
       /\ drain[d].at = "asking" => \A x \in drain[d].children :
            x.of \notin drain[d].rest /\ <<d, x.of>> \notin calls
  BY <1>10 DEF DrainShapes, DrainOK, AskedOK, KnownOK, IsKnown, Untold, Drain
<1>14. /\ drain[d].at = "asking" /\ FailsNow(d, drain[d].children)
       /\ UNCHANGED <<now, calls, held, active, leases, release, released, given>>
  BY TimeOutDoes
<1> QED
  BY <1>10, <1>12, <1>14, FailKeeps DEF DrainShapes, Drain

\* A consumer refuses, in time or not.
LEMMA RefusesKeeps ==
  ASSUME Drains!UseAssumption, DrainsState, DrainsState', NEW d \in Drains!Drains, DrainOK(d), NEW k \in Consumers, Drains!ConsumerRefuses(d, k)
  PROVE  DrainOK(d)'
<1>10. DrainShapes
  BY TypedShapes
<1>11. DrainShapes'
  BY TypedShapesNext
<1>12. /\ \A x \in drain[d].children : x \in Drains!Children /\ x.drain = d
       /\ drain[d].at = "asking" => \A x \in drain[d].children :
            x.of \notin drain[d].rest /\ <<d, x.of>> \notin calls
  BY <1>10 DEF DrainShapes, DrainOK, AskedOK, KnownOK, IsKnown, Untold, Drain
<1>14. /\ <<d, k>> \in calls /\ calls' = calls \ {<<d, k>>}
       /\ \/ ~Drains!Awaited(d, k) /\ UNCHANGED <<drain, sends>>
          \/ Drains!Awaited(d, k) /\ FailsNow(d, drain[d].children)
       /\ UNCHANGED <<now, held, leases, release, released, given>>
  BY RefusesDoes
<1>15. CASE Drains!Awaited(d, k) /\ FailsNow(d, drain[d].children)
  BY <1>10, <1>12, <1>14, <1>15, FailKeeps DEF DrainShapes, Drain, Drains!Awaited
<1>16. CASE ~Drains!Awaited(d, k) /\ UNCHANGED <<drain, sends>>
  <2> USE <1>14, <1>16 DEF DrainOK
  <2>1. CallsOK(d)' /\ KnownOK(d)'
    BY DEF CallsOK, KnownOK, IsKnown, Released, Untold, Drains!Awaited
  <2>2. AskedOK(d)' /\ LeaseOK(d)' /\ SendsOK(d)'
    BY DEF AskedOK, LeaseOK, SendsOK
  <2>3. HeldOK(d)' /\ RememberedOK(d)'
    BY DEF HeldOK, RememberedOK, Untouched, Released, ToldToResume, Drains!Expired
  <2>4. ReleaseOK(d)' /\ ModesOK(d)'
    BY DEF ReleaseOK, ModesOK, Pending, Released, InMode
  <2> QED
    BY <2>1, <2>2, <2>3, <2>4
<1> QED
  BY <1>14, <1>15, <1>16

\* An expired lease is forgotten.
LEMMA ExpiredKeeps ==
  ASSUME Drains!UseAssumption, DrainsState, DrainsState', NEW d \in Drains!Drains, DrainOK(d), Drains!ReleaseExpired(d)
  PROVE  DrainOK(d)'
<1> USE DEF DrainOK
<1>10. DrainShapes
  BY TypedShapes
<1>11. DrainShapes'
  BY TypedShapesNext
<1> USE <1>10, <1>11 DEF DrainShapes
<1>12. /\ \A x \in drain[d].children \cup release[d].all : x \in Drains!Children /\ x.drain = d
       /\ release[d].children \subseteq release[d].all /\ release[d].failed \subseteq release[d].all
  BY OwnChildren
<1>14. Drains!Expired(d) /\ leases' = leases \ {d}
       /\ UNCHANGED <<now, drain, calls, held, sends, release, released, given>>
  BY DEF Drains!ReleaseExpired
<1> USE <1>12, <1>14
<1>1. CallsOK(d)'
  BY DEF CallsOK, Undoing, Drain, Lease
<1>2. KnownOK(d)'
  BY DEF KnownOK, IsKnown, Released, Untold, Drain, Lease
<1>3. AskedOK(d)'
  BY DEF AskedOK, Drain, Lease
<1>4. LeaseOK(d)'
  BY DEF LeaseOK, Drains!NoLease, Drain, Lease
<1>5. SendsOK(d)'
  BY DEF SendsOK, Undoing, Drain, Lease
<1>6. HeldOK(d)'
  BY DEF HeldOK, Untouched, Released, Drain, Lease
<1>7. RememberedOK(d)'
  BY DEF RememberedOK, ToldToResume, Drains!Expired, Drain, Lease
<1>8. ReleaseOK(d)'
  BY DEF ReleaseOK, Pending, Released, Drain, Lease
<1>9. ModesOK(d)'
  BY DEF ModesOK, InMode, Released, Drain, Lease
<1> QED
  BY <1>1, <1>2, <1>3, <1>4, <1>5, <1>6, <1>7, <1>8, <1>9

\* A new drain has no consumers yet.
LEMMA BeginKeeps ==
  ASSUME Drains!UseAssumption, DrainsState, DrainsState', NEW d \in Drains!Drains, DrainOK(d), Drains!BeginDrain(d)
  PROVE  DrainOK(d)'
<1> USE DEF DrainOK
<1>10. DrainShapes
  BY TypedShapes
<1>11. DrainShapes'
  BY TypedShapesNext
<1> USE <1>10, <1>11 DEF DrainShapes
<1>12. /\ \A y \in drain[d].children \cup release[d].all : y \in Drains!Children /\ y.drain = d
       /\ release[d].children \subseteq release[d].all /\ release[d].failed \subseteq release[d].all
  BY OwnChildren
<1>14. /\ drain[d].at = "new" /\ (Refused(d) \/ Started(d))
       /\ leases' = leases \/ leases' = leases \ {active}
       /\ UNCHANGED <<now, calls, held, sends, release, released, given>>
  BY BeginDoes
<1>15. \A x \in Drains!Children : x.drain = d => ~IsKnown(x)
  BY <1>14 DEF KnownOK, Untold
<1>16. /\ release[d] = Drains!NoLease /\ d \notin leases /\ \A k \in Consumers : <<d, k>> \notin calls
       /\ \A s \in sends : s.child.drain # d
  BY <1>14 DEF LeaseOK, CallsOK, SendsOK, Undoing
<1>17. drain[d].children = {}
  BY <1>12, <1>15 DEF IsKnown
<1>18. /\ drain'[d].at \in {"refused", "asking"} /\ drain'[d].children = {}
       /\ drain'[d].at = "asking" => drain'[d].asking = NoOne /\ drain'[d].rest = drain'[d].from
  BY <1>14, <1>17 DEF Refused, Started
<1>19. d \notin leases' /\ release'[d] = Drains!NoLease /\ UNCHANGED <<now, calls, held, sends, released, given>>
  BY <1>14, <1>16
<1>20. \A x \in Drains!Children : x.drain = d => x \notin held /\ ~Released(x)
  BY <1>15 DEF IsKnown
<1>1. CallsOK(d)' /\ AskedOK(d)' /\ LeaseOK(d)'
  BY <1>16, <1>18, <1>19 DEF CallsOK, AskedOK, LeaseOK
<1>2. KnownOK(d)'
  BY <1>15, <1>18, <1>19 DEF KnownOK, IsKnown, Released
<1>3. SendsOK(d)'
  BY <1>16, <1>19 DEF SendsOK
<1>4. HeldOK(d)' /\ RememberedOK(d)'
  BY <1>18, <1>19, <1>20 DEF HeldOK, RememberedOK
<1>5. ReleaseOK(d)' /\ ModesOK(d)'
  BY <1>18, <1>19 DEF ReleaseOK, ModesOK, Drains!NoLease
<1> QED
  BY <1>1, <1>2, <1>3, <1>4, <1>5

\* A failed drain goes on without them.
LEMMA SettlesKeeps ==
  ASSUME Drains!UseAssumption, DrainsState, DrainsState', NEW d \in Drains!Drains, DrainOK(d), Drains!RollbackSettles(d) \/ Drains!Inspected(d)
  PROVE  DrainOK(d)'
<1> USE DEF DrainOK
<1>10. DrainShapes
  BY TypedShapes
<1>11. DrainShapes'
  BY TypedShapesNext
<1> USE <1>10, <1>11 DEF DrainShapes
<1>12. /\ \A y \in drain[d].children \cup release[d].all : y \in Drains!Children /\ y.drain = d
       /\ release[d].children \subseteq release[d].all /\ release[d].failed \subseteq release[d].all
  BY OwnChildren
<1>14. /\ drain[d].at \in Undoing /\ drain'[d].at \in Undoing
       /\ drain'[d].children = drain[d].children /\ drain'[d].rest = drain[d].rest
       /\ UNCHANGED <<now, calls, held, sends, leases, release, released, given>>
  BY SettlesDoes DEF Becomes, Undoing
<1>15. /\ drain[d].at \notin {"new", "refused", "asking", "granted"}
       /\ drain'[d].at \notin {"new", "refused", "asking", "granted"}
  BY <1>14 DEF Undoing
<1>16. release[d] = Drains!NoLease /\ d \notin leases
  BY <1>15 DEF LeaseOK
<1>1. CallsOK(d)' /\ AskedOK(d)' /\ LeaseOK(d)'
  BY <1>14, <1>15, <1>16 DEF CallsOK, AskedOK, LeaseOK
<1>2. KnownOK(d)'
  BY <1>14, <1>15 DEF KnownOK, IsKnown, Released, Untold, Drains!Children
<1>3. SendsOK(d)'
  BY <1>14, <1>15 DEF SendsOK
<1>4. HeldOK(d)'
  BY <1>14, <1>15 DEF HeldOK, Untouched, Released
<1>5. RememberedOK(d)'
  BY <1>14, <1>15 DEF RememberedOK, ToldToResume
<1>6. ReleaseOK(d)' /\ ModesOK(d)'
  BY <1>14, <1>15, <1>16 DEF ReleaseOK, ModesOK, Drains!NoLease
<1> QED
  BY <1>1, <1>2, <1>3, <1>4, <1>5, <1>6

\* The lease of a drain has all it has got.
LEMMA GrantedKeeps ==
  ASSUME Drains!UseAssumption, DrainsState, DrainsState', NEW d \in Drains!Drains, DrainOK(d), Drains!Turn(d), drain[d].rest = {},
         Becomes(d, "granted"), leases' = leases \cup {d}, UNCHANGED <<now, calls, held, sends, released, given>>,
         release'[d].all = drain[d].children, release'[d].children = drain[d].children,
         release'[d].mode = "any", release'[d].running = "no", release'[d].failed = {},
         \A x \in drain[d].children : release'[d].expires <= x.expires
  PROVE  DrainOK(d)'
<1> USE DEF DrainOK
<1>10. DrainShapes
  BY TypedShapes
<1>11. DrainShapes'
  BY TypedShapesNext
<1> USE <1>10, <1>11 DEF DrainShapes
<1>12. /\ \A y \in drain[d].children \cup release[d].all : y \in Drains!Children /\ y.drain = d
       /\ release[d].children \subseteq release[d].all /\ release[d].failed \subseteq release[d].all
  BY OwnChildren
<1>14. /\ drain[d].at = "asking" /\ drain[d].asking = NoOne /\ NoOne \notin Consumers
       /\ drain'[d].at = "granted" /\ drain'[d].children = drain[d].children
       /\ drain'[d].rest = {} /\ drain'[d].from = drain[d].from
  BY Bounds DEF Drains!Turn, Becomes
<1>15. /\ \A k \in Consumers : <<d, k>> \notin calls
       /\ \A s \in sends : s.child.drain # d
       /\ \A x \in drain[d].children : ~Released(x)
  BY <1>14 DEF CallsOK, SendsOK, ModesOK, Undoing
<1>1. CallsOK(d)' /\ LeaseOK(d)'
  BY <1>14, <1>15 DEF CallsOK, LeaseOK
<1>2. KnownOK(d)'
  BY <1>14, <1>15 DEF KnownOK, Untold, Drains!Children
<1>3. AskedOK(d)'
  BY <1>14 DEF AskedOK, Drain
<1>4. SendsOK(d)'
  BY <1>15 DEF SendsOK
<1>5. HeldOK(d)'
  BY <1>14 DEF HeldOK, Untouched, Released
<1>6. RememberedOK(d)'
  BY <1>14 DEF RememberedOK, Undoing
<1>7. ReleaseOK(d)'
  BY <1>15 DEF ReleaseOK, Released
<1>8. ModesOK(d)'
  BY <1>14, <1>15 DEF ModesOK, InMode, Released
<1> QED
  BY <1>1, <1>2, <1>3, <1>4, <1>5, <1>6, <1>7, <1>8

\* It is granted, or it is too late.
LEMMA GrantKeeps ==
  ASSUME Drains!UseAssumption, DrainsState, DrainsState', NEW d \in Drains!Drains, DrainOK(d), Drains!Grant(d)
  PROVE  DrainOK(d)'
<1>10. DrainShapes
  BY TypedShapes
<1>12. /\ \A x \in drain[d].children : x \in Drains!Children /\ x.drain = d
       /\ drain[d].at = "asking" => \A x \in drain[d].children :
            x.of \notin drain[d].rest /\ <<d, x.of>> \notin calls
  BY <1>10 DEF DrainShapes, DrainOK, AskedOK, KnownOK, IsKnown, Untold, Drain
<1>14. /\ Drains!Turn(d) /\ drain[d].rest = {}
       /\ \/ FailsNow(d, drain[d].children) /\ UNCHANGED <<active, leases, release>>
          \/ /\ Becomes(d, "granted") /\ leases' = leases \cup {d} /\ UNCHANGED sends
             /\ release'[d].all = drain[d].children /\ release'[d].children = drain[d].children
             /\ release'[d].mode = "any" /\ release'[d].running = "no" /\ release'[d].failed = {}
             /\ \A x \in drain[d].children : release'[d].expires <= x.expires
       /\ UNCHANGED <<now, calls, held, released, given>>
  BY GrantDoes
<1>15. CASE FailsNow(d, drain[d].children) /\ UNCHANGED <<active, leases, release>>
  BY <1>10, <1>12, <1>14, <1>15, FailKeeps DEF DrainShapes, Drains!Turn, Drain
<1> QED
  BY <1>14, <1>15, GrantedKeeps

\* A consumer grants its lease in time.
LEMMA GetsKeeps ==
  ASSUME Drains!UseAssumption, DrainsState, DrainsState', NEW d \in Drains!Drains, DrainOK(d), NEW x \in Drains!Children, x.drain = d,
         Drains!Awaited(d, x.of), <<d, x.of>> \in calls, calls' = calls \ {<<d, x.of>>},
         held' = held \cup {x}, now < x.expires, Gets(d, x),
         UNCHANGED <<now, sends, leases, release, released, given>>
  PROVE  DrainOK(d)'
<1> USE DEF DrainOK
<1>10. DrainShapes
  BY TypedShapes
<1>11. DrainShapes'
  BY TypedShapesNext
<1> USE <1>10, <1>11 DEF DrainShapes
<1>12. /\ \A y \in drain[d].children \cup release[d].all : y \in Drains!Children /\ y.drain = d
       /\ release[d].children \subseteq release[d].all /\ release[d].failed \subseteq release[d].all
  BY OwnChildren
<1>14. /\ drain[d].at = "asking" /\ drain[d].asking = x.of /\ NoOne \notin Consumers
       /\ drain'[d].at = "asking" /\ drain'[d].asking = NoOne /\ drain'[d].children = drain[d].children \cup {x}
       /\ drain'[d].rest = drain[d].rest /\ drain'[d].from = drain[d].from
  BY Bounds DEF Drains!Awaited, Gets
<1>15. ~IsKnown(x) /\ x.of \notin drain[d].rest /\ x.of \in Consumers
  BY DEF KnownOK, Untold, CallsOK, Drains!Children
<1>16. release[d] = Drains!NoLease /\ d \notin leases /\ ~Released(x)
  BY <1>14, <1>15 DEF LeaseOK, IsKnown
<1>1. CallsOK(d)'
  BY <1>14 DEF CallsOK, Undoing
<1>2. KnownOK(d)'
  <2>1. ASSUME NEW y \in Drains!Children, y.drain = d, IsKnown(y)' PROVE y = x \/ IsKnown(y)
    BY <1>14, <2>1 DEF IsKnown, Released
  <2>2. ~Untold(d, x.of)'
    BY <1>14, <1>15 DEF Untold
  <2>3. ASSUME NEW k \in Consumers, ~Untold(d, k) PROVE ~Untold(d, k)'
    BY <1>14, <2>3 DEF Untold
  <2>4. \A y \in Drains!Children : y.of \in Consumers
    BY DEF Drains!Children
  <2> QED
    BY <2>1, <2>2, <2>3, <2>4 DEF KnownOK
<1>3. AskedOK(d)'
  BY <1>14, <1>15 DEF AskedOK, Drain
<1>4. LeaseOK(d)' /\ SendsOK(d)'
  BY <1>14, <1>16 DEF LeaseOK, SendsOK, Undoing
<1>5. HeldOK(d)'
  BY <1>14, <1>16 DEF HeldOK, Untouched, Released
<1>6. RememberedOK(d)'
  BY <1>14 DEF RememberedOK, Undoing
<1>7. ReleaseOK(d)'
  BY <1>14, <1>16 DEF ReleaseOK, Drains!NoLease
<1>8. ModesOK(d)'
  <2>1. \A y \in drain[d].children : ~Released(y)
    BY <1>14 DEF ModesOK
  <2>2. release'[d].mode = "any"
    BY <1>16 DEF Drains!NoLease
  <2>3. \A y \in drain'[d].children : ~Released(y)'
    BY <1>14, <1>16, <2>1 DEF Released
  <2> QED
    BY <1>14, <2>2, <2>3 DEF ModesOK
<1> QED
  BY <1>1, <1>2, <1>3, <1>4, <1>5, <1>6, <1>7, <1>8

\* A consumer grants its lease too late and is told to resume.
LEMMA LateKeeps ==
  ASSUME Drains!UseAssumption, DrainsState, DrainsState', NEW d \in Drains!Drains, DrainOK(d), NEW x \in Drains!Children, x.drain = d,
         ~Drains!Awaited(d, x.of), <<d, x.of>> \in calls, calls' = calls \ {<<d, x.of>>},
         held' = IF x.expires > now THEN held \cup {x} ELSE held,
         sends' = sends \cup {[child |-> x, mode |-> "resume", by |-> "late"]},
         UNCHANGED <<now, drain, leases, release, released, given>>
  PROVE  DrainOK(d)'
<1> USE DEF DrainOK
<1>10. DrainShapes
  BY TypedShapes
<1>11. DrainShapes'
  BY TypedShapesNext
<1> USE <1>10, <1>11 DEF DrainShapes
<1>12. /\ \A y \in drain[d].children \cup release[d].all : y \in Drains!Children /\ y.drain = d
       /\ release[d].children \subseteq release[d].all /\ release[d].failed \subseteq release[d].all
  BY OwnChildren
<1>14. drain[d].at \in Undoing /\ x.of \notin drain[d].rest /\ x.of \in Consumers
  BY DEF CallsOK, Drains!Awaited, Drains!Children
<1>15. ~IsKnown(x)
  BY DEF KnownOK, Untold
<1>16. /\ drain[d].at \notin {"new", "refused", "asking", "granted"}
       /\ release[d] = Drains!NoLease /\ d \notin leases /\ ~Released(x)
  BY <1>14, <1>15 DEF LeaseOK, Undoing, IsKnown
<1>17. \A y \in held' : y \in held \/ (y = x /\ now < x.expires)
  BY Bounds DEF Drains!Children
<1>1. CallsOK(d)'
  BY <1>14, <1>16 DEF CallsOK
<1>2. KnownOK(d)'
  <2>1. ASSUME NEW y \in Drains!Children, y.drain = d, IsKnown(y)' PROVE y = x \/ IsKnown(y)
    <3>1. Released(y)' <=> Released(y)
      BY DEF Released
    <3>2. (\E s \in sends' : s.child = y) => y = x \/ \E s \in sends : s.child = y
      OBVIOUS
    <3> QED
      BY <1>17, <2>1, <3>1, <3>2 DEF IsKnown
  <2>2. ~Untold(d, x.of)'
    BY <1>14, <1>16 DEF Untold
  <2>3. ASSUME NEW k \in Consumers, ~Untold(d, k) PROVE ~Untold(d, k)'
    BY <2>3 DEF Untold
  <2>4. \A y \in Drains!Children : y.of \in Consumers
    BY DEF Drains!Children
  <2> QED
    BY <2>1, <2>2, <2>3, <2>4 DEF KnownOK
<1>3. AskedOK(d)' /\ LeaseOK(d)' /\ SendsOK(d)'
  BY <1>14, <1>16 DEF AskedOK, LeaseOK, SendsOK
<1>4. HeldOK(d)'
  BY <1>16, <1>17 DEF HeldOK, Untouched, Released
<1>5. RememberedOK(d)'
  <2>1. [child |-> x, mode |-> "resume", by |-> "late"] \in sends'
    OBVIOUS
  <2>2. ToldToResume(x)' /\ \A y \in held : ToldToResume(y) => ToldToResume(y)'
    BY <2>1 DEF ToldToResume
  <2> QED
    BY <1>14, <1>16, <1>17, <2>2 DEF RememberedOK
<1>6. ReleaseOK(d)' /\ ModesOK(d)'
  BY <1>16 DEF ReleaseOK, ModesOK, Drains!NoLease
<1> QED
  BY <1>1, <1>2, <1>3, <1>4, <1>5, <1>6

\* In time, unfit or too late.
LEMMA GrantsKeeps ==
  ASSUME Drains!UseAssumption, DrainsState, DrainsState', NEW d \in Drains!Drains, DrainOK(d), NEW k \in Consumers, Drains!ConsumerGrants(d, k)
  PROVE  DrainOK(d)'
<1>10. DrainShapes
  BY TypedShapes
<1>12. /\ \A x \in drain[d].children : x \in Drains!Children /\ x.drain = d
       /\ drain[d].at = "asking" => \A x \in drain[d].children :
            x.of \notin drain[d].rest /\ <<d, x.of>> \notin calls
  BY <1>10 DEF DrainShapes, DrainOK, AskedOK, KnownOK, IsKnown, Untold, Drain
<1>13. /\ <<d, k>> \in calls /\ calls' = calls \ {<<d, k>>}
       /\ UNCHANGED <<now, leases, release, released, given>>
  BY GrantsDoes
<1>14. PICK x \in Drains!Children :
          /\ x.drain = d /\ x.of = k
          /\ held' = IF x.expires > now THEN held \cup {x} ELSE held
          /\ \/ /\ ~Drains!Awaited(d, k) /\ UNCHANGED drain
                /\ sends' = sends \cup {[child |-> x, mode |-> "resume", by |-> "late"]}
             \/ Drains!Awaited(d, k) /\ x.expires > now /\ Gets(d, x) /\ UNCHANGED sends
             \/ Drains!Awaited(d, k) /\ FailsNow(d, drain[d].children \cup {x})
  BY GrantsDoes
<1>15. CASE ~Drains!Awaited(d, k) /\ UNCHANGED drain /\ sends' = sends \cup {[child |-> x, mode |-> "resume", by |-> "late"]}
  BY <1>13, <1>14, <1>15, LateKeeps
<1>16. now \in Nat /\ x.expires \in Nat
  BY <1>10, Bounds DEF DrainShapes, Drains!Children
<1>17. CASE Drains!Awaited(d, k) /\ x.expires > now /\ Gets(d, x) /\ UNCHANGED sends
  BY <1>13, <1>14, <1>16, <1>17, GetsKeeps
<1>18. CASE Drains!Awaited(d, k) /\ FailsNow(d, drain[d].children \cup {x})
  <2> DEFINE S == drain[d].children \cup {x}
  <2>1. drain[d].at = "asking" /\ S \in SUBSET Drains!Children
    BY <1>10, <1>12, <1>14, <1>18 DEF DrainShapes, Drain, Drains!Awaited
  <2>2. ~IsKnown(x) /\ k \notin drain[d].rest
    BY <1>13, <1>14 DEF DrainOK, KnownOK, Untold, CallsOK
  <2>3. \A y \in S : y.drain = d /\ y.of \notin drain[d].rest /\ <<d, y.of>> \notin calls'
    BY <1>12, <1>13, <1>14, <2>1, <2>2
  <2>4. \A j \in Consumers : <<d, j>> \in calls' => <<d, j>> \in calls
    BY <1>13
  <2>5. \A y \in held' : y \in held \/ (y \in S /\ now < y.expires /\ ~Released(y))
    BY <1>14, <1>16, <2>2 DEF IsKnown
  <2>6. FailsNow(d, S) /\ drain[d].children \subseteq S
    BY <1>18
  <2> HIDE DEF S
  <2> QED
    BY <1>13, <2>1, <2>3, <2>4, <2>5, <2>6, FailKeeps
<1> QED
  BY <1>14, <1>15, <1>17, <1>18

\* Nobody was told before, so everybody is told in one mode.
LEMMA BeginReleaseKeeps ==
  ASSUME Drains!UseAssumption, DrainsState, DrainsState', NEW d \in Drains!Drains, DrainOK(d), NEW mode \in Drains!Modes, Drains!BeginRelease(d, mode)
  PROVE  DrainOK(d)'
<1> USE DEF DrainOK
<1>10. DrainShapes
  BY TypedShapes
<1>11. DrainShapes'
  BY TypedShapesNext
<1> USE <1>10, <1>11 DEF DrainShapes
<1>12. /\ \A y \in drain[d].children \cup release[d].all : y \in Drains!Children /\ y.drain = d
       /\ release[d].children \subseteq release[d].all /\ release[d].failed \subseteq release[d].all
  BY OwnChildren
<1>14. /\ d \in leases /\ release[d].running = "no" /\ release[d].mode \in {"any", mode}
       /\ LeaseAs(d, [release[d] EXCEPT !.running = mode, !.failed = {}])
       /\ sends' = sends \cup {[child |-> x, mode |-> mode, by |-> "release"] : x \in release[d].children}
       /\ UNCHANGED <<now, drain, calls, held, leases, released, given>>
  BY ReleaseDoes
<1>15. /\ release'[d].running = mode /\ release'[d].failed = {} /\ release'[d].mode = release[d].mode
       /\ release'[d].all = release[d].all /\ release'[d].children = release[d].children
       /\ release'[d].expires = release[d].expires
  BY <1>14 DEF LeaseAs, Lease
<1>16. mode # "no" /\ mode # "any" /\ mode # "done"
  BY DEF Drains!Modes
<1>17. drain[d].at = "granted" /\ release[d].all = drain[d].children
  BY <1>14 DEF LeaseOK
<1>18. \A s \in sends : s.child.drain # d
  BY <1>14, <1>17 DEF SendsOK, Drains!Sends, Drains!Modes, Undoing
<1>19. \A s \in sends' : s.child.drain = d =>
         s.by = "release" /\ s.child \in release[d].children /\ s.mode = mode
  BY <1>14, <1>18
<1>20. \A x \in release[d].children : Pending(x, mode)' /\ ~Released(x)'
  <2>1. \A x \in release[d].children : ~Released(x)
    BY <1>14 DEF ReleaseOK
  <2> QED
    BY <1>14, <2>1 DEF Pending, Released
<1>1. CallsOK(d)' /\ AskedOK(d)' /\ LeaseOK(d)'
  BY <1>14, <1>15, <1>17 DEF CallsOK, AskedOK, LeaseOK
<1>2. KnownOK(d)'
  <2>1. ASSUME NEW x \in Drains!Children, x.drain = d, IsKnown(x)' PROVE IsKnown(x)
    BY <1>12, <1>14, <1>17, <1>19, <2>1 DEF IsKnown, Released
  <2>2. \A k \in Consumers : Untold(d, k)' <=> Untold(d, k)
    BY <1>14 DEF Untold
  <2> QED
    BY <2>1, <2>2 DEF KnownOK, Drains!Children
<1>3. SendsOK(d)'
  BY <1>14, <1>15, <1>17, <1>19 DEF SendsOK
<1>4. HeldOK(d)'
  BY <1>14, <1>15, <1>16, <1>17 DEF HeldOK, Untouched, Released
<1>5. RememberedOK(d)'
  BY <1>14, <1>15, <1>17 DEF RememberedOK, Drains!Expired, Undoing
<1>6. ReleaseOK(d)'
  BY <1>12, <1>14, <1>15, <1>16, <1>20 DEF ReleaseOK
<1>7. ModesOK(d)'
  <2>1. InMode(d, mode)
    <3>1. CASE release[d].mode = mode
      BY <1>14, <1>16, <1>17, <3>1 DEF ModesOK
    <3>2. CASE release[d].mode = "any"
      BY <1>14, <1>17, <3>2 DEF ModesOK, InMode, ReleaseOK, Drains!Modes
    <3> QED
      BY <1>14, <3>1, <3>2
  <2>2. InMode(d, mode)'
    BY <1>14, <1>15, <2>1 DEF InMode
  <2> QED
    BY <1>14, <1>15, <1>16, <1>17, <2>2 DEF ModesOK
<1> QED
  BY <1>1, <1>2, <1>3, <1>4, <1>5, <1>6, <1>7

\* Those that failed are kept; without any the lease is released.
LEMMA EndKeeps ==
  ASSUME Drains!UseAssumption, DrainsState, DrainsState', NEW d \in Drains!Drains, DrainOK(d), Drains!EndRelease(d)
  PROVE  DrainOK(d)'
<1> USE DEF DrainOK
<1>10. DrainShapes
  BY TypedShapes
<1>11. DrainShapes'
  BY TypedShapesNext
<1> USE <1>10, <1>11 DEF DrainShapes
<1>12. /\ \A y \in drain[d].children \cup release[d].all : y \in Drains!Children /\ y.drain = d
       /\ release[d].children \subseteq release[d].all /\ release[d].failed \subseteq release[d].all
  BY OwnChildren
<1>14. /\ release[d].running # "no" /\ \A s \in sends : s.by = "release" => s.child.drain # d
       /\ \/ /\ release[d].failed # {} /\ leases' = leases \cup {d}
             /\ LeaseAs(d, [release[d] EXCEPT !.running = "no", !.mode = release[d].running,
                                              !.children = release[d].failed])
          \/ /\ release[d].failed = {} /\ leases' = leases \ {d}
             /\ LeaseAs(d, [release[d] EXCEPT !.running = "no", !.mode = "done", !.children = {}])
       /\ UNCHANGED <<now, drain, calls, held, sends, released, given>>
  BY EndDoes
<1>15. /\ release'[d].running = "no" /\ release'[d].all = release[d].all
       /\ release'[d].failed = release[d].failed /\ release'[d].expires = release[d].expires
       /\ \/ /\ release[d].failed # {} /\ leases' = leases \cup {d}
             /\ release'[d].mode = release[d].running /\ release'[d].children = release[d].failed
          \/ /\ release[d].failed = {} /\ leases' = leases \ {d}
             /\ release'[d].mode = "done" /\ release'[d].children = {}
  BY <1>14 DEF LeaseAs, Lease
<1>16. release[d].running \in Drains!Modes /\ release[d].running # "done" /\ release'[d].mode # "any"
  BY <1>14, <1>15 DEF Lease, Drains!Modes
<1>17. /\ release[d].running # "no" /\ \A s \in sends : s.by = "release" => s.child.drain # d
       /\ UNCHANGED <<now, drain, calls, held, sends, released, given>>
  BY <1>14
<1>18. drain[d].at = "granted" /\ release[d].all = drain[d].children
  BY <1>14 DEF LeaseOK, Drains!NoLease
<1>19. \A x \in release[d].children : ~Pending(x, release[d].running)
  BY <1>12, <1>17 DEF Pending
<1>20. \A x \in release[d].children : x \in release[d].failed <=> ~Released(x)
  BY <1>17, <1>19 DEF ReleaseOK
<1>21. release'[d].children = release[d].failed /\ release[d].failed \subseteq release[d].children
  BY <1>15 DEF ReleaseOK
<1>22. \A x \in Drains!Children : Released(x)' <=> Released(x)
  BY <1>17 DEF Released
<1>1. CallsOK(d)' /\ AskedOK(d)' /\ LeaseOK(d)' /\ SendsOK(d)'
  BY <1>15, <1>17, <1>18 DEF CallsOK, AskedOK, LeaseOK, SendsOK, Undoing
<1>2. KnownOK(d)'
  BY <1>17 DEF KnownOK, IsKnown, Released, Untold, Drains!Children
<1>3. HeldOK(d)'
  BY <1>15, <1>16, <1>17, <1>18, <1>22 DEF HeldOK, Untouched
<1>4. RememberedOK(d)'
  <2>1. ASSUME NEW x \in held, x.drain = d PROVE Drains!Expired(d) \/ (d \in leases' /\ x \in release'[d].children)
    <3>1. Drains!Expired(d) \/ x \in release[d].children
      BY <1>18, <2>1 DEF RememberedOK
    <3>2. ~Released(x)
      BY <2>1 DEF HeldOK
    <3> QED
      BY <1>15, <1>20, <1>21, <3>1, <3>2
  <2>2. Drains!Expired(d)' <=> Drains!Expired(d)
    BY <1>15, <1>17 DEF Drains!Expired
  <2> QED
    BY <1>17, <1>18, <2>1, <2>2 DEF RememberedOK, Undoing
<1>5. ReleaseOK(d)'
  BY <1>12, <1>15, <1>16, <1>20, <1>21, <1>22 DEF ReleaseOK
<1>6. ModesOK(d)'
  <2>1. InMode(d, release[d].running)
    BY <1>17, <1>18 DEF ModesOK
  <2>2. \A x \in release[d].children \ release[d].failed : <<x, release[d].running>> \in released
    BY <1>12, <1>20, <2>1 DEF InMode, Released
  <2>3. \A m \in Drains!Modes : m = release[d].running => InMode(d, m)'
    BY <1>15, <1>17, <1>21, <2>1, <2>2 DEF InMode
  <2> QED
    BY <1>15, <1>16, <1>17, <1>18, <2>3 DEF ModesOK
<1> QED
  BY <1>1, <1>2, <1>3, <1>4, <1>5, <1>6

\* A consumer carries out a release.
LEMMA ReleasesKeeps ==
  ASSUME Drains!UseAssumption, DrainsState, DrainsState', NEW d \in Drains!Drains, DrainOK(d), NEW s \in sends, s.child.drain = d,
         Drains!ConsumerReleases(s)
  PROVE  DrainOK(d)'
<1> USE DEF DrainOK
<1>10. DrainShapes
  BY TypedShapes
<1>11. DrainShapes'
  BY TypedShapesNext
<1> USE <1>10, <1>11 DEF DrainShapes
<1>12. /\ \A y \in drain[d].children \cup release[d].all : y \in Drains!Children /\ y.drain = d
       /\ release[d].children \subseteq release[d].all /\ release[d].failed \subseteq release[d].all
  BY OwnChildren
<1>14. /\ s.child \in held /\ sends' = sends \ {s} /\ held' = held \ {s.child}
       /\ released' = released \cup {<<s.child, s.mode>>}
       /\ UNCHANGED <<now, drain, calls, leases, release, given>>
  BY DEF Drains!ConsumerReleases
<1>15. /\ s.child \in Drains!Children /\ s.mode \in Drains!Modes /\ ~Released(s.child)
       /\ s = [child |-> s.child, mode |-> s.mode, by |-> s.by]
  BY <1>14 DEF Drains!Sends, HeldOK
<1>16. IF s.by = "release"
       THEN drain[d].at = "granted" /\ s.child \in release[d].children /\ s.mode = release[d].running
       ELSE drain[d].at \in Undoing /\ release[d] = Drains!NoLease
  BY DEF SendsOK, LeaseOK, Undoing
<1>17. drain[d].at \notin {"new", "refused", "asking"} /\ ~Untouched(d)
  BY <1>15, <1>16 DEF Undoing, Drains!Modes, Untouched
<1>18. \A x \in Drains!Children : x # s.child =>
         /\ Released(x)' <=> Released(x)
         /\ \A m \in Drains!Modes : <<x, m>> \in released' <=> <<x, m>> \in released
  BY <1>14 DEF Released
<1>19. \A x \in Drains!Children, m \in Drains!Modes : x # s.child => (Pending(x, m)' <=> Pending(x, m))
  BY <1>14 DEF Pending
<1>20. Released(s.child)'
  BY <1>14, <1>15 DEF Released
<1>1. CallsOK(d)' /\ AskedOK(d)' /\ LeaseOK(d)' /\ SendsOK(d)'
  BY <1>14 DEF CallsOK, AskedOK, LeaseOK, SendsOK
<1>2. KnownOK(d)'
  <2>1. ASSUME NEW x \in Drains!Children, IsKnown(x)' PROVE IsKnown(x)
    BY <1>14, <1>18, <2>1 DEF IsKnown
  <2>2. \A k \in Consumers : Untold(d, k)' <=> Untold(d, k)
    BY <1>14 DEF Untold
  <2> QED
    BY <2>1, <2>2 DEF KnownOK, Drains!Children
<1>3. HeldOK(d)'
  <2>1. ~Untouched(d)'
    BY <1>14, <1>17 DEF Untouched
  <2> QED
    BY <1>14, <1>18, <2>1 DEF HeldOK
<1>4. RememberedOK(d)'
  <2>1. \A x \in held' : x \in held /\ (ToldToResume(x) => ToldToResume(x)')
    BY <1>14 DEF ToldToResume
  <2> QED
    BY <1>14, <2>1 DEF RememberedOK, Drains!Expired
<1>5. CASE s.by # "release"
  <2>1. ReleaseOK(d)' /\ ModesOK(d)'
    BY <1>5, <1>14, <1>16, <1>17 DEF ReleaseOK, ModesOK, Drains!NoLease, Undoing
  <2> QED
    BY <1>1, <1>2, <1>3, <1>4, <2>1
<1>6. CASE s.by = "release"
  <2>1. release[d].running = s.mode /\ s.mode # "no" /\ release[d].mode # "done"
    BY <1>6, <1>15, <1>16 DEF Drains!Modes, ReleaseOK
  <2>2. Pending(s.child, s.mode) /\ ~Pending(s.child, s.mode)'
    BY <1>6, <1>14, <1>15 DEF Pending
  <2>3. s.child \notin release[d].failed
    BY <1>6, <1>16, <2>1, <2>2 DEF ReleaseOK
  <2>4. ReleaseOK(d)'
    BY <1>12, <1>14, <1>15, <1>18, <1>19, <1>20, <2>1, <2>2, <2>3 DEF ReleaseOK
  <2>5. InMode(d, s.mode)'
    <3>1. InMode(d, s.mode)
      BY <1>6, <1>16, <2>1 DEF ModesOK
    <3>2. \A n \in Drains!Modes : <<s.child, n>> \in released' => n = s.mode
      BY <1>14, <1>15 DEF Released
    <3> QED
      BY <1>12, <1>14, <1>18, <3>1, <3>2 DEF InMode
  <2>6. ModesOK(d)'
    BY <1>6, <1>14, <1>16, <2>1, <2>5 DEF ModesOK
  <2> QED
    BY <1>1, <1>2, <1>3, <1>4, <2>4, <2>6
<1> QED
  BY <1>5, <1>6

\* A consumer does not: the lease keeps it, or it is given up.
LEMMA RejectsKeeps ==
  ASSUME Drains!UseAssumption, DrainsState, DrainsState', NEW d \in Drains!Drains, DrainOK(d), NEW s \in sends, s.child.drain = d,
         Drains!ConsumerRejects(s)
  PROVE  DrainOK(d)'
<1> USE DEF DrainOK
<1>10. DrainShapes
  BY TypedShapes
<1>11. DrainShapes'
  BY TypedShapesNext
<1> USE <1>10, <1>11 DEF DrainShapes
<1>12. /\ \A y \in drain[d].children \cup release[d].all : y \in Drains!Children /\ y.drain = d
       /\ release[d].children \subseteq release[d].all /\ release[d].failed \subseteq release[d].all
  BY OwnChildren
<1>14. /\ sends' = sends \ {s}
       /\ \/ /\ s.by = "release" /\ UNCHANGED given
             /\ LeaseAs(d, [release[d] EXCEPT !.failed = @ \cup {s.child}])
          \/ s.by # "release" /\ given' = given \cup {s.child} /\ UNCHANGED release
       /\ UNCHANGED <<now, drain, calls, held, leases, released>>
  BY RejectDoes
<1>15. /\ s.by = "release" => release'[d].failed = release[d].failed \cup {s.child}
       /\ s.by # "release" => release'[d].failed = release[d].failed
       /\ release'[d].running = release[d].running /\ release'[d].mode = release[d].mode
       /\ release'[d].all = release[d].all /\ release'[d].children = release[d].children
       /\ release'[d].expires = release[d].expires
  BY <1>14 DEF LeaseAs, Lease
<1>16. /\ s.child \in Drains!Children /\ s.mode \in Drains!Modes
       /\ s = [child |-> s.child, mode |-> s.mode, by |-> s.by]
  BY DEF Drains!Sends
<1>17. IF s.by = "release"
       THEN drain[d].at = "granted" /\ s.child \in release[d].children /\ s.mode = release[d].running
       ELSE drain[d].at \in Undoing /\ release[d] = Drains!NoLease
  BY DEF SendsOK, LeaseOK, Undoing
<1>18. \A x \in Drains!Children : Released(x)' <=> Released(x)
  BY <1>14 DEF Released
<1>1. CallsOK(d)' /\ AskedOK(d)' /\ SendsOK(d)'
  BY <1>14, <1>15 DEF CallsOK, AskedOK, SendsOK
<1>2. LeaseOK(d)'
  <2>1. drain[d].at # "granted" => release'[d] = release[d]
    BY <1>14, <1>17
  <2> QED
    BY <1>14, <1>15, <2>1 DEF LeaseOK
<1>3. KnownOK(d)'
  BY <1>14, <1>18 DEF KnownOK, IsKnown, Untold, Drains!Children
<1>4. HeldOK(d)'
  BY <1>14, <1>15, <1>18 DEF HeldOK, Untouched
<1>5. RememberedOK(d)'
  <2>1. \A x \in held : drain[d].at \in Undoing /\ ToldToResume(x) => ToldToResume(x)'
    <3>1. drain[d].at \in Undoing => given' = given \cup {s.child}
      BY <1>14, <1>17 DEF Undoing
    <3>2. given \subseteq given'
      BY <1>14
    <3> QED
      BY <1>14, <3>1, <3>2 DEF ToldToResume
  <2> QED
    BY <1>14, <1>15, <2>1 DEF RememberedOK, Drains!Expired
<1>6. ModesOK(d)'
  <2>1. \A m : InMode(d, m) => InMode(d, m)'
    BY <1>14, <1>15 DEF InMode
  <2> QED
    BY <1>12, <1>14, <1>15, <1>18, <2>1 DEF ModesOK
<1>7. ReleaseOK(d)'
  <2>1. CASE s.by # "release"
    BY <1>14, <1>17, <2>1 DEF ReleaseOK, Drains!NoLease
  <2>2. CASE s.by = "release"
    <3>1. release[d].running = s.mode /\ s.mode # "no" /\ release[d].mode # "done"
      BY <1>16, <1>17, <2>2 DEF Drains!Modes, ReleaseOK
    <3>2. Pending(s.child, s.mode) /\ ~Pending(s.child, s.mode)'
      BY <1>14, <1>16, <2>2 DEF Pending
    <3>3. \A x \in Drains!Children : x # s.child => (Pending(x, s.mode)' <=> Pending(x, s.mode))
      BY <1>14 DEF Pending
    <3>4. release'[d].failed = release[d].failed \cup {s.child} /\ s.child \in release[d].children
      BY <1>15, <1>17, <2>2
    <3> QED
      BY <1>12, <1>15, <1>18, <3>1, <3>2, <3>3, <3>4 DEF ReleaseOK
  <2> QED
    BY <2>1, <2>2
<1> QED
  BY <1>1, <1>2, <1>3, <1>4, <1>5, <1>6, <1>7

-----------------------------------------------------------------------------
(* Who owns the resource.                                                   *)

\* A step of the drain d changes nothing that other drains own or run.
LEMMA OthersOwn ==
  ASSUME NEW e \in Drains!Drains, Stays(e)
  PROVE  (Drains!Owns(e)' <=> Drains!Owns(e)) /\ (Drains!Running(e)' <=> Drains!Running(e)) /\ drain'[e] = drain[e]
BY DEF Stays, Drains!Owns, Drains!Running, Drains!Expired

\* What a step of d does to who owns and who runs.
Moves(d) ==
  \/ /\ active' = active /\ (Drains!Owns(d)' => Drains!Owns(d)) /\ (Drains!Running(d)' => Drains!Running(d))
     /\ drain[d].at = "granted" => drain'[d].at = "granted"
  \/ /\ ~Drains!Busy /\ active' = 0 /\ ~Drains!Owns(d)'
  \/ /\ active # 0 /\ Drains!Expired(active) /\ active' = 0 /\ ~Drains!Owns(d)' /\ ~Drains!Running(d)'
  \/ /\ Drains!Running(d) /\ active' = d /\ drain'[d].at = "granted"
  \/ /\ active = d /\ active' = 0 /\ ~Drains!Owns(d)' /\ ~Drains!Running(d)'

\* Every step is one of these.
LEMMA StepMoves ==
  ASSUME Drains!UseAssumption, DrainsState, DrainsState', NEW d \in Drains!Drains, DrainOK(d), StepOf(d), OwnersOK
  PROVE  Moves(d)
<1>10. DrainShapes
  BY TypedShapes
<1>11. DrainShapes'
  BY TypedShapesNext
<1>12. d # 0 /\ (active # 0 => active \in Drains!Drains)
  BY Bounds DEF Drains!Drains, DrainsState, DrainScalars
<1> USE DEF Moves, Drains!Owns, Drains!Running
<1>1. ASSUME drain[d].at = "asking", drain'[d].at \in {"asking", "rolling"}, active' = active PROVE Moves(d)
  BY <1>1
<1>2. CASE Drains!BeginDrain(d)
  <2>1. /\ drain[d].at = "new" /\ (Refused(d) \/ (Started(d) /\ ~Drains!Busy))
        /\ \/ active # 0 /\ Drains!Expired(active) /\ active' = 0
           \/ active' = active /\ (active = 0 \/ ~Drains!Expired(active))
    BY <1>2, BeginDoes
  <2>2. CASE Refused(d)
    BY <2>1, <2>2 DEF Refused
  <2>3. CASE Started(d) /\ ~Drains!Busy
    BY <2>1, <2>3 DEF Started, Drains!Busy
  <2> QED
    BY <2>1, <2>2, <2>3
<1>3. CASE Drains!AskNext(d)
  BY <1>1, <1>3, AskDoes DEF FailsNow, Asks, Drains!Turn
<1>4. CASE Drains!TimeOut(d)
  BY <1>1, <1>4, TimeOutDoes DEF FailsNow
<1>5. CASE Drains!Grant(d)
  BY <1>1, <1>5, GrantDoes DEF FailsNow, Becomes, Drains!Turn
<1>6. CASE Drains!RollbackSettles(d) \/ Drains!Inspected(d)
  BY <1>6, SettlesDoes DEF Becomes
<1>7. CASE Drains!ReleaseExpired(d)
  <2>1. drain[d].at = "granted"
    BY <1>7, <1>12 DEF Drains!ReleaseExpired, OwnersOK
  <2> QED
    BY <1>7, <1>12, <2>1 DEF Drains!ReleaseExpired, Drains!Expired
<1>8. CASE Drains!EndRelease(d)
  <2>0. drain' = drain /\ now' = now /\ drain[d].at = "granted" /\ release[d].mode # "done"
    <3>1. drain' = drain /\ now' = now /\ release[d].running # "no"
      BY <1>8, EndDoes
    <3>2. release[d].running # "done"
      BY <1>10 DEF DrainShapes, Lease, Drains!Modes
    <3> QED
      BY <3>1, <3>2 DEF DrainOK, LeaseOK, ReleaseOK, Drains!NoLease
  <2>1. CASE active' = active /\ release'[d].expires = release[d].expires
    BY <2>0, <2>1 DEF Drains!Expired
  <2>2. CASE active' = (IF active = d THEN 0 ELSE active) /\ release'[d].mode = "done"
    BY <2>0, <2>2
  <2>3. \/ active' = active /\ release'[d].expires = release[d].expires
        \/ active' = (IF active = d THEN 0 ELSE active) /\ release'[d].mode = "done"
    BY <1>8, <1>10, EndDoes DEF LeaseAs, DrainShapes, Lease
  <2> QED
    BY <2>1, <2>2, <2>3
<1>9. ASSUME active' = active, drain' = drain, now' = now,
             release'[d].mode = release[d].mode, release'[d].expires = release[d].expires
      PROVE  Moves(d)
  BY <1>9 DEF Drains!Expired
<1>13. ASSUME NEW mode \in Drains!Modes, Drains!BeginRelease(d, mode) PROVE Moves(d)
  <2>1. release'[d].mode = release[d].mode /\ release'[d].expires = release[d].expires
    BY <1>10, <1>13, ReleaseDoes DEF LeaseAs, DrainShapes, Lease
  <2> QED
    BY <1>9, <1>13, <2>1 DEF Drains!BeginRelease
<1>14. ASSUME NEW k \in Consumers, Drains!ConsumerGrants(d, k) PROVE Moves(d)
  <2>1. UNCHANGED <<drain, release, now, active>>
        \/ (drain[d].at = "asking" /\ drain'[d].at \in {"asking", "rolling"} /\ active' = active)
    BY <1>14, GrantsDoes DEF FailsNow, Gets, Drains!Awaited
  <2> QED
    BY <1>1, <1>9, <2>1
<1>15. ASSUME NEW k \in Consumers, Drains!ConsumerRefuses(d, k) PROVE Moves(d)
  <2>1. UNCHANGED <<drain, release, now, active>>
        \/ (drain[d].at = "asking" /\ drain'[d].at \in {"asking", "rolling"} /\ active' = active)
    BY <1>15, RefusesDoes DEF FailsNow, Drains!Awaited
  <2> QED
    BY <1>1, <1>9, <2>1
<1>16. ASSUME NEW s \in sends, s.child.drain = d, Drains!ConsumerReleases(s) PROVE Moves(d)
  BY <1>9, <1>16 DEF Drains!ConsumerReleases
<1>17. ASSUME NEW s \in sends, s.child.drain = d, Drains!ConsumerRejects(s) PROVE Moves(d)
  <2>1. release'[d].mode = release[d].mode /\ release'[d].expires = release[d].expires
    BY <1>10, <1>17, RejectDoes DEF LeaseAs, DrainShapes, Lease
  <2> QED
    BY <1>9, <1>17, <2>1, RejectDoes
<1> QED
  BY <1>2, <1>3, <1>4, <1>5, <1>6, <1>7, <1>8, <1>13, <1>14, <1>15, <1>16, <1>17 DEF StepOf

\* They keep one owner.
LEMMA OwnersKept ==
  ASSUME Drains!UseAssumption, DrainsState, OwnersOK, NEW d \in Drains!Drains, Moves(d),
         \A e \in Drains!Drains : e # d => Stays(e)
  PROVE  OwnersOK'
<1>1. 0 \notin Drains!Drains /\ (active # 0 => active \in Drains!Drains)
  BY Bounds DEF Drains!Drains, DrainsState, DrainScalars
<1>2. \A e \in Drains!Drains : e # d =>
        (Drains!Owns(e)' <=> Drains!Owns(e)) /\ (Drains!Running(e)' <=> Drains!Running(e)) /\ drain'[e] = drain[e]
  BY OthersOwn
<1>3. /\ active # 0 => drain[active].at = "granted"
      /\ \A e \in Drains!Drains : Drains!Owns(e) => active = e
      /\ \A e, f \in Drains!Drains : Drains!Running(e) => active = 0 /\ (Drains!Running(f) => e = f)
  BY DEF OwnersOK
<1>4. \A e \in Drains!Drains : Drains!Owns(e) => ~Drains!Expired(e)
  BY DEF Drains!Owns
<1>5. ASSUME active' = active, Drains!Owns(d)' => Drains!Owns(d), Drains!Running(d)' => Drains!Running(d),
             drain[d].at = "granted" => drain'[d].at = "granted"
      PROVE  OwnersOK'
  BY <1>1, <1>2, <1>3, <1>5 DEF OwnersOK
<1>6. ASSUME ~Drains!Busy, active' = 0, ~Drains!Owns(d)' PROVE OwnersOK'
  <2>1. \A e \in Drains!Drains : ~Drains!Running(e) /\ ~Drains!Owns(e)
    BY <1>1, <1>3, <1>4, <1>6 DEF Drains!Busy
  <2> QED
    BY <1>2, <1>6, <2>1 DEF OwnersOK
<1>7. ASSUME active # 0, Drains!Expired(active) \/ active = d, active' = 0, ~Drains!Owns(d)', ~Drains!Running(d)' PROVE OwnersOK'
  <2>1. \A e \in Drains!Drains : e # d => ~Drains!Running(e) /\ ~Drains!Owns(e)
    BY <1>1, <1>3, <1>4, <1>7
  <2> QED
    BY <1>2, <1>7, <2>1 DEF OwnersOK
<1>8. ASSUME Drains!Running(d), active' = d, drain'[d].at = "granted" PROVE OwnersOK'
  <2>1. \A e \in Drains!Drains : ~Drains!Owns(e) /\ (Drains!Running(e) => e = d)
    BY <1>1, <1>3, <1>8
  <2>2. ~Drains!Running(d)'
    BY <1>8 DEF Drains!Running
  <2> QED
    BY <1>2, <1>8, <2>1, <2>2 DEF OwnersOK
<1> QED
  BY <1>1, <1>5, <1>6, <1>7, <1>8 DEF Moves

-----------------------------------------------------------------------------
(* The invariant of the coordinator.                                        *)

\* At the start there is no drain.
LEMMA LeasesBegin == ASSUME Drains!UseAssumption, Drains!Init PROVE LeaseInv
<1>1. MaxTime \in Nat /\ MaxDrains \in Nat /\ MaxMoves \in Nat /\ DrainFaults \in Nat /\ Drains!Forever \in Nat
  BY Bounds
<1> USE DEF Drains!Init
<1>2. Drains!Unborn \in Drain /\ Drains!NoLease \in Lease
  BY <1>1 DEF Drains!Unborn, Drains!NoLease, Drain, Lease, Ats
<1>3. DrainScalars
  BY <1>1 DEF DrainScalars
<1>4. DrainsTyped /\ LeasesTyped
  BY <1>2 DEF DrainsTyped, LeasesTyped
<1>5. OwnersOK
  BY DEF OwnersOK, Drains!Owns, Drains!Running, Drains!Unborn
<1>6. ASSUME NEW d \in Drains!Drains PROVE DrainOK(d)
  <2>1. drain[d] = Drains!Unborn /\ release[d] = Drains!NoLease
    OBVIOUS
  <2>2. CallsOK(d) /\ AskedOK(d) /\ LeaseOK(d) /\ SendsOK(d) /\ HeldOK(d) /\ RememberedOK(d)
    BY <2>1 DEF CallsOK, AskedOK, LeaseOK, SendsOK, HeldOK, RememberedOK, Untouched, Drains!Unborn
  <2>3. KnownOK(d)
    BY <2>1 DEF KnownOK, IsKnown, Released, Drains!Unborn, Drains!Children
  <2>4. ReleaseOK(d) /\ ModesOK(d)
    BY <2>1 DEF ReleaseOK, ModesOK, Drains!NoLease, Drains!Unborn
  <2> QED
    BY <2>2, <2>3, <2>4 DEF DrainOK
<1> QED
  BY <1>3, <1>4, <1>5, <1>6 DEF LeaseInv, DrainsState

LEMMA DrainTypesKept == ASSUME Drains!UseAssumption, DrainsState, Drains!Next PROVE DrainsState'
BY DrainScalarsKept, DrainsTypedKept, LeasesTypedKept DEF DrainsState

\* A drain keeps what is known of it over its own steps,
LEMMA OwnStepKeeps ==
  ASSUME Drains!UseAssumption, DrainsState, DrainsState', NEW d \in Drains!Drains, DrainOK(d), StepOf(d)
  PROVE  DrainOK(d)'
BY BeginKeeps, AskKeeps, TimeOutKeeps, GrantKeeps, SettlesKeeps, ExpiredKeeps, EndKeeps, BeginReleaseKeeps,
   GrantsKeeps, RefusesKeeps, ReleasesKeeps, RejectsKeeps DEF StepOf

\* and every step is of one drain, of the time or of who attaches.
LEMMA NextIsOfOne ==
  ASSUME DrainsState, Drains!Next
  PROVE  Drains!Tick \/ (\E k \in Consumers : Drains!Attach(k)) \/ \E d \in Drains!Drains : StepOf(d)
<1>1. ASSUME NEW s \in sends, Drains!ConsumerReleases(s) \/ Drains!ConsumerRejects(s) PROVE \E d \in Drains!Drains : StepOf(d)
  <2>1. s.child.drain \in Drains!Drains
    BY DEF DrainsState, DrainScalars, Drains!Sends, Drains!Children
  <2> QED
    BY <1>1, <2>1 DEF StepOf
<1> QED
  BY <1>1 DEF Drains!Next, StepOf

\* Every step of the coordinator keeps the invariant.
LEMMA DrainStepKeeps == ASSUME Drains!UseAssumption, LeaseInv, Drains!Next PROVE LeaseInv'
<1>1. DrainsState /\ OwnersOK /\ DrainsState' /\ \A d \in Drains!Drains : DrainOK(d)
  BY DrainTypesKept DEF LeaseInv
<1>2. CASE Drains!Tick
  <2>1. OwnersOK'
    <3>1. now' = now + 1 /\ UNCHANGED <<drain, release, active>> /\ now \in Nat
      BY <1>1, <1>2 DEF Drains!Tick, DrainsState, DrainScalars
    <3>2. \A e \in Drains!Drains : release[e].expires \in Nat
      BY <1>1, Bounds DEF DrainsState, LeasesTyped, Lease
    <3>3. \A e \in Drains!Drains : (Drains!Owns(e)' => Drains!Owns(e)) /\ (Drains!Running(e)' <=> Drains!Running(e))
      BY <3>1, <3>2 DEF Drains!Owns, Drains!Running, Drains!Expired
    <3> QED
      BY <1>1, <3>1, <3>3 DEF OwnersOK
  <2> QED
    BY <1>1, <1>2, <2>1, TickKeeps DEF LeaseInv
<1>3. ASSUME NEW k \in Consumers, Drains!Attach(k) PROVE LeaseInv'
  <2>1. \A e \in Drains!Drains : Stays(e)
    BY <1>3 DEF Drains!Attach, Stays
  <2>2. OwnersOK'
    BY <1>1, <1>3 DEF Drains!Attach, OwnersOK, Drains!Owns, Drains!Running, Drains!Expired
  <2> QED
    BY <1>1, <2>1, <2>2, StaysKeep DEF LeaseInv
<1>4. ASSUME NEW d \in Drains!Drains, StepOf(d) PROVE LeaseInv'
  <2>1. \A e \in Drains!Drains : e # d => Stays(e)
    BY <1>1, <1>4, Elsewhere DEF DrainOK
  <2>2. \A e \in Drains!Drains : DrainOK(e)'
    BY <1>1, <1>4, <2>1, StaysKeep, OwnStepKeeps
  <2>3. OwnersOK'
    BY <1>1, <1>4, <2>1, StepMoves, OwnersKept
  <2> QED
    BY <1>1, <2>2, <2>3 DEF LeaseInv
<1> QED
  BY <1>1, <1>2, <1>3, <1>4, NextIsOfOne

LEMMA LeaseSameKeeps == ASSUME LeaseInv, UNCHANGED Drains!vars PROVE LeaseInv'
<1>1. ASSUME NEW d \in Drains!Drains, DrainOK(d) PROVE DrainOK(d)'
  <2> USE <1>1 DEF DrainOK, Drains!vars
  <2>1. CallsOK(d)' /\ KnownOK(d)' /\ AskedOK(d)' /\ LeaseOK(d)' /\ SendsOK(d)'
    BY DEF CallsOK, KnownOK, IsKnown, Untold, Released, AskedOK, LeaseOK, SendsOK
  <2>2. HeldOK(d)' /\ RememberedOK(d)'
    BY DEF HeldOK, RememberedOK, Untouched, Released, ToldToResume, Drains!Expired
  <2>3. ReleaseOK(d)' /\ ModesOK(d)'
    BY DEF ReleaseOK, ModesOK, Pending, Released, InMode
  <2> QED
    BY <2>1, <2>2, <2>3
<1>2. DrainsState'
  BY DEF LeaseInv, DrainsState, DrainScalars, DrainsTyped, LeasesTyped, Drains!vars, Drains!bounds
<1>3. OwnersOK'
  BY DEF LeaseInv, OwnersOK, Drains!Owns, Drains!Running, Drains!Expired, Drains!vars
<1> QED
  BY <1>1, <1>2, <1>3 DEF LeaseInv

LEMMA InvariantTypes == ASSUME LeaseInv PROVE Drains!TypeOK
BY DEF LeaseInv, DrainsState, DrainScalars, DrainsTyped, LeasesTyped, Drains!TypeOK, Drain, Lease, Ats

\* One lease at a time.
LEMMA InvariantExcludes == ASSUME Drains!UseAssumption, LeaseInv PROVE Drains!OneLease
<1>1. 0 \notin Drains!Drains
  BY Bounds DEF Drains!Drains
<1> QED
  BY <1>1 DEF LeaseInv, OwnersOK, Drains!OneLease

\* A lease in force holds its consumers.
LEMMA InvariantHolds == ASSUME Drains!UseAssumption, LeaseInv PROVE Drains!LeaseHoldsEveryConsumer
<1>1. DrainsState /\ DrainShapes /\ \A d \in Drains!Drains : DrainOK(d)
  BY TypedShapes DEF LeaseInv
<1>2. ASSUME NEW d \in Drains!Drains, Drains!Owns(d), release[d].mode = "any", release[d].running = "no", NEW k \in drain[d].from
      PROVE  \E x \in held : x.drain = d /\ x.of = k
  <2>1. drain[d].at = "granted" /\ ~Drains!Expired(d)
    BY <1>2 DEF Drains!Owns
  <2>2. PICK x \in drain[d].children : x.of = k
    BY <1>1, <1>2, <2>1 DEF DrainOK, AskedOK
  <2>3. x \in Drains!Children /\ x.drain = d
    BY <1>1, OwnChildren
  <2>4. x.expires \in Nat /\ release[d].expires \in Nat /\ now \in Nat /\ release[d].expires <= x.expires
    BY <1>1, <2>1, <2>3, Bounds DEF DrainOK, LeaseOK, DrainShapes, Lease, Drains!Children
  <2>5. now < x.expires
    BY <2>1, <2>4 DEF Drains!Expired
  <2>6. x \in held
    BY <1>1, <1>2, <2>1, <2>5 DEF DrainOK, HeldOK, Untouched
  <2> QED
    BY <2>2, <2>3, <2>6
<1> QED
  BY <1>2 DEF Drains!LeaseHoldsEveryConsumer

\* Who is held is remembered.
LEMMA InvariantRemembers == ASSUME LeaseInv PROVE Drains!NoConsumerForgotten
<1>1. DrainShapes /\ \A d \in Drains!Drains : DrainOK(d)
  BY TypedShapes DEF LeaseInv
<1>2. ASSUME NEW x \in held, NEW d \in Drains!Drains, d = x.drain
      PROVE  \/ Drains!Running(d) /\ x \in drain[d].children
             \/ d \in leases /\ x \in release[d].children
             \/ \E s \in sends : s.child = x
             \/ x \in given
             \/ drain[d].at = "granted" /\ Drains!Expired(d)
  <2>1. x \in Drains!Children /\ x.of \in Consumers /\ drain[d].at \in Ats
    BY <1>1 DEF DrainShapes, Drains!Children, Drain
  <2>2. drain[d].at \notin {"new", "refused"}
    BY <1>1, <1>2, <2>1 DEF DrainOK, KnownOK, IsKnown, Untold
  <2>3. RememberedOK(d)
    BY <1>1 DEF DrainOK
  <2> QED
    BY <1>2, <2>1, <2>2, <2>3 DEF RememberedOK, ToldToResume, Drains!Running, Ats, Undoing
<1>3. \A x \in held : x.drain \in Drains!Drains
  BY <1>1 DEF DrainShapes, Drains!Children
<1> QED
  BY <1>2, <1>3 DEF Drains!NoConsumerForgotten

\* All were told, in one mode.
LEMMA InvariantReleases == ASSUME LeaseInv PROVE Drains!ReleaseIsWhole
<1>1. ASSUME NEW d \in Drains!Drains, release[d].mode = "done"
      PROVE  \E m \in Drains!Modes : \A x \in release[d].all : {n \in Drains!Modes : <<x, n>> \in released} = {m}
  <2>1. ReleaseOK(d) /\ ModesOK(d)
    BY DEF LeaseInv, DrainOK
  <2>2. PICK m \in Drains!Modes : InMode(d, m)
    BY <1>1, <2>1 DEF ModesOK
  <2>3. \A x \in release[d].all : <<x, m>> \in released /\ \A n \in Drains!Modes : <<x, n>> \in released => n = m
    BY <1>1, <2>1, <2>2 DEF InMode, ReleaseOK
  <2> QED
    BY <2>3
<1> QED
  BY <1>1 DEF Drains!ReleaseIsWhole

\* A release is sent to nobody who carried one out.
LEMMA NobodyToldTwice ==
  ASSUME Drains!UseAssumption, LeaseInv, Drains!Next, NEW s \in sends' \ sends, NEW m \in Drains!Modes
  PROVE  <<s.child, m>> \notin released
<1>1. DrainsState /\ DrainShapes /\ \A d \in Drains!Drains : DrainOK(d)
  BY TypedShapes DEF LeaseInv
<1>2. ASSUME NEW d \in Drains!Drains, drain[d].at = "asking", NEW x \in drain[d].children PROVE ~Released(x)
  BY <1>1, <1>2 DEF DrainOK, ModesOK
<1>3. ASSUME NEW d \in Drains!Drains, FailsNow(d, drain[d].children), drain[d].at = "asking" PROVE ~Released(s.child)
  <2>1. s.child \in drain[d].children
    BY <1>3 DEF FailsNow
  <2> QED
    BY <1>2, <1>3, <2>1
<1>4. ASSUME NEW d \in Drains!Drains, NEW k \in Consumers, Drains!ConsumerGrants(d, k) PROVE ~Released(s.child)
  <2>1. PICK x \in Drains!Children :
          /\ x.drain = d /\ x.of = k
          /\ \/ sends' = sends \cup {[child |-> x, mode |-> "resume", by |-> "late"]}
             \/ sends' = sends
             \/ Drains!Awaited(d, k) /\ FailsNow(d, drain[d].children \cup {x})
    BY <1>1, <1>4, GrantsDoes
  <2>2. <<d, k>> \in calls
    BY <1>1, <1>4, GrantsDoes
  <2>3. ~IsKnown(x)
    BY <1>1, <2>1, <2>2 DEF DrainOK, KnownOK, Untold
  <2>4. ~Released(x)
    BY <2>3 DEF IsKnown
  <2>5. s.child = x \/ (drain[d].at = "asking" /\ s.child \in drain[d].children)
    BY <2>1 DEF FailsNow, Drains!Awaited
  <2> QED
    BY <1>2, <2>4, <2>5
<1>5. ASSUME NEW d \in Drains!Drains, NEW mode \in Drains!Modes, Drains!BeginRelease(d, mode) PROVE ~Released(s.child)
  <2>1. /\ release[d].running = "no"
        /\ sends' = sends \cup {[child |-> x, mode |-> mode, by |-> "release"] : x \in release[d].children}
    BY <1>1, <1>5, ReleaseDoes
  <2>2. s.child \in release[d].children
    BY <2>1
  <2> QED
    BY <1>1, <2>1, <2>2 DEF DrainOK, ReleaseOK
<1>6. ASSUME NEW d \in Drains!Drains, StepOf(d) PROVE ~Released(s.child)
  <2>1. CASE Drains!AskNext(d) \/ Drains!TimeOut(d) \/ Drains!Grant(d) \/ \E k \in Consumers : Drains!ConsumerRefuses(d, k)
    BY <1>1, <1>3, <2>1, AskDoes, TimeOutDoes, GrantDoes, RefusesDoes DEF Drains!Turn, Drains!Awaited
  <2>2. CASE sends' \subseteq sends
    BY <2>2
  <2>3. CASE Drains!BeginDrain(d) \/ Drains!RollbackSettles(d) \/ Drains!Inspected(d) \/ Drains!ReleaseExpired(d) \/ Drains!EndRelease(d)
    BY <2>2, <2>3 DEF Drains!BeginDrain, Drains!RollbackSettles, Drains!Inspected, Drains!ReleaseExpired,
       Drains!EndRelease
  <2>4. ASSUME NEW r \in sends, Drains!ConsumerReleases(r) \/ Drains!ConsumerRejects(r) PROVE sends' \subseteq sends
    BY <2>4 DEF Drains!ConsumerReleases, Drains!ConsumerRejects
  <2> QED
    BY <1>4, <1>5, <1>6, <2>1, <2>2, <2>3, <2>4 DEF StepOf
<1>7. ~Drains!Tick /\ \A k \in Consumers : ~Drains!Attach(k)
  BY DEF Drains!Tick, Drains!Attach
<1>8. ~Released(s.child)
  BY <1>1, <1>6, <1>7, NextIsOfOne
<1> QED
  BY <1>8 DEF Released

-----------------------------------------------------------------------------
(* The leases of MCResources.                                              *)

DrainStep == Drains!Next \/ UNCHANGED drainVars

LEMMA OneDrainStep == [Next]_vars => DrainStep
BY DEF Next, vars, DrainStep, InApply, InHandles, InLifecycle, InDrains

LEMMA DrainsBegin == Init => LeaseInv
BY LeasesBegin, ResourcesAssumption DEF Init

\* The invariant holds in every behaviour of MCResources.
LEMMA DrainsGoOn == LeaseInv /\ DrainStep => LeaseInv'
<1>1. UNCHANGED drainVars => UNCHANGED Drains!vars
  BY DEF drainVars, Drains!vars, Drains!bounds
<1> QED
  BY <1>1, DrainStepKeeps, LeaseSameKeeps, ResourcesAssumption DEF DrainStep

LeasesInOrder == part = "drains" =>
  /\ Drains!TypeOK
  /\ Drains!OneLease /\ Drains!LeaseHoldsEveryConsumer
  /\ Drains!NoConsumerForgotten /\ Drains!ReleaseIsWhole

ToldOnce == \A s \in sends' \ sends : \A m \in Drains!Modes : <<s.child, m>> \notin released

LEMMA ReleasesAreNew == LeaseInv /\ DrainStep => ToldOnce
<1>1. UNCHANGED drainVars => ToldOnce
  BY DEF drainVars, ToldOnce
<1> QED
  BY <1>1, NobodyToldTwice, ResourcesAssumption DEF DrainStep, ToldOnce

\* For any consumers, drains, answers that are late or never come, leases that
\* expire and releases that fail: one lifecycle operation owns a resource at a
\* time, its lease holds every consumer that was attached, no consumer stays
\* stopped that nobody will release, a lease that counts as released was
\* released everywhere in one mode, and nobody is released twice
\* (ResourceUseDrainCoordinator).
THEOREM LeasesStayWhole == Spec => LeasesAreWhole
<1>1. LeaseInv => LeasesInOrder
  BY InvariantTypes, InvariantExcludes, InvariantHolds, InvariantRemembers, InvariantReleases,
     ResourcesAssumption DEF LeasesInOrder
<1>2. LeaseInv /\ [Next]_vars => LeaseInv'
  BY OneDrainStep, DrainsGoOn
<1>3. LeaseInv /\ [Next]_vars => [ToldOnce]_Drains!vars
  BY OneDrainStep, ReleasesAreNew
<1>4. Spec => []LeasesInOrder
  BY <1>1, <1>2, DrainsBegin, PTL DEF Spec
<1>5. Spec => [][ToldOnce]_Drains!vars
  BY <1>2, <1>3, DrainsBegin, PTL DEF Spec
<1> QED
  BY <1>4, <1>5 DEF LeasesAreWhole, LeasesInOrder, Drains!NotReleasedTwice, ToldOnce
=============================================================================
