---------------------------- MODULE MCResources ----------------------------
(***************************************************************************)
(* The four components that guard a resource, side by side for TLC: the    *)
(* runs of a database (DatabaseApply), the handles of key-value stores     *)
(* (KeyValueHandles), the life of a resource (ResourceLifecycle) and the   *)
(* leases over its consumers (UseDrain). A behaviour is one of the         *)
(* component named by part; the others stay as they begin.                 *)
(***************************************************************************)
EXTENDS Integers, Sequences, FiniteSets, TLC

CONSTANTS
  Parts,  \* the components of a run
  NRuns, NDrafts, MaxChanges, MaxWrites, ApplyCrashes, ApplyFaults,
  Stores, Calls, On, StoreWrites, TwoPhase, Deleted, MaxOpen, HandleFaults, MaxSweeps, Shutdown,
  Resources, Ops, Boot, LostMarks, LifeFaults, LifeCrashes, None,
  Consumers, NoOne, Expiries, Timeouts, MaxTime, MaxDrains, MaxMoves, DrainFaults,
  a, b, c, r1, r2, w1, w2  \* stores and calls

VARIABLES
  part,
  live, backup, draft, run, catalog, task, gate, blocked, writer, lane, dropping, discarding,
  boot, written, discarded, applyCrashes, applyFaults,
  handle, users, failed, call, phase, tail, admission, door, evicting, sweep, life, store, cut,
  handleFaults, sweeps,
  status, placement, files, applying, marked, up, todo, kind, res, pc, lanes, gates, shut, fenced,
  lifeFaults, lifeCrashes,
  now, attached, drain, calls, held, sends, active, leases, release, released, given, moves,
  drainFaults

applyVars == <<live, backup, draft, run, catalog, task, gate, blocked, writer, lane, dropping,
               discarding, boot, written, discarded, applyCrashes, applyFaults>>
handleVars == <<handle, users, failed, call, phase, tail, admission, door, evicting, sweep, life,
                store, cut, handleFaults, sweeps>>
lifeVars == <<status, placement, files, applying, marked, up, todo, kind, res, pc, lanes, gates,
              shut, fenced, lifeFaults, lifeCrashes>>
drainVars == <<now, attached, drain, calls, held, sends, active, leases, release, released, given,
               moves, drainFaults>>

Apply == INSTANCE DatabaseApply WITH
  MaxCrashes <- ApplyCrashes, MaxFaults <- ApplyFaults, crashes <- applyCrashes, faults <- applyFaults
Handles == INSTANCE KeyValueHandles WITH
  Resources <- Stores, Writes <- StoreWrites, MaxFaults <- HandleFaults, faults <- handleFaults
Lifecycle == INSTANCE ResourceLifecycle WITH
  MaxFaults <- LifeFaults, MaxCrashes <- LifeCrashes, run <- applying, lane <- lanes,
  gate <- gates, blocked <- shut, faults <- lifeFaults, crashes <- lifeCrashes
Drains == INSTANCE UseDrain WITH MaxFaults <- DrainFaults, faults <- drainFaults

ASSUME ResourcesAssumption ==
  /\ Apply!BoundsAssumption /\ Handles!PoolAssumption
  /\ Lifecycle!LifecycleAssumption /\ Drains!UseAssumption

Init ==
  /\ part \in Parts
  /\ Apply!Init /\ Handles!Init /\ Lifecycle!Init /\ Drains!Init

InApply(A) == part = "apply" /\ A
InHandles(A) == part = "handles" /\ A
InLifecycle(A) == part = "lifecycle" /\ A
InDrains(A) == part = "drains" /\ A

Next ==
  \/ InApply(Apply!Next) /\ UNCHANGED <<part, handleVars, lifeVars, drainVars>>
  \/ InHandles(Handles!Next) /\ UNCHANGED <<part, applyVars, lifeVars, drainVars>>
  \/ InLifecycle(Lifecycle!Next) /\ UNCHANGED <<part, applyVars, handleVars, drainVars>>
  \/ InDrains(Drains!Next) /\ UNCHANGED <<part, applyVars, handleVars, lifeVars>>

vars == <<part, applyVars, handleVars, lifeVars, drainVars>>

Spec == Init /\ [][Next]_vars

\* The fairness of each component, of its steps in the behaviours that are its.
Fairness ==
  /\ WF_applyVars(InApply(Apply!WriteRuns)) /\ WF_applyVars(InApply(Apply!FinishDraftOperation))
  /\ WF_applyVars(InApply(Apply!DiscardBackupRow))
  /\ WF_applyVars(InApply(Apply!BootFiles)) /\ WF_applyVars(InApply(Apply!BootDone))
  /\ \A r \in 1..NRuns :
       /\ WF_applyVars(InApply(Apply!Execute(r))) /\ WF_applyVars(InApply(Apply!Reconcile(r)))
       /\ WF_applyVars(InApply(Apply!PollStaleRun(r) \/ Apply!BootRun(r)))
  /\ WF_handleVars(InHandles(Handles!Door)) /\ WF_handleVars(InHandles(Handles!CloseHandles))
  /\ \A i \in Calls : WF_handleVars(InHandles(Handles!Step(i)))
  /\ \A s \in Stores :
       WF_handleVars(InHandles(Handles!OpeningEnds(s))) /\ WF_handleVars(InHandles(Handles!Lifecycle(s)))
  /\ \A o \in Ops : WF_lifeVars(InLifecycle(Lifecycle!OpStep(o)))
  /\ WF_lifeVars(InLifecycle(Lifecycle!BootStep)) /\ WF_lifeVars(InLifecycle(Lifecycle!StopStep))
  /\ WF_drainVars(InDrains(Drains!Tick))
  /\ \A d \in 1..MaxDrains :
       /\ WF_drainVars(InDrains(Drains!AskNext(d))) /\ WF_drainVars(InDrains(Drains!TimeOut(d)))
       /\ WF_drainVars(InDrains(Drains!Grant(d))) /\ WF_drainVars(InDrains(Drains!RollbackSettles(d)))
       /\ WF_drainVars(InDrains(Drains!Inspected(d) /\ Drains!Overdue(d)))
  /\ WF_drainVars(InDrains(\E s \in sends : Drains!ConsumerReleases(s) \/ Drains!ConsumerRejects(s)))

FairSpec == Spec /\ Fairness

MCOnBoth == (r1 :> a) @@ (r2 :> b) @@ (w1 :> c) @@ (w2 :> a)
MCOnThree == (r1 :> a) @@ (r2 :> b) @@ (w1 :> c)

-----------------------------------------------------------------------------
(* Properties: those of the components, one operator for each idea.        *)

\* What users were told is written is in the live database or in the backup a
\* run will put back, whatever crashes and whichever run ends first; a run
\* recovers from what its row names, one run is open at a time, and what is
\* applied is what was reviewed (DbResourceCoordinator.executeApply).
RunsAreSafe == part = "apply" =>
  /\ Apply!TypeOK
  /\ Apply!NoAcknowledgedWriteLost /\ Apply!RecoverySource /\ Apply!BackupIsBefore
  /\ Apply!OneOpenRun /\ Apply!AppliedIsReviewed

\* The terminal status of a run tells what its live file went through.
VerdictIsTrue == Apply!VerdictIsTrue

\* The pool keeps its bound, deletions and verifications have the database to
\* themselves, nothing is left open when the store is closed, and a database is
\* closed under a call only by a sweep that had listed its handle before the call
\* took it (ResourceKeyValueStore).
HandlesAreSafe ==
  /\ [](part = "handles" =>
         /\ Handles!TypeOK
         /\ Handles!HandlesBounded /\ Handles!MaintainedAlone /\ Handles!ClosedIsEmpty)
  /\ Handles!OnlyListedAreCut

\* A ready row stands for a whole database until an interrupted restore of it is
\* copied again or a start sets a migrating row to ready unseen, no files are
\* left without a row, an open run keeps its resource, nothing starts after the
\* end, and files do not go away under a call that uses them, unless a run that
\* was left is reconciled (ResourceManager, DbResourceCoordinator).
ResourcesAreWhole ==
  /\ [](part = "lifecycle" =>
         /\ Lifecycle!TypeOK
         /\ Lifecycle!ReadyIsPlaced /\ Lifecycle!NoOrphanFiles
         /\ Lifecycle!ApplyKeepsResource /\ Lifecycle!NothingAfterClose)
  /\ Lifecycle!ReadyStaysWhole /\ Lifecycle!UsesKeepFiles

\* While a lease is held every consumer that was attached has stopped; none is
\* forgotten by a rollback, and a release is of one mode from end to end and
\* reaches a consumer once (ResourceUseDrainCoordinator).
LeasesAreWhole ==
  /\ [](part = "drains" =>
         /\ Drains!TypeOK
         /\ Drains!OneLease /\ Drains!LeaseHoldsEveryConsumer
         /\ Drains!NoConsumerForgotten /\ Drains!ReleaseIsWhole)
  /\ Drains!NotReleasedTwice

\* Every call of a key-value store and of the resource manager is answered,
\* also one that waits for the gate or for a handle at the bound, unless the
\* queue for handles is left behind by a write that settled or a failed close.
EveryCallSettles ==
  /\ part = "handles" => Handles!EveryCallSettles
  /\ part = "lifecycle" => Lifecycle!CallsEnd

\* A run, creation or deletion that a crash interrupted is settled by the next
\* start; so is the migrating status in the catalog, if every write succeeds.
InterruptedWorkSettles ==
  /\ part = "apply" => Apply!EveryRunSettles
  /\ part = "apply" /\ [](applyFaults = 0) => Apply!MigrationEnds
  /\ part = "lifecycle" => Lifecycle!InterruptedWorkSettles

\* A drain ends, and one that fails leaves no consumer stopped.
FailedDrainsAreUndone == part = "drains" => Drains!DrainsEnd /\ Drains!FailedDrainsAreUndone
=============================================================================
