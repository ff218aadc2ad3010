----------------------------- MODULE MCWidgets -----------------------------
(***************************************************************************)
(* The three components that keep the files of a widget, side by side for  *)
(* TLC: publications (WidgetPublication), deletions (WidgetDeletion) and   *)
(* builds (WidgetBuild). A behaviour is one of the component named by      *)
(* part; the others stay as they begin.                                    *)
(***************************************************************************)
EXTENDS Naturals, Sequences, FiniteSets, TLC

CONSTANTS
  Parts,  \* the components of a run
  None,
  Slugs, Publishes, Metas, Recoveries, Initial, Readers, PubFaults, PubCrashes,
  Items, Mounts, Rebuilding, MaxPlans, MaxEdits, MaxAborts, DelFaults, DelCrashes,
  Sources, MaxCalls, SourceEdits, MaxBuilds, BuildFaults, BuildCrashes, MaxStops,
  s1, i1, i2, c1, c2

VARIABLES
  part,
  current, staged, trash, journal, manifest, lock, up, pc, answer, again, before, todo, look,
  queue, active, writer, poison, settled, refused, pubFaults, pubCrashes,
  form, placed, born, rev, mounted, delTrash, journals, delLock, delUp, plan, op, delPc, why,
  deleting, inside, aborted, delAnswer, build, plans, edits, aborts, delFaults, delCrashes,
  src, live, stages, buildUp, phase, accepted, lastMarker, recovered, operation, job, server,
  buildPc, input, stage, fails, callers, verified, counts

pubVars == <<current, staged, trash, journal, manifest, lock, up, pc, answer, again, before, todo,
             look, queue, active, writer, poison, settled, refused, pubFaults, pubCrashes>>
delVars == <<form, placed, born, rev, mounted, delTrash, journals, delLock, delUp, plan, op, delPc,
             why, deleting, inside, aborted, delAnswer, build, plans, edits, aborts, delFaults,
             delCrashes>>
buildVars == <<src, live, stages, buildUp, phase, accepted, lastMarker, recovered, operation, job,
               server, buildPc, input, stage, fails, callers, verified, counts>>

\* Every publication is of s1; a frame shows the published widget, the other a preview.
MCSlugOf == [o \in Publishes \cup Metas |-> s1]
MCTypeOfItem == [i \in Items |-> IF i = i1 THEN "widget-instance" ELSE "widget-preview"]
MCCallers == {c1, c2}
MCKind == [i \in MCCallers |-> IF i = c1 THEN "ensure" ELSE "rebuild"]

Publication == INSTANCE WidgetPublication WITH
  SlugOf <- MCSlugOf, MaxFaults <- PubFaults, MaxCrashes <- PubCrashes,
  faults <- pubFaults, crashes <- pubCrashes
Deletion == INSTANCE WidgetDeletion WITH
  TypeOfItem <- MCTypeOfItem, MaxFaults <- DelFaults, MaxCrashes <- DelCrashes,
  trash <- delTrash, lock <- delLock, up <- delUp, pc <- delPc, answer <- delAnswer,
  faults <- delFaults, crashes <- delCrashes
Build == INSTANCE WidgetBuild WITH
  Callers <- MCCallers, Kind <- MCKind, MaxEdits <- SourceEdits, MaxFaults <- BuildFaults,
  MaxCrashes <- BuildCrashes, up <- buildUp, pc <- buildPc

ASSUME WidgetsAssumption ==
  /\ Publication!PublicationAssumption /\ Deletion!DeletionAssumption /\ Build!BuildAssumption

Init ==
  /\ part \in Parts
  /\ Publication!Init /\ Deletion!Init /\ Build!Init
  /\ part # "build" => src = (CHOOSE v \in Sources : TRUE) /\ live = None

InPublication(A) == part = "publication" /\ A
InDeletion(A) == part = "deletion" /\ A
InBuild(A) == part = "build" /\ A

Next ==
  \/ InPublication(Publication!Next) /\ UNCHANGED <<part, delVars, buildVars>>
  \/ InDeletion(Deletion!Next) /\ UNCHANGED <<part, pubVars, buildVars>>
  \/ InBuild(Build!Next) /\ UNCHANGED <<part, pubVars, delVars>>

vars == <<part, pubVars, delVars, buildVars>>

Spec == Init /\ [][Next]_vars

\* The fairness of each component, of its steps in the behaviours that are its.
Fairness ==
  /\ \A o \in Publishes \cup Metas \cup Recoveries : WF_pubVars(InPublication(Publication!Operate(o)))
  /\ \A r \in Readers : WF_pubVars(InPublication(Publication!EndRead(r)))
  /\ WF_delVars(InDeletion(Deletion!Proceed)) /\ WF_delVars(InDeletion(Deletion!Retry))
  /\ WF_delVars(InDeletion(Deletion!Restart)) /\ WF_delVars(InDeletion(Deletion!RecoverDeletions))
  /\ WF_delVars(InDeletion(Deletion!BuildEnds)) /\ WF_delVars(InDeletion(Deletion!BuildAccepted))
  /\ WF_buildVars(InBuild(Build!Work)) /\ SF_buildVars(InBuild(Build!StartBuild))
  /\ \A i \in MCCallers :
       /\ SF_buildVars(InBuild(Build!StartObserve(i) \/ Build!ObserveNothing(i)))
       /\ WF_buildVars(InBuild(Build!ReuseCurrent(i) \/ Build!Rebuild(i)))

FairSpec == Spec /\ Fairness

-----------------------------------------------------------------------------
(* Properties: those of the components, one operator for each idea.        *)

\* A reader of the widget root finds every published widget whole, but for one
\* whose replacement a crash cut short, and nothing changes under it
\* (PublicationReadWriteBarrier, AtomicWidgetPublication).
ReadersSeeWhole ==
  /\ [](part = "publication" => Publication!TypeOK /\ Publication!ReadersSeeWhole)
  /\ Publication!ReadingIsStable

\* The folder that was last found good is in its place or can be restored from
\* a journal, over faults and crashes; a recovery restores only the folder that
\* can be meant or closes the widget to readers; a publication reports success
\* only of a folder that is in place.
LastGoodIsKept ==
  /\ [](part = "publication" => Publication!LastGoodIsKept /\ Publication!RecoveredOrPoisoned)
  /\ Publication!CommittedIsPlaced /\ Publication!RecoveryNeverGuesses

\* A folder in the trash of a deletion has a journal from which the deletion
\* goes on; only what was reviewed is removed, all of it by a deletion that
\* reports success and nothing by one that reports a stale plan.
OnlyReviewedRemoved ==
  /\ [](part = "deletion" => Deletion!TypeOK /\ Deletion!MovedHasJournal)
  /\ Deletion!OnlyReviewedRemoved /\ Deletion!CommittedIsComplete /\ Deletion!StaleIsUntouched

\* At rest the dist of a draft is one whose build was verified and committed;
\* it is never lost, and is the accepted one, while nothing fails
\* (WidgetBuildGenerationService).
LiveIsVerified == part = "build" =>
  /\ Build!TypeOK /\ Build!LiveIsVerified
  /\ counts.faults + counts.crashes = 0 => Build!LastGoodIsKept /\ Build!AcceptedIsOnDisk

\* A caller that asks for the current build is answered with one of a source
\* the draft had during its call.
EnsureIsFresh == Build!EnsureIsFresh

\* Publications and readers get through the barrier, and everyone who asks for
\* a build is answered unless the process goes down.
WaitersAreServed ==
  /\ part = "publication" => Publication!WritersGetIn /\ Publication!ReadersGetIn
  /\ part = "build" => Build!CallersAreAnswered

\* A deletion with a journal ends, over edits, errors and crashes, but for the
\* three cases Overtaken, Unretried and EachWaits, in which the code leaves it.
DeletionConverges == part = "deletion" => Deletion!DeletionConverges
=============================================================================
