--------------------------- MODULE WidgetDeletion ---------------------------
(* The confirmed deletion of a widget: a plan that a person reviewed, a     *)
(* durable journal, the move of the sources to the trash, the cleanup of    *)
(* canvas placements and chat mounts, and the recovery at startup; with the *)
(* build generation of the draft, which the deletion retires while it holds *)
(* the publication barrier.                                                 *)
(* src/apps/backend/src/shell/widget: WidgetFilesystemManagementService,    *)
(* WidgetDeletionJournalStore, WidgetBuildGenerationService.                *)
(*                                                                          *)
(* One widget key.  Placements and mounts enter under a read of the barrier *)
(* and are one step; what a person or an agent does counts as an edit.      *)
EXTENDS Naturals, FiniteSets

CONSTANTS Items,       \* frames on the canvases that may show the widget
          TypeOfItem,  \* [Items -> {"widget-instance", "widget-preview"}]
          Mounts,      \* chats that may mount the draft
          Rebuilding,  \* whether builds of the draft are asked for
          MaxPlans, MaxEdits, MaxAborts, MaxFaults, MaxCrashes,  \* bounds
          None

Forms == {"published", "draft"}

DeletionAssumption ==
    /\ IsFiniteSet(Items) /\ IsFiniteSet(Mounts)
    /\ TypeOfItem \in [Items -> {"widget-instance", "widget-preview"}]
    /\ Rebuilding \in BOOLEAN
    /\ {MaxPlans, MaxEdits, MaxAborts, MaxFaults, MaxCrashes} \subseteq Nat

VARIABLES \* what a deletion takes away
          form,      \* the two folders of the widget: a version, 0 when absent
          placed, born, rev,  \* the frames, when each was created, its revision
          mounted,
          \* durable state of the deletion
          trash,     \* .trash, by plan: the version moved there, 0 when none
          journals,  \* .staging/<key>.<token>.deletion.json, by plan
          lock,      \* .writer.lock with purpose delete: its plan, or 0
          \* the process
          up,        \* down, starting, serving
          plan,      \* the pending plan a person reviewed
          op,        \* the plan that is committed, or was last
          pc, why,   \* where commitDeletion stands, and the error it caught
          deleting,  \* the admission fence of the key
          inside,    \* the deletion holds the write side of the barrier
          aborted, answer,
          build,     \* idle, building, accepting (waits for a catalogue scan)
          plans, edits, aborts, faults, crashes

widget  == <<form, placed, born, rev, mounted>>
durable == <<trash, journals, lock>>
process == <<up, plan, op, pc, why, deleting, inside, aborted, answer, build>>
bounds  == <<plans, edits, aborts, faults, crashes>>
vars == <<widget, durable, process, bounds>>

Version == 0 .. MaxEdits + 1
Placement == Items \X Version \X Version

Token == 1 .. MaxPlans

Plan == [token : Token, source : Forms, catalog : [Forms -> Version], forms : SUBSET Forms,
         items : SUBSET Placement, mounts : SUBSET Mounts]

Journal == [plan : Plan, phase : {"prepared", "sources-moved", "cleanup", "committed"},
            items : SUBSET Placement, mounts : SUBSET Mounts]

TypeOK ==
    /\ form \in [Forms -> Version] /\ trash \in [Token -> [Forms -> Version]]
    /\ placed \subseteq Items /\ born \in [Items -> Version] /\ rev \in [Items -> Version]
    /\ mounted \subseteq Mounts
    /\ \A t \in Token : journals[t] = None \/ journals[t] \in Journal
    /\ plan = None \/ plan \in Plan
    /\ lock \in 0 .. MaxPlans /\ op \in 0 .. MaxPlans /\ up \in {"down", "starting", "serving"}
    /\ pc \in {"idle", "locked", "queued", "checking", "moving", "retiring", "cleaning",
               "unmounting", "refreshing", "purging", "caught", "ending"}
    /\ why \in {"none", "stale", "failed", "stale_early", "failed_early"}
    /\ deleting \in BOOLEAN /\ inside \in BOOLEAN /\ aborted \in BOOLEAN
    /\ answer \in {"none", "stale", "pending", "failed", "committed"}
    /\ build \in {"idle", "building", "accepting"}
    /\ plans \in 0 .. MaxPlans /\ edits \in 0 .. MaxEdits /\ aborts \in 0 .. MaxAborts
    /\ faults \in 0 .. MaxFaults /\ crashes \in 0 .. MaxCrashes

Init ==
    /\ form = [f \in Forms |-> 1] /\ trash = [t \in Token |-> [f \in Forms |-> 0]]
    /\ placed = Items /\ born = [i \in Items |-> 1] /\ rev = [i \in Items |-> 1]
    /\ mounted = Mounts /\ journals = [t \in Token |-> None] /\ lock = 0
    /\ up = "serving" /\ plan = None /\ op = 0 /\ pc = "idle" /\ why = "none"
    /\ deleting = FALSE /\ inside = FALSE /\ aborted = FALSE /\ answer = "none"
    /\ build = "idle"
    /\ plans = 0 /\ edits = 0 /\ aborts = 0 /\ faults = 0 /\ crashes = 0

journal == journals[op]
moved   == trash[op]
SetJournal(j) == journals' = [journals EXCEPT ![op] = j]

Fault == faults < MaxFaults /\ faults' = faults + 1

\* observe: the placements that would go, by identity and revision, and the
\* chats that mount the draft.
Observed(source, chosen) ==
    [items |-> {<<i, born[i], rev[i]>> : i \in
                    {i \in placed : source = "draft"
                                       => TypeOfItem[i] = "widget-preview"}},
     mounts |-> IF "draft" \in chosen THEN mounted ELSE {}]

\* #deletionForms: a published widget takes its paired draft with it.
Chosen(source) ==
    IF source = "draft" THEN {"draft"} ELSE {f \in Forms : form[f] # 0}

-----------------------------------------------------------------------------
(* People and agents                                                        *)

Edit == up = "serving" /\ edits < MaxEdits /\ edits' = edits + 1
Fresh == edits + 2

Free == ~inside /\ pc # "queued"

EditSame == UNCHANGED <<durable, process, plans, aborts, faults, crashes>>

\* A frame is placed or replaced: CanvasService.withAdmission reads the barrier.
Place(i) ==
    /\ Edit /\ Free /\ ~deleting /\ i \notin placed
    /\ form[IF TypeOfItem[i] = "widget-preview" THEN "draft" ELSE "published"] # 0
    /\ placed' = placed \cup {i}
    /\ born' = [born EXCEPT ![i] = Fresh] /\ rev' = [rev EXCEPT ![i] = 1]
    /\ UNCHANGED <<form, mounted>> /\ EditSame

\* A frame is moved or removed: nothing is asked.
Touch(i) ==
    /\ Edit /\ i \in placed
    /\ \/ rev' = [rev EXCEPT ![i] = Fresh] /\ UNCHANGED placed
       \/ placed' = placed \ {i} /\ UNCHANGED rev
    /\ UNCHANGED <<form, born, mounted>> /\ EditSame

\* withDraftMountAdmission
ToggleMount(m) ==
    /\ Edit /\ Free /\ ~deleting /\ form["draft"] # 0
    /\ mounted' = IF m \in mounted THEN mounted \ {m} ELSE mounted \cup {m}
    /\ UNCHANGED <<form, placed, born, rev>> /\ EditSame

\* A tool changes the draft, or makes one under the same key.
EditDraft ==
    /\ Edit /\ Free /\ ~deleting
    /\ form' = [form EXCEPT !["draft"] = Fresh]
    /\ UNCHANGED <<placed, born, rev, mounted>> /\ EditSame

-----------------------------------------------------------------------------
(* WidgetBuildGenerationService: rebuild, and its last step, which waits    *)
(* for a scan of the catalogue under a read of the barrier                  *)

BuildSame == UNCHANGED <<widget, durable, up, plan, op, pc, why, deleting, inside,
                         aborted, answer, bounds>>

StartBuild ==
    /\ Rebuilding /\ up = "serving" /\ ~deleting /\ form["draft"] # 0
    /\ build = "idle" /\ build' = "building"
    /\ BuildSame

BuildEnds ==
    /\ build = "building" /\ build' \in {"idle", "accepting"}
    /\ BuildSame

\* #acceptGeneration: catalog.refresh
BuildAccepted ==
    /\ build = "accepting" /\ ~inside /\ build' = "idle"
    /\ BuildSame

-----------------------------------------------------------------------------
(* planDeletion and commitDeletion                                          *)

Unfinished == {t \in Token : journals[t] # None /\ journals[t].phase # "committed"}
Pending == Unfinished # {}

\* One token at a time: a plan is made when no deletion is pending.
PlanDeletion(source) ==
    /\ up = "serving" /\ pc = "idle" /\ plans < MaxPlans
    /\ ~Pending /\ form[source] # 0
    /\ plan' = LET chosen == Chosen(source) IN
               [token |-> plans + 1, source |-> source, catalog |-> form, forms |-> chosen,
                items |-> Observed(source, chosen).items,
                mounts |-> Observed(source, chosen).mounts]
    /\ plans' = plans + 1 /\ answer' = "none"
    /\ UNCHANGED <<widget, durable, up, op, pc, why, deleting, inside, aborted,
                   build, edits, aborts, faults, crashes>>

\* The lease is taken and the key is fenced.
Begin(token) ==
    /\ lock' = token /\ op' = token /\ deleting' = TRUE /\ aborted' = FALSE /\ answer' = "none"
    /\ pc' = "locked"

CommitDeletion ==
    /\ up = "serving" /\ pc = "idle" /\ lock = 0
    /\ \/ \E t \in Unfinished : Begin(t)
       \/ ~Pending /\ plan # None /\ Begin(plan.token)
    /\ UNCHANGED <<widget, trash, journals, up, plan, why, inside, build, bounds>>

Retry == answer = "pending" /\ CommitDeletion

Abort ==
    /\ up = "serving" /\ pc # "idle" /\ ~aborted
    /\ aborts < MaxAborts /\ aborts' = aborts + 1 /\ aborted' = TRUE
    /\ UNCHANGED <<widget, durable, up, plan, op, pc, why, deleting, inside, answer,
                   build, plans, edits, faults, crashes>>

Step(from, to) == pc = from /\ pc' = to
Caught(from, reason) == pc = from /\ pc' = "caught" /\ why' = reason

StepSame == UNCHANGED <<up, op, deleting, aborted, build, plans, edits, aborts, crashes>>
Held == UNCHANGED <<lock, inside, answer, plan>>

SamePlan(p) ==
    /\ form = p.catalog /\ Chosen(p.source) = p.forms
    /\ Observed(p.source, p.forms) = [items |-> p.items, mounts |-> p.mounts]

Prepared == [plan |-> plan, phase |-> "prepared", items |-> {}, mounts |-> {}]

\* #assertPendingPlanCurrent, then the journal; a journal that was found is
\* resumed as it is.
Prepare ==
    /\ pc = "locked"
    /\ \/ /\ journal # None /\ Step("locked", "queued") /\ UNCHANGED <<journals, why, faults>>
       \/ /\ journal = None
          /\ \/ ~SamePlan(plan) /\ Caught("locked", "stale_early") /\ UNCHANGED <<journals, faults>>
             \/ Fault /\ Caught("locked", "failed_early") /\ UNCHANGED journals
             \/ /\ SamePlan(plan)
                /\ \/ /\ SetJournal(Prepared) /\ Step("locked", "queued") /\ UNCHANGED <<why, faults>>
                   \/ /\ Fault /\ Caught("locked", "failed")
                      /\ UNCHANGED journals \/ SetJournal(Prepared)
    /\ Held /\ StepSame /\ UNCHANGED <<widget, trash>>

EnterBarrier ==
    /\ pc = "queued" /\ inside' = TRUE
    /\ pc' = IF journal.phase = "prepared" THEN "checking" ELSE "retiring"
    /\ UNCHANGED <<lock, answer, plan, why, widget, trash, journals, faults>> /\ StepSame

StillAsReviewed(p) ==
    /\ Observed(p.source, p.forms) = [items |-> p.items, mounts |-> p.mounts]
    /\ \A f \in p.forms : trash[p.token][f] = 0 => form[f] = p.catalog[f]

\* Under the barrier everything is looked at again.
Check ==
    /\ pc = "checking"
    /\ \/ StillAsReviewed(journal.plan) /\ Step("checking", "moving") /\ UNCHANGED <<why, faults>>
       \/ ~StillAsReviewed(journal.plan) /\ Caught("checking", "stale") /\ UNCHANGED faults
       \/ Fault /\ Caught("checking", "failed")
    /\ Held /\ StepSame /\ UNCHANGED <<widget, trash, journals>>

SourcesLeft == {f \in journal.plan.forms : moved[f] = 0}

\* moveSource, the published folder first
MoveSource ==
    /\ pc = "moving" /\ SourcesLeft # {}
    /\ LET f == IF "published" \in SourcesLeft THEN "published" ELSE "draft" IN
       \/ aborted /\ Caught("moving", "failed") /\ UNCHANGED <<form, trash, faults>>
       \/ ~aborted /\ Fault /\ Caught("moving", "failed") /\ UNCHANGED <<form, trash>>
       \/ ~aborted /\ form[f] = 0 /\ Caught("moving", "stale") /\ UNCHANGED <<form, trash, faults>>
       \/ /\ ~aborted /\ form[f] # 0
          /\ trash' = [trash EXCEPT ![op][f] = form[f]]
          /\ form' = [form EXCEPT ![f] = 0]
          /\ \/ UNCHANGED <<pc, why, faults>>
             \/ Fault /\ Caught("moving", "failed")
    /\ Held /\ StepSame /\ UNCHANGED <<placed, born, rev, mounted, journals>>

\* WidgetDeletionJournalStore.update replaces the file by a rename.
Record(from, to, next) ==
    \/ Step(from, to) /\ SetJournal(next) /\ UNCHANGED <<why, faults>>
    \/ Fault /\ Caught(from, "failed") /\ (UNCHANGED journals \/ SetJournal(next))

SourcesMoved ==
    /\ pc = "moving" /\ SourcesLeft = {}
    /\ Record("moving", "retiring", [journal EXCEPT !.phase = "sources-moved"])
    /\ Held /\ StepSame /\ UNCHANGED <<widget, trash>>

\* retireDraft: the build is aborted and waited for, with the barrier held.
RetireDraft ==
    /\ pc = "retiring" /\ ("draft" \in journal.plan.forms => build = "idle")
    /\ Record("retiring", "cleaning", [journal EXCEPT !.phase = "cleanup"])
    /\ Held /\ StepSame /\ UNCHANGED <<widget, trash>>

PlacementsLeft == IF pc = "cleaning" THEN journal.plan.items \ journal.items ELSE {}

\* A frame that is gone is done; one that took its place is refused.
RemovePlacement ==
    \E p \in PlacementsLeft :
        LET i == p[1]  replaced == i \in placed /\ born[i] # p[2] IN
        /\ \/ /\ aborted \/ replaced
             /\ Caught("cleaning", "failed") /\ UNCHANGED <<placed, journals, faults>>
           \/ ~aborted /\ Fault /\ Caught("cleaning", "failed") /\ UNCHANGED <<placed, journals>>
           \/ /\ ~aborted /\ ~replaced /\ placed' = placed \ {i}
              /\ Record("cleaning", "cleaning", [journal EXCEPT !.items = @ \cup {p}])
        /\ Held /\ StepSame /\ UNCHANGED <<form, born, rev, mounted, trash>>

MountsLeft == IF pc = "unmounting" THEN journal.plan.mounts \ journal.mounts ELSE {}

RemoveMount ==
    \E m \in MountsLeft :
        /\ \/ aborted /\ Caught("unmounting", "failed") /\ UNCHANGED <<mounted, journals, faults>>
           \/ ~aborted /\ Fault /\ Caught("unmounting", "failed") /\ UNCHANGED <<mounted, journals>>
           \/ /\ ~aborted /\ mounted' = mounted \ {m}
              /\ Record("unmounting", "unmounting", [journal EXCEPT !.mounts = @ \cup {m}])
        /\ Held /\ StepSame /\ UNCHANGED <<form, placed, born, rev, trash>>

PlacementsDone ==
    /\ PlacementsLeft = {} /\ Step("cleaning", "unmounting")
    /\ Held /\ StepSame /\ UNCHANGED <<widget, trash, journals, why, faults>>

LeaveBarrier ==
    /\ MountsLeft = {} /\ Step("unmounting", "refreshing") /\ inside' = FALSE
    /\ UNCHANGED <<lock, answer, plan, widget, trash, journals, why, faults>> /\ StepSame

\* The catalogue is read, the result is recorded, and the trash goes.
CommitJournal ==
    /\ pc = "refreshing"
    /\ Record("refreshing", "purging", [journal EXCEPT !.phase = "committed"])
    /\ Held /\ StepSame /\ UNCHANGED <<widget, trash>>

PurgeTrash ==
    /\ Step("purging", "ending")
    /\ \/ trash' = [trash EXCEPT ![op] = [f \in Forms |-> 0]] /\ UNCHANGED faults
       \/ Fault /\ UNCHANGED trash
    /\ plan' = None /\ answer' = "committed"
    /\ UNCHANGED <<widget, journals, lock, inside, why>> /\ StepSame

HandleSame == UNCHANGED <<lock, widget, trash>> /\ StepSame

Nothing == \A f \in Forms : moved[f] = 0

\* Mutant: a stale plan is reported as such when something was moved.
HandleErrorMisreporting ==
    /\ pc = "caught" /\ pc' = "ending" /\ inside' = FALSE /\ why' = "none"
    /\ answer' = (IF why \in {"stale", "stale_early"} THEN "stale" ELSE "pending")
    /\ UNCHANGED <<journals, plan, faults>> /\ HandleSame

\* The catch of commitDeletion: a stale plan of which nothing was moved is
\* discarded, anything else that has a journal waits for recovery.
HandleError ==
    /\ pc = "caught" /\ pc' = "ending" /\ inside' = FALSE /\ why' = "none"
    /\ \/ /\ why = "stale_early" /\ plan' = None /\ answer' = "stale"
          /\ UNCHANGED <<journals, faults>>
       \/ /\ why = "failed_early" /\ answer' = "failed"
          /\ UNCHANGED <<journals, plan, faults>>
       \/ /\ why = "failed" \/ (why = "stale" /\ ~Nothing)
          /\ answer' = "pending" /\ UNCHANGED <<journals, plan, faults>>
       \/ /\ why = "stale" /\ Nothing
          /\ \/ SetJournal(None) /\ plan' = None /\ answer' = "stale" /\ UNCHANGED faults
             \/ /\ Fault /\ (UNCHANGED journals \/ SetJournal(None))
                /\ answer' = "failed" /\ UNCHANGED plan
    /\ HandleSame

\* The fence is lifted and the lease released; a startup that cannot finish a
\* deletion stops.
End ==
    /\ Step("ending", "idle") /\ deleting' = FALSE
    /\ \/ lock' = 0 /\ UNCHANGED <<answer, faults>>
       \/ /\ Fault /\ UNCHANGED lock
          /\ answer' = IF answer = "committed" THEN "failed" ELSE answer
    /\ up' = IF up = "serving" THEN "serving"
             ELSE IF answer' = "committed" THEN "serving" ELSE "down"
    /\ plan' = IF up' = "down" THEN None ELSE plan
    /\ UNCHANGED <<widget, trash, journals, op, why, inside, aborted, build, plans,
                   edits, aborts, crashes>>

-----------------------------------------------------------------------------
(* The process                                                              *)

Crash ==
    /\ up # "down" /\ crashes < MaxCrashes /\ crashes' = crashes + 1
    /\ up' = "down" /\ plan' = None /\ pc' = "idle" /\ why' = "none"
    /\ deleting' = FALSE /\ inside' = FALSE /\ aborted' = FALSE
    /\ answer' = "none" /\ build' = "idle"
    /\ UNCHANGED <<widget, durable, op, plans, edits, aborts, faults>>

Restart ==
    /\ up = "down" /\ up' = "starting"
    /\ UNCHANGED <<widget, durable, plan, op, pc, why, deleting, inside, aborted,
                   answer, build, bounds>>

\* Mutant: a lock that was left behind always stops the startup.
RecoverDeletionsStopped ==
    /\ up = "starting" /\ pc = "idle"
    /\ \/ lock # 0 /\ up' = "down" /\ UNCHANGED <<lock, op, pc, deleting, aborted, answer>>
       \/ /\ lock = 0 /\ ~Pending /\ up' = "serving"
          /\ UNCHANGED <<lock, op, pc, deleting, aborted, answer>>
       \/ lock = 0 /\ \E t \in Unfinished : Begin(t) /\ UNCHANGED up
    /\ UNCHANGED <<widget, trash, journals, plan, why, inside, build, bounds>>

\* recoverDeletions: a lock without its journal stops the startup; what lies
\* in the trash of a committed deletion is purged.
RecoverDeletions ==
    /\ up = "starting" /\ pc = "idle"
    /\ \/ /\ lock # 0 /\ journals[lock] = None /\ up' = "down"
          /\ UNCHANGED <<trash, lock, op, pc, deleting, aborted, answer>>
       \/ /\ lock # 0 => journals[lock] # None
          /\ trash' = [t \in Token |-> IF t \in Unfinished THEN trash[t]
                                         ELSE [f \in Forms |-> 0]]
          /\ \/ /\ ~Pending /\ up' = "serving" /\ lock' = 0
                /\ UNCHANGED <<op, pc, deleting, aborted, answer>>
             \/ \E t \in Unfinished : Begin(t) /\ UNCHANGED up
    /\ UNCHANGED <<widget, journals, plan, why, inside, build, bounds>>

Proceed ==
    \/ Prepare \/ EnterBarrier \/ Check \/ MoveSource \/ SourcesMoved
    \/ RetireDraft \/ RemovePlacement \/ PlacementsDone \/ RemoveMount
    \/ LeaveBarrier \/ CommitJournal \/ PurgeTrash \/ HandleError \/ End

Next ==
    \/ \E i \in Items : Place(i) \/ Touch(i)
    \/ \E m \in Mounts : ToggleMount(m)
    \/ EditDraft \/ StartBuild \/ BuildEnds \/ BuildAccepted
    \/ \E source \in Forms : PlanDeletion(source)
    \/ CommitDeletion \/ Abort \/ Proceed
    \/ Crash \/ Restart \/ RecoverDeletions

Spec == Init /\ [][Next]_vars

\* Steps of the process are taken, a deletion that is pending is retried, and a
\* process that stopped is started again.
Fairness ==
    /\ WF_vars(Proceed) /\ WF_vars(Retry)
    /\ WF_vars(Restart) /\ WF_vars(RecoverDeletions)
    /\ WF_vars(BuildEnds) /\ WF_vars(BuildAccepted)

FairSpec == Spec /\ Fairness

-----------------------------------------------------------------------------
(* Properties                                                               *)

\* A folder that lies in the trash of a deletion, and nowhere else, has a
\* journal from which the deletion can go on.
MovedHasJournal ==
    \A t \in Token : \A f \in Forms :
        trash[t][f] # 0 => journals[t] # None /\ f \in journals[t].plan.forms

\* A deletion removes a frame only if it is the very one that was reviewed,
\* also when it resumes after a crash or an error.
OnlyReviewedRemoved ==
    [][\A i \in Items :
        pc = "cleaning" /\ i \in placed \ placed'
            => \/ edits' # edits
               \/ \E p \in journal.plan.items : p[1] = i /\ p[2] = born[i]]_vars

\* Told that it is committed, nothing that was reviewed is left: no folder of
\* that version, no frame and no mount.
CommittedIsComplete ==
    [][answer # "committed" /\ answer' = "committed" =>
        LET p == journal.plan IN
        /\ \A f \in p.forms : form[f] # p.catalog[f]
        /\ \A x \in p.items : x[1] \in placed => born[x[1]] # x[2]]_vars

\* Told that the plan was stale, nothing has been touched.
StaleIsUntouched ==
    [][answer # "stale" /\ answer' = "stale"
        => \A f \in Forms : trash[op][f] = 0 /\ journals'[op] = None]_vars

\* WidgetFilesystemManagementService.ts:312 says of a pending deletion: retry
\* the same confirmed operation.  It ends when it is retried.
RetrySucceeds == answer = "pending" ~> ~Pending

\* An edit came after the first move and before the journal says that all
\* sources are moved, or a new frame took the place of one that was reviewed:
\* every retry is refused as long as the edit stands.
Overtaken ==
    \E t \in Unfinished :
        \/ /\ journals[t].phase = "prepared" /\ \E f \in Forms : trash[t][f] # 0
           /\ ~StillAsReviewed(journals[t].plan)
        \/ /\ journals[t].phase = "cleanup"
           /\ \E p \in journals[t].plan.items \ journals[t].items :
                  p[1] \in placed /\ born[p[1]] # p[2]

\* The deletion rests and nobody is asked to retry it, or the retry is refused:
\* the lease could not be released, or the journal of a stale plan of which
\* nothing was moved could not be discarded.
Unretried == up = "serving" /\ pc = "idle" /\ (lock # 0 \/ answer = "failed")

\* The deletion waits for a build that waits for the barrier it holds.
EachWaits == pc = "retiring" /\ build = "accepting"

\* A deletion with a journal ends, over edits, errors, interruptions and
\* crashes, unless it is left for good in one of the three cases above: overtaken
\* by an edit, not retried, or waiting for a build that waits for it.
DeletionConverges ==
    Pending ~> (~Pending \/ [](Overtaken \/ Unretried \/ EachWaits))

\* PublicationReadWriteBarrier.ts:11 calls the barrier fair: a catalogue scan
\* that waits for it gets through.
ScansAreServed == build = "accepting" ~> build # "accepting"
=============================================================================
