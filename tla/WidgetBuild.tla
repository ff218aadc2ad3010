---------------------------- MODULE WidgetBuild ----------------------------
(* The host build of a widget draft: callers that share one build, the      *)
(* projection of its output over the live dist folder by renames, the       *)
(* recovery of stages that were left behind, and the admission of a dist    *)
(* that is found on disk.                                                   *)
(* src/apps/backend/src/shell/widget/WidgetBuildGenerationService.ts        *)
(*                                                                          *)
(* One widget.  A build is identified by the source it was made from; the   *)
(* jobs of the widget run one after the other (observeTail).                *)
EXTENDS Naturals, FiniteSets

CONSTANTS Sources,   \* contents that the draft may have
          Callers, Kind,  \* Kind: [Callers -> {"ensure", "rebuild"}]
          MaxCalls, MaxEdits, MaxBuilds, MaxFaults, MaxCrashes, MaxStops,  \* bounds
          None

Stamps == 0 .. MaxBuilds
Dist == [id : Sources, stamp : Stamps, whole : BOOLEAN]
Stage == [id : Sources, staged : Dist \cup {None}, backup : Dist \cup {None},
          projecting : BOOLEAN, committed : BOOLEAN]

BuildAssumption ==
    /\ IsFiniteSet(Sources) /\ Sources # {}
    /\ None \notin Sources /\ None \notin Dist /\ None \notin Stage
    /\ {"none", "failed", "aborted"} \cap Sources = {}
    /\ Kind \in [Callers -> {"ensure", "rebuild"}]
    /\ {MaxCalls, MaxEdits, MaxBuilds, MaxFaults, MaxCrashes, MaxStops} \subseteq Nat

VARIABLES \* on disk
          src, live,   \* the draft's source and its dist folder
          stages,      \* .staging/preview-build-generation-<key>-<build>
          \* the entry of the widget in the service
          up,          \* up, stopping, down
          phase, accepted, lastMarker, recovered,
          operation,   \* the shared build: none, or whether it was aborted
          \* the job that runs
          job, server, \* observe (for a caller, or None), or build
          pc, input, stage, fails,
          callers,
          verified,    \* every dist whose build was verified in place and committed
          counts

disk  == <<src, live, stages>>
entry == <<phase, accepted, lastMarker, recovered>>
work  == <<job, server, pc, input, stage, fails>>
vars  == <<disk, up, entry, operation, work, callers, verified, counts>>

Caller == [st : {"idle", "asked", "observed", "waiting"}, cancelled : BOOLEAN,
           seen : SUBSET Sources, answer : Sources \cup {"none", "failed", "aborted"}]
Counts == [calls : 0 .. MaxCalls, edits : 0 .. MaxEdits, builds : Stamps,
           faults : 0 .. MaxFaults, crashes : 0 .. MaxCrashes, stops : 0 .. MaxStops]

TypeOK ==
    /\ src \in Sources /\ live \in Dist \cup {None}
    /\ \A b \in 1 .. MaxBuilds : stages[b] = None \/ stages[b] \in Stage
    /\ up \in {"up", "stopping", "down"}
    /\ phase \in {"unbuilt", "restoring", "building", "validating", "ready",
                  "build_required", "rejected"}
    /\ accepted \in Sources \cup {None} /\ lastMarker \in Stamps \cup {None}
    /\ recovered \in BOOLEAN /\ operation \in {"none", "open", "aborted"}
    /\ job \in {"none", "observe", "build"} /\ server \in Callers \cup {None}
    /\ input \in Sources \cup {None} /\ stage \in Stamps /\ fails \in BOOLEAN
    /\ pc \in {"idle", "recover", "undo", "rename", "settle", "capture", "portable",
               "confirm", "stage", "mark", "moveOld", "moveNew", "verify", "commit",
               "drop", "rollback", "rollbackMove", "clean", "marker", "first",
               "second", "accept"}
    /\ callers \in [Callers -> Caller] /\ verified \subseteq Dist /\ counts \in Counts

Quiet == [st |-> "idle", cancelled |-> FALSE, seen |-> {}, answer |-> "none"]

Init ==
    /\ src \in Sources
    /\ live \in {None, [id |-> src, stamp |-> 0, whole |-> TRUE]}
    /\ stages = [b \in 1 .. MaxBuilds |-> None]
    /\ up = "up" /\ phase = "unbuilt" /\ accepted = None /\ lastMarker = None
    /\ recovered = FALSE /\ operation = "none"
    /\ job = "none" /\ server = None /\ pc = "idle" /\ input = None
    /\ stage = 0 /\ fails = FALSE
    /\ callers = [c \in Callers |-> Quiet]
    /\ verified = {live} \ {None}
    /\ counts = [calls |-> 0, edits |-> 0, builds |-> 0, faults |-> 0,
                 crashes |-> 0, stops |-> 0]

Count(what, limit) ==
    counts[what] < limit /\ counts' = [counts EXCEPT ![what] = @ + 1]
Fault == Count("faults", MaxFaults)

-----------------------------------------------------------------------------
(* Callers                                                                  *)

CallerSame == UNCHANGED <<disk, up, entry, work, verified>>

Call(c) ==
    /\ up = "up" /\ callers[c].st = "idle" /\ Count("calls", MaxCalls)
    /\ callers' = [callers EXCEPT ![c] =
           [st |-> IF Kind[c] = "ensure" THEN "asked" ELSE "observed",
            cancelled |-> FALSE, seen |-> {src}, answer |-> "none"]]
    /\ UNCHANGED operation /\ CallerSame

Answered(c, answer) ==
    [callers EXCEPT ![c].st = "idle", ![c].answer = answer]

\* Mutant: whatever is accepted is enough.
ReuseAccepted(c) ==
    /\ Kind[c] = "ensure" /\ callers[c].st = "observed" /\ accepted # None
    /\ callers' = Answered(c, accepted)
    /\ UNCHANGED <<operation, counts>> /\ CallerSame

\* requireCurrent after the observation: what is accepted and current is enough.
ReuseCurrent(c) ==
    /\ Kind[c] = "ensure" /\ callers[c].st = "observed" /\ accepted = src
    /\ callers' = Answered(c, accepted)
    /\ UNCHANGED <<operation, counts>> /\ CallerSame

\* rebuild: the shared build is joined, whatever has become of it.
Rebuild(c) ==
    /\ callers[c].st = "observed" /\ (Kind[c] = "ensure" => accepted # src)
    /\ IF callers[c].cancelled
       THEN callers' = Answered(c, "aborted") /\ UNCHANGED operation
       ELSE /\ callers' = [callers EXCEPT ![c].st = "waiting"]
            /\ operation' = IF operation = "none" THEN "open" ELSE operation
    /\ UNCHANGED counts /\ CallerSame

\* The build is aborted when the last of its callers gives up.
Cancel(c) ==
    /\ callers[c].st # "idle" /\ ~callers[c].cancelled
    /\ IF callers[c].st # "waiting"
       THEN callers' = [callers EXCEPT ![c].cancelled = TRUE] /\ UNCHANGED operation
       ELSE /\ callers' = [callers EXCEPT ![c].st = "idle", ![c].answer = "aborted",
                                          ![c].cancelled = TRUE]
            /\ operation' = IF \E d \in Callers \ {c} : callers[d].st = "waiting"
                            THEN operation ELSE "aborted"
    /\ UNCHANGED counts /\ CallerSame

\* People, agents and imports change the draft.
EditSource ==
    /\ Count("edits", MaxEdits) /\ \E s \in Sources \ {src} :
        /\ src' = s
        /\ callers' = [c \in Callers |->
               IF callers[c].st = "idle" THEN callers[c]
               ELSE [callers[c] EXCEPT !.seen = @ \cup {s}]]
    /\ UNCHANGED <<live, stages, up, entry, operation, work, verified>>

-----------------------------------------------------------------------------
(* The jobs of the widget                                                   *)

Idle == pc = "idle" /\ job = "none"
WorkSame == UNCHANGED <<src, up, job, server>>
Go(from, to) == pc = from /\ pc' = to

\* Everyone who waits for the build gets its answer.
Settled(answer) ==
    /\ operation' = "none"
    /\ callers' = [c \in Callers |->
           IF callers[c].st = "waiting"
           THEN [callers[c] EXCEPT !.st = "idle", !.answer = answer]
           ELSE callers[c]]

EndWork == /\ pc' = "idle" /\ job' = "none" /\ server' = None /\ input' = None
           /\ stage' = 0 /\ fails' = FALSE

\* The build rejects; an observation throws to its caller, or to nobody.
JobFails ==
    /\ EndWork
    /\ IF job = "build"
       THEN Settled(IF operation = "aborted" \/ up = "stopping" THEN "aborted" ELSE "failed")
       ELSE /\ UNCHANGED operation
            /\ callers' = IF server = None THEN callers ELSE Answered(server, "failed")
    /\ UNCHANGED <<src, up, lastMarker>>

BuildRejected == phase' = IF job = "build" /\ phase # "ready" THEN "rejected" ELSE phase

ObserveEnds ==
    /\ EndWork
    /\ callers' = IF server = None THEN callers
                  ELSE [callers EXCEPT ![server].st = "observed"]
    /\ UNCHANGED <<src, up, operation>>

\* A watcher, a poll or a caller.
StartObserve(c) ==
    /\ Idle /\ up = "up" /\ (c # None => callers[c].st = "asked")
    /\ job' = "observe" /\ server' = c /\ pc' = "recover"
    /\ UNCHANGED <<disk, up, entry, operation, input, stage, fails, callers, verified, counts>>

Aborted == operation = "aborted" \/ up = "stopping"

\* A closed service observes nothing.
ObserveNothing(c) ==
    /\ Idle /\ up = "stopping" /\ callers[c].st = "asked"
    /\ callers' = [callers EXCEPT ![c].st = "observed"]
    /\ UNCHANGED <<disk, up, entry, operation, work, verified, counts>>

StartBuild ==
    /\ Idle /\ operation # "none"
    /\ \/ /\ ~Aborted /\ job' = "build" /\ server' = None /\ pc' = "recover"
          /\ UNCHANGED <<phase, operation, callers>>
       \/ /\ Aborted /\ Settled("aborted") /\ UNCHANGED <<job, server, pc>>
          /\ phase' = IF phase = "ready" THEN phase ELSE "rejected"
    /\ UNCHANGED <<disk, up, accepted, lastMarker, recovered, input, stage, fails,
                   verified, counts>>

-----------------------------------------------------------------------------
(* recoverHostBuildStages                                                   *)

Left == {b \in 1 .. MaxBuilds : stages[b] # None}

\* committedStageMatchesLive
CommittedAndLive(s) ==
    s.committed /\ live # None /\ live.whole /\ live.id = s.id

RecoverSame == UNCHANGED <<operation, callers, verified, phase, accepted, lastMarker>>

\* A stage that was not committed gives its backup back; without one, what it
\* projected is removed.
RecoverStage ==
    /\ pc = "recover" /\ ~recovered
    /\ \E b \in Left : LET s == stages[b] IN
        /\ stage' = b
        /\ pc' = IF CommittedAndLive(s) THEN "settle"
                 ELSE IF s.backup # None THEN IF live = None THEN "rename" ELSE "undo"
                 ELSE IF s.projecting /\ s.staged = None /\ live # None THEN "undo"
                 ELSE "settle"
    /\ UNCHANGED <<live, stages, recovered, input, fails, counts>>
    /\ WorkSame /\ RecoverSame

Torn(d) == [d EXCEPT !.whole = FALSE]

\* rm of the live folder, then the rename of the backup
UndoLive ==
    /\ Go("undo", IF stages[stage].backup # None THEN "rename" ELSE "settle")
    /\ live' = None
    /\ UNCHANGED <<stages, recovered, input, stage, fails, counts>> /\ WorkSame /\ RecoverSame

RenameBack ==
    /\ Go("rename", "settle")
    /\ live' = stages[stage].backup
    /\ stages' = [stages EXCEPT ![stage].backup = None]
    /\ UNCHANGED <<recovered, input, stage, fails, counts>> /\ WorkSame /\ RecoverSame

RemoveLeft ==
    /\ Go("settle", "recover")
    /\ stages' = [stages EXCEPT ![stage] = None] /\ stage' = 0
    /\ UNCHANGED <<live, recovered, input, fails, counts>> /\ WorkSame /\ RecoverSame

Recovered ==
    /\ recovered \/ Left = {}
    /\ Go("recover", IF job = "build" THEN "capture" ELSE "marker")
    /\ recovered' = TRUE
    /\ UNCHANGED <<live, stages, input, stage, fails, counts>> /\ WorkSame /\ RecoverSame

\* What is left of a stage whose removal stopped half-way.
Remains(s) ==
    [id : {s.id}, staged : {None, s.staged},
     backup : {None, s.backup} \cup (IF s.backup = None THEN {} ELSE {Torn(s.backup)}),
     projecting : {FALSE, s.projecting}, committed : {FALSE, s.committed}]

\* What a failed or interrupted step of removal leaves of the disk.
Interrupted ==
    \/ pc \in {"undo", "rollback"} /\ live # None
       /\ live' \in {live, Torn(live), None} /\ UNCHANGED stages
    \/ pc \in {"settle", "clean"}
       /\ \E r \in Remains(stages[stage]) : stages' = [stages EXCEPT ![stage] = r]
       /\ UNCHANGED live
    \/ pc = "drop" /\ stages[stage].backup # None
       /\ stages' = [stages EXCEPT ![stage].backup = Torn(@)] /\ UNCHANGED live
    \/ UNCHANGED <<live, stages>>

\* A step of the recovery fails: the job does, and the next one tries again.
RecoverFails ==
    /\ pc \in {"recover", "undo", "rename", "settle"} /\ Fault /\ ~recovered
    /\ Interrupted /\ JobFails /\ BuildRejected
    /\ UNCHANGED <<accepted, recovered, verified>>

-----------------------------------------------------------------------------
(* runHostBuild and projectPortableBuild                                    *)

BuildSame == UNCHANGED <<operation, callers, accepted, lastMarker>>
Now(step) == job = "build" /\ pc = step
Then(step) == pc' = step /\ UNCHANGED <<job, server>>

\* Before a stage exists the build just fails.
Fails ==
    /\ job = "build"
    /\ \/ pc \in {"capture", "portable", "confirm"} /\ Aborted /\ UNCHANGED counts
       \/ pc \in {"capture", "portable", "confirm"} /\ Fault
       \/ pc = "confirm" /\ src # input /\ UNCHANGED counts
    /\ JobFails /\ BuildRejected
    /\ UNCHANGED <<live, stages, accepted, recovered, verified>>

Capture ==
    /\ Now("capture") /\ ~Aborted /\ Then("portable")
    /\ phase' = "building" /\ input' = src
    /\ UNCHANGED <<disk, up, recovered, stage, fails, verified, counts>> /\ BuildSame

\* buildPortable
Portable ==
    /\ Now("portable") /\ ~Aborted /\ Then("confirm") /\ phase' = "validating"
    /\ UNCHANGED <<disk, up, recovered, input, stage, fails, verified, counts>> /\ BuildSame

\* The source is captured again, and the stage is made.
Confirm ==
    /\ Now("confirm") /\ ~Aborted /\ src = input
    /\ Then("stage") /\ Count("builds", MaxBuilds)
    /\ stage' = counts.builds + 1
    /\ stages' = [stages EXCEPT ![counts.builds + 1] =
           [id |-> input, staged |-> None, backup |-> None,
            projecting |-> FALSE, committed |-> FALSE]]
    /\ UNCHANGED <<src, live, up, phase, recovered, input, fails, verified>> /\ BuildSame

ProjectSame == UNCHANGED <<src, up, phase, input, stage, verified>> /\ BuildSame

\* The build fails from here on through the removal of its stage.
GiveUp == Then("clean") /\ fails' = TRUE

FillStage ==
    /\ Now("stage") /\ UNCHANGED <<live, recovered>>
    /\ \/ /\ ~Aborted /\ Then("mark") /\ UNCHANGED <<fails, counts>>
          /\ stages' = [stages EXCEPT ![stage].staged =
                 [id |-> input, stamp |-> stage, whole |-> TRUE]]
       \/ Aborted /\ GiveUp /\ UNCHANGED <<stages, counts>>
       \/ Fault /\ GiveUp /\ UNCHANGED stages
    /\ ProjectSame

\* The projection marker says that the renames may begin.
MarkProjection ==
    /\ Now("mark") /\ UNCHANGED <<live, recovered>>
    /\ \/ Aborted /\ GiveUp /\ UNCHANGED <<stages, counts>>
       \/ /\ ~Aborted /\ stages' = [stages EXCEPT ![stage].projecting = TRUE]
          /\ \/ Then("moveOld") /\ UNCHANGED <<fails, counts>>
             \/ Fault /\ GiveUp
    /\ ProjectSame

MoveOld ==
    /\ Now("moveOld") /\ UNCHANGED recovered
    /\ \/ /\ live # None /\ live' = None /\ Then("moveNew")
          /\ stages' = [stages EXCEPT ![stage].backup = live] /\ UNCHANGED <<fails, counts>>
       \/ live = None /\ Then("moveNew") /\ UNCHANGED <<live, stages, fails, counts>>
       \/ Fault /\ GiveUp /\ UNCHANGED <<live, stages>>
    /\ ProjectSame

Undo == Then("rollback") /\ fails' = TRUE

MoveNew ==
    /\ Now("moveNew") /\ UNCHANGED recovered
    /\ \/ Aborted /\ Undo /\ UNCHANGED <<live, stages, counts>>
       \/ Fault /\ Undo /\ UNCHANGED <<live, stages>>
       \/ /\ ~Aborted /\ live' = stages[stage].staged
          /\ stages' = [stages EXCEPT ![stage].staged = None]
          /\ \/ Then("verify") /\ UNCHANGED <<fails, counts>>
             \/ Fault /\ Undo
    /\ ProjectSame

\* Output and source are read once more.
Verify ==
    /\ Now("verify")
    /\ \/ src = input /\ ~Aborted /\ Then("commit") /\ UNCHANGED <<fails, counts>>
       \/ (src # input \/ Aborted) /\ Undo /\ UNCHANGED counts
       \/ Fault /\ Undo
    /\ UNCHANGED <<live, stages, recovered>> /\ ProjectSame

\* The commit marker; a failed sync may leave it behind.
CommitBuild ==
    /\ Now("commit") /\ UNCHANGED <<live, recovered>>
    /\ \/ /\ stages' = [stages EXCEPT ![stage].committed = TRUE]
          /\ verified' = verified \cup {live}
          /\ \/ Then("drop") /\ UNCHANGED <<fails, counts>>
             \/ Fault /\ Undo
       \/ Fault /\ Undo /\ UNCHANGED <<stages, verified>>
    /\ UNCHANGED <<src, up, phase, input, stage>> /\ BuildSame

\* A backup that cannot be removed is left for the recovery.
DropBackup ==
    /\ Now("drop") /\ UNCHANGED <<live, fails>>
    /\ \/ /\ stages' = [stages EXCEPT ![stage].backup = None] /\ Then("clean")
          /\ UNCHANGED <<recovered, counts>>
       \/ /\ Fault /\ stages[stage].backup # None
          /\ \E d \in {stages[stage].backup, Torn(stages[stage].backup)} :
                 stages' = [stages EXCEPT ![stage].backup = d]
          /\ recovered' = FALSE /\ Then("accept")
    /\ ProjectSame

Projected == live # None /\ live.stamp = stage

\* rollback: what was projected goes, what was moved comes back.
Rollback ==
    /\ Now("rollback") /\ Then("rollbackMove")
    /\ live' = IF Projected THEN None ELSE live
    /\ UNCHANGED <<stages, recovered, fails, counts>> /\ ProjectSame

RollbackMove ==
    /\ Now("rollbackMove") /\ Then("clean")
    /\ live' = IF stages[stage].backup = None THEN live ELSE stages[stage].backup
    /\ stages' = [stages EXCEPT ![stage].backup = None]
    /\ UNCHANGED <<recovered, fails, counts>> /\ ProjectSame

\* A rollback that fails, its last sync included, is left to the recovery.
RollbackFails ==
    /\ job = "build" /\ Fault /\ recovered' = FALSE
    /\ \/ pc = "rollback" /\ Interrupted
       \/ pc = "rollbackMove" /\ UNCHANGED <<live, stages>>
       \/ /\ pc = "rollbackMove" /\ stages[stage].backup # None
          /\ live' = stages[stage].backup
          /\ stages' = [stages EXCEPT ![stage].backup = None]
    /\ JobFails /\ BuildRejected /\ UNCHANGED <<accepted, verified>>

\* Mutant: only a build that succeeds removes its stage.
CleanStageOfSuccess ==
    /\ Now("clean")
    /\ \/ /\ ~fails /\ stages' = [stages EXCEPT ![stage] = None] /\ Then("accept")
          /\ UNCHANGED <<src, up, phase, input, stage, fails>> /\ BuildSame
       \/ fails /\ UNCHANGED stages /\ JobFails /\ BuildRejected /\ UNCHANGED accepted
    /\ UNCHANGED <<live, counts, recovered, verified>>

\* The removal of the stage ends the projection, or its failure the build.
CleanStage ==
    /\ Now("clean")
    /\ \/ /\ stages' = [stages EXCEPT ![stage] = None]
          /\ \/ /\ ~fails /\ Then("accept")
                /\ UNCHANGED <<src, up, phase, input, stage, fails>> /\ BuildSame
             \/ fails /\ JobFails /\ BuildRejected /\ UNCHANGED accepted
          /\ UNCHANGED <<live, counts>>
       \/ /\ Fault /\ Interrupted /\ JobFails /\ BuildRejected /\ UNCHANGED accepted
    /\ UNCHANGED <<recovered, verified>>

-----------------------------------------------------------------------------
(* observeCandidate and acceptGeneration                                    *)

\* What cannot be accepted is rejected, and looked at again when it changes.
Judged(verdict) ==
    /\ ObserveEnds /\ phase' = verdict
    /\ UNCHANGED <<live, stages, accepted, lastMarker, recovered, verified>>

ReadMarker ==
    /\ pc = "marker"
    /\ \/ /\ live = None
          /\ phase' = IF accepted = None THEN "unbuilt" ELSE phase
          /\ ObserveEnds /\ UNCHANGED lastMarker
       \/ /\ live # None /\ live.stamp = lastMarker
          /\ ObserveEnds /\ UNCHANGED <<phase, lastMarker>>
       \/ /\ live # None /\ live.stamp # lastMarker
          /\ lastMarker' = live.stamp /\ pc' = "first"
          /\ phase' = IF accepted = None THEN "restoring" ELSE "validating"
          /\ UNCHANGED <<src, up, operation, job, server, input, stage, fails, callers>>
    /\ UNCHANGED <<live, stages, accepted, recovered, verified, counts>>

Valid == live.whole /\ live.id = src

Validate(from, to) ==
    /\ pc = from
    /\ \/ /\ Valid /\ pc' = to /\ input' = live.id /\ UNCHANGED counts
          /\ UNCHANGED <<disk, up, entry, operation, job, server, stage, fails, callers, verified>>
       \/ ~Valid /\ Judged("rejected") /\ UNCHANGED counts
       \/ Fault /\ Judged("rejected")

\* The construction may be gone from the cache.
RequireBuild ==
    /\ pc = "accept" /\ job = "observe" /\ accepted # input
    /\ Judged("build_required") /\ UNCHANGED counts

\* The new generation is in force before the catalogue is refreshed.
Accept ==
    /\ pc = "accept" /\ accepted' = input /\ phase' = "ready"
    /\ lastMarker' = IF job = "build" THEN live.stamp ELSE lastMarker
    /\ \/ /\ job = "build" /\ EndWork /\ UNCHANGED <<src, up>>
          /\ \/ Settled(input) /\ UNCHANGED counts
             \/ Fault /\ accepted # input /\ Settled("failed")
       \/ job = "observe" /\ ObserveEnds /\ UNCHANGED counts
    /\ UNCHANGED <<live, stages, recovered, verified>>

-----------------------------------------------------------------------------
(* The service and the process                                              *)

Stop ==
    /\ up = "up" /\ Count("stops", MaxStops) /\ up' = "stopping"
    /\ operation' = IF operation = "open" THEN "aborted" ELSE operation
    /\ UNCHANGED <<disk, entry, work, callers, verified>>

Forget ==
    /\ phase' = "unbuilt" /\ accepted' = None /\ lastMarker' = None
    /\ recovered' = FALSE /\ operation' = "none"
    /\ callers' = [c \in Callers |-> Quiet]

Stopped ==
    /\ up = "stopping" /\ Idle /\ operation = "none" /\ up' = "down"
    /\ Forget /\ UNCHANGED <<disk, work, verified, counts>>

Crash ==
    /\ up # "down" /\ Count("crashes", MaxCrashes) /\ up' = "down"
    /\ Interrupted /\ EndWork /\ Forget
    /\ UNCHANGED <<src, verified>>

Restart ==
    /\ up = "down" /\ up' = "up"
    /\ UNCHANGED <<disk, entry, operation, work, callers, verified, counts>>

Work ==
    \/ RecoverStage \/ UndoLive \/ RenameBack \/ RemoveLeft \/ Recovered \/ RecoverFails
    \/ Fails \/ Capture \/ Portable \/ Confirm \/ FillStage \/ MarkProjection
    \/ MoveOld \/ MoveNew \/ Verify \/ CommitBuild \/ DropBackup \/ Rollback
    \/ RollbackMove \/ RollbackFails \/ CleanStage
    \/ ReadMarker \/ Validate("first", "second") \/ Validate("second", "accept")
    \/ RequireBuild \/ Accept

Next ==
    \/ \E c \in Callers : Call(c) \/ ObserveNothing(c) \/ ReuseCurrent(c) \/ Rebuild(c) \/ Cancel(c)
    \/ EditSource \/ (\E c \in Callers \cup {None} : StartObserve(c)) \/ StartBuild
    \/ Work \/ Stop \/ Stopped \/ Crash \/ Restart

Spec == Init /\ [][Next]_vars

\* Jobs go on, callers take their turn and a queued build is started.
Fairness ==
    /\ WF_vars(Work) /\ SF_vars(StartBuild)
    /\ \A c \in Callers : SF_vars(StartObserve(c) \/ ObserveNothing(c)) /\ WF_vars(ReuseCurrent(c) \/ Rebuild(c))

FairSpec == Spec /\ Fairness

-----------------------------------------------------------------------------
(* Properties                                                               *)

AtRest == Idle /\ recovered

\* Once a widget is recovered and no job runs, its dist is one whose build was
\* verified and committed, over any failure: never an unfinished projection.
LiveIsVerified ==
    AtRest /\ live # None => \E d \in verified : d.stamp = live.stamp

\* "keeps independently valid live output after a durable commit marker"
\* (WidgetBuildGenerationService.test.ts:423): a dist that was committed is
\* replaced, and not lost.
LastGoodIsKept == AtRest /\ verified # {} => live # None

\* Without faults the accepted generation is the dist on disk, and no stage is
\* left of a build that has ended.
AcceptedIsOnDisk ==
    AtRest => Left = {} /\ (accepted # None => live # None /\ live.id = accepted)

\* ensureCurrent answers with a build of a source that the draft had while the
\* call was under way, also when it joins the build of somebody else.
EnsureIsFresh ==
    [][\A c \in Callers :
        Kind[c] = "ensure" /\ callers[c].st # "idle" /\ callers'[c].answer \in Sources
            => callers'[c].answer \in callers[c].seen]_vars

\* The service aborts a build for the reason 'all-callers-cancelled': who did
\* not cancel is not told so while the service runs.
OnlyCancellersAbort ==
    \A c \in Callers : callers[c].answer = "aborted" /\ up = "up" => callers[c].cancelled

\* Everyone who asks is answered, unless the process goes down.
CallersAreAnswered ==
    \A c \in Callers : callers[c].st # "idle" ~> callers[c].st = "idle"
=============================================================================
