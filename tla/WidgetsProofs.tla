---------------------------- MODULE WidgetsProofs ----------------------------
(***************************************************************************)
(* What holds of the builds of MCWidgets for every value of the constants: *)
(* the invariant of WidgetBuild, its steps, and the two properties of the  *)
(* runs that follow from it.                                               *)
(***************************************************************************)
EXTENDS MCWidgets, TLAPS

BeforeStage == {"capture", "portable", "confirm"}
Projection == {"stage", "mark", "moveOld", "moveNew", "verify", "commit", "drop",
               "rollback", "rollbackMove", "clean"}
Settling == {"undo", "rename", "settle"}

\* The build that made a dist was verified and committed.
Good(n) == \E d \in verified : d.stamp = n

\* The build has committed what is live.
Replaced == buildPc = "drop" \/ (buildPc = "clean" /\ ~fails) \/ (buildPc = "accept" /\ job = "build")

Scalars ==
    /\ src \in Sources /\ buildUp \in {"up", "stopping", "down"}
    /\ phase \in {"unbuilt", "restoring", "building", "validating", "ready",
                  "build_required", "rejected"}
    /\ accepted \in Sources \cup {None} /\ lastMarker \in Build!Stamps \cup {None}
    /\ operation \in {"none", "open", "aborted"}
    /\ job \in {"none", "observe", "build"} /\ server \in MCCallers \cup {None}
    /\ input \in Sources \cup {None} /\ stage \in Build!Stamps
    /\ buildPc \in Projection \cup BeforeStage \cup Settling \cup
               {"idle", "recover", "marker", "first", "second", "accept"}
Flags == recovered \in BOOLEAN /\ fails \in BOOLEAN
DiskTyped ==
    /\ live \in Build!Dist \cup {None} /\ verified \subseteq Build!Dist
    /\ stages \in [1 .. MaxBuilds -> Build!Stage \cup {None}]
Typed == Scalars /\ Flags /\ DiskTyped /\ callers \in [MCCallers -> Build!Caller] /\ counts \in Build!Counts

\* Where the job stands, it has what its step works on.
Placed ==
  /\ buildPc \in BeforeStage \cup Projection => job = "build" /\ recovered
  /\ buildPc \in {"marker", "first", "second"} => job = "observe"
  /\ buildPc = "recover" \/ buildPc \in Settling => job # "none"
  /\ buildPc \in {"portable", "confirm", "second", "accept"} \cup Projection => input \in Sources

StageIsThere ==
  buildPc \in Projection \cup Settling => stage \in 1 .. MaxBuilds /\ stages[stage] \in Build!Stage

\* What the projection has done to the live folder so far.
Projecting ==
  /\ buildPc \in {"mark", "moveOld", "moveNew"} =>
       stages[stage].staged \in Build!Dist /\ stages[stage].staged.stamp = stage
  /\ buildPc \in {"moveOld", "moveNew"} => stages[stage].projecting
  /\ buildPc \in {"verify", "commit"} => live \in Build!Dist /\ live.stamp = stage
  /\ buildPc \in {"moveNew", "rollbackMove"} => live = None
  /\ buildPc = "rollback" /\ live # None => live.stamp = stage
  /\ buildPc \in {"rollback", "rollbackMove"} => fails
  /\ Replaced \/ buildPc \in {"first", "second"} => live \in Build!Dist
  /\ buildPc = "settle" /\ live # None /\ live.stamp = stage => Good(stage)

\* A backup is of a good build, and a commit marker is never wrong.
SoundStage(s, b) == (s.backup # None => Good(s.backup.stamp)) /\ (s.committed => Good(b))
StagesSound == \A b \in 1 .. MaxBuilds : stages[b] # None => SoundStage(stages[b], b)

\* What is not good can be told from its stage, and is there only for the length
\* of a projection or until the recovery.
LiveSound == live # None /\ ~Good(live.stamp) =>
  /\ live.stamp \in 1 .. MaxBuilds /\ stages[live.stamp] # None
  /\ stages[live.stamp].projecting /\ stages[live.stamp].staged = None
  /\ recovered => buildPc \in {"verify", "commit", "rollback"}

\* The dist that a build has replaced but not committed, or the live one.
Kept == IF buildPc \in {"moveNew", "verify", "commit", "rollback", "rollbackMove"}
        THEN stages[stage].backup ELSE live

Untroubled ==
  /\ buildPc \notin Settling
  /\ \A b \in 1 .. MaxBuilds : stages[b] # None => b = stage /\ buildPc \in Projection
  /\ fails => buildPc \in {"rollback", "rollbackMove", "clean"}
  /\ buildPc \in {"mark", "moveOld", "moveNew"} => stages[stage].staged.id = input
  /\ buildPc \in {"verify", "commit", "accept"} \/ Replaced => live # None /\ live.id = input
  /\ verified # {} => Kept # None
  /\ accepted # None /\ ~Replaced => Kept # None /\ Kept.id = accepted

\* Who is under way knows the source of now, and who may be answered by the build
\* that runs knows the source it is made from.
Asked == \A c \in MCCallers : callers[c].st # "idle" => src \in callers[c].seen /\ callers[c].answer = "none"
Joined ==
  job = "build" /\ buildPc \notin Settling \cup {"recover", "capture"} =>
    \A c \in MCCallers : MCKind[c] = "ensure" /\ callers[c].st \in {"observed", "waiting"}
      => input \in callers[c].seen
\* An observation for a caller finds it where it left it.
Served == (job # "observe" => server = None) /\ (server # None => callers[server].st = "asked")
Fresh == Served /\ Asked /\ Joined

NoFailure == counts.faults + counts.crashes = 0

BuildInv ==
  /\ Typed /\ Placed /\ StageIsThere /\ Projecting /\ StagesSound /\ LiveSound
  /\ NoFailure => Untroubled
  /\ Fresh

-----------------------------------------------------------------------------
\* What callers, people and the service do leaves the job and the disk alone.
StaysPut == UNCHANGED <<live, stages, verified, recovered, accepted, job, buildPc, input, stage, fails>>

OnDisk ==
  \/ Build!UndoLive \/ Build!RenameBack \/ Build!RemoveLeft \/ Build!RecoverFails \/ Build!Confirm
  \/ Build!FillStage
  \/ Build!MarkProjection \/ Build!MoveOld \/ Build!MoveNew \/ Build!CommitBuild \/ Build!DropBackup
  \/ Build!Rollback
  \/ Build!RollbackMove \/ Build!RollbackFails \/ Build!CleanStage \/ Build!Crash

\* What takes its turn: the callers and the draft, or the job that runs.
LEMMA Turns == Build!Next =>
  \/ StaysPut \/ (\E c \in MCCallers \cup {None} : Build!StartObserve(c)) \/ Build!StartBuild
  \/ Build!Work \/ Build!Stopped \/ Build!Crash
<1> USE DEF StaysPut, Build!CallerSame, Build!disk, Build!entry, Build!work
<1>1. ASSUME NEW c \in MCCallers,
             Build!Call(c) \/ Build!ObserveNothing(c) \/ Build!ReuseCurrent(c) \/ Build!Rebuild(c) \/ Build!Cancel(c)
      PROVE  StaysPut
  BY <1>1 DEF Build!Call, Build!ObserveNothing, Build!ReuseCurrent, Build!Rebuild, Build!Cancel
<1>2. Build!EditSource \/ Build!Stop \/ Build!Restart => StaysPut
  BY DEF Build!EditSource, Build!Stop, Build!Restart
<1> QED
  BY <1>1, <1>2 DEF Build!Next

\* The steps that touch the folders of the widget.
LEMMA DiskTurns == Build!Next => UNCHANGED <<live, stages, verified>> \/ OnDisk
<1> USE DEF StaysPut, Build!disk, Build!entry, Build!work, Build!RecoverSame, Build!ProjectSame
<1>1. ASSUME NEW c \in MCCallers \cup {None}, Build!StartObserve(c)
      PROVE  UNCHANGED <<live, stages, verified>>
  BY <1>1 DEF Build!StartObserve
<1>2. Build!StartBuild \/ Build!RecoverStage \/ Build!Recovered => UNCHANGED <<live, stages, verified>>
  BY DEF Build!StartBuild, Build!RecoverStage, Build!Recovered
<1>3. Build!Fails \/ Build!Capture \/ Build!Portable \/ Build!Verify => UNCHANGED <<live, stages, verified>>
  BY DEF Build!Fails, Build!Capture, Build!Portable, Build!Verify
<1>4. Build!ReadMarker \/ Build!RequireBuild \/ Build!Accept \/ Build!Stopped
        => UNCHANGED <<live, stages, verified>>
  BY DEF Build!ReadMarker, Build!RequireBuild, Build!Judged, Build!Accept, Build!Stopped
<1>5. Build!Validate("first", "second") \/ Build!Validate("second", "accept")
        => UNCHANGED <<live, stages, verified>>
  BY DEF Build!Validate, Build!Judged
<1> QED
  BY <1>1, <1>2, <1>3, <1>4, <1>5, Turns DEF Build!Work, OnDisk

LEMMA NoneIsApart == Build!BuildAssumption => None \notin Build!Dist /\ None \notin Build!Stage
BY DEF Build!BuildAssumption

LEMMA Zero == Build!BuildAssumption => 0 \in Build!Stamps /\ MaxBuilds \in Nat
BY DEF Build!BuildAssumption, Build!Stamps

LEMMA ScalarsKept ==
  ASSUME Build!BuildAssumption, Scalars, DiskTyped, Placed, StageIsThere, Projecting,
         counts \in Build!Counts, Build!Next
  PROVE  Scalars'
<1> USE DEF Scalars, Projection, BeforeStage, Settling, Build!Go, Build!Now, Build!Then, Build!Idle,
Build!WorkSame, Build!RecoverSame,
            Build!BuildSame, Build!ProjectSame, Build!GiveUp, Build!Undo, Build!CallerSame, Build!disk,
            Build!entry, Build!work
<1>1. ASSUME NEW c \in MCCallers, Build!Call(c) PROVE Scalars'
  BY <1>1, Zero DEF Build!Call
<1>2. ASSUME NEW c \in MCCallers, Build!ObserveNothing(c) PROVE Scalars'
  BY <1>2, Zero DEF Build!ObserveNothing
<1>3. ASSUME NEW c \in MCCallers, Build!ReuseCurrent(c) PROVE Scalars'
  BY <1>3, Zero DEF Build!ReuseCurrent
<1>4. ASSUME NEW c \in MCCallers, Build!Rebuild(c) PROVE Scalars'
  BY <1>4, Zero DEF Build!Rebuild
<1>5. ASSUME NEW c \in MCCallers, Build!Cancel(c) PROVE Scalars'
  BY <1>5, Zero DEF Build!Cancel
<1>6. CASE Build!EditSource
  BY <1>6, Zero DEF Build!EditSource
<1>7. ASSUME NEW c \in MCCallers \cup {None}, Build!StartObserve(c) PROVE Scalars'
  BY <1>7, Zero DEF Build!StartObserve
<1>8. CASE Build!StartBuild
  BY <1>8, Zero DEF Build!StartBuild, Build!Aborted, Build!Settled
<1>9. CASE Build!RecoverStage
  BY <1>9, Zero DEF Build!RecoverStage, Build!Left, Build!Stamps
<1>10. CASE Build!UndoLive
  BY <1>10, Zero DEF Build!UndoLive
<1>11. CASE Build!RenameBack
  BY <1>11, Zero DEF Build!RenameBack
<1>12. CASE Build!RemoveLeft
  BY <1>12, Zero DEF Build!RemoveLeft
<1>13. CASE Build!Recovered
  BY <1>13, Zero DEF Build!Recovered, Build!Left
<1>14. CASE Build!RecoverFails
  BY <1>14, Zero DEF Build!RecoverFails, Build!JobFails, Build!EndWork, Build!Settled, Build!BuildRejected
<1>15. CASE Build!Fails
  BY <1>15, Zero DEF Build!Fails, Build!Aborted, Build!JobFails, Build!EndWork, Build!Settled,
     Build!BuildRejected
<1>16. CASE Build!Capture
  BY <1>16, Zero DEF Build!Capture, Build!Aborted
<1>17. CASE Build!Portable
  BY <1>17, Zero DEF Build!Portable, Build!Aborted
<1>18. CASE Build!Confirm
  BY <1>18, Zero DEF Build!Confirm, Build!Aborted, Build!Count, Build!BuildAssumption, Build!Counts,
     Build!Stamps
<1>19. CASE Build!FillStage
  BY <1>19, Zero DEF Build!FillStage, Build!Aborted
<1>20. CASE Build!MarkProjection
  BY <1>20, Zero DEF Build!MarkProjection, Build!Aborted
<1>21. CASE Build!MoveOld
  BY <1>21, Zero DEF Build!MoveOld
<1>22. CASE Build!MoveNew
  BY <1>22, Zero DEF Build!MoveNew, Build!Aborted
<1>23. CASE Build!Verify
  BY <1>23, Zero DEF Build!Verify, Build!Aborted
<1>24. CASE Build!CommitBuild
  BY <1>24, Zero DEF Build!CommitBuild
<1>25. CASE Build!DropBackup
  BY <1>25, Zero DEF Build!DropBackup
<1>26. CASE Build!Rollback
  BY <1>26, Zero DEF Build!Rollback, Build!Projected
<1>27. CASE Build!RollbackMove
  BY <1>27, Zero DEF Build!RollbackMove
<1>28. CASE Build!RollbackFails
  BY <1>28, Zero DEF Build!RollbackFails, Build!JobFails, Build!EndWork, Build!Settled, Build!BuildRejected
<1>29. CASE Build!CleanStage
  BY <1>29, Zero DEF Build!CleanStage, Build!JobFails, Build!EndWork, Build!Settled, Build!BuildRejected
<1>30. CASE Build!ReadMarker
  BY <1>30, Zero DEF Build!ReadMarker, Build!ObserveEnds, Build!EndWork, DiskTyped, Build!Dist
<1>31. CASE Build!Validate("first", "second") \/ Build!Validate("second", "accept")
  BY <1>31, Zero DEF Build!Validate, Build!Valid, Build!Judged, Build!ObserveEnds, Build!EndWork
<1>32. CASE Build!RequireBuild
  BY <1>32, Zero DEF Build!RequireBuild, Build!Judged, Build!ObserveEnds, Build!EndWork
<1>33. CASE Build!Accept
  BY <1>33, Zero DEF Build!Accept, Build!EndWork, Build!Settled, Build!ObserveEnds, Projecting, Replaced,
     Build!Dist
<1>34. CASE Build!Stop
  BY <1>34, Zero DEF Build!Stop
<1>35. CASE Build!Stopped
  BY <1>35, Zero DEF Build!Stopped, Build!Forget
<1>36. CASE Build!Crash
  BY <1>36, Zero DEF Build!Crash, Build!EndWork, Build!Forget
<1>37. CASE Build!Restart
  BY <1>37, Zero DEF Build!Restart
<1> QED
  BY <1>1, <1>2, <1>3, <1>4, <1>5, <1>6, <1>7, <1>8, <1>9, <1>10, <1>11, <1>12, <1>13, <1>14, <1>15,
     <1>16, <1>17, <1>18, <1>19, <1>20, <1>21, <1>22, <1>23, <1>24, <1>25, <1>26, <1>27, <1>28,
     <1>29, <1>30, <1>31, <1>32, <1>33, <1>34, <1>35, <1>36, <1>37 DEF Build!Next, Build!Work

LEMMA FlagsKept ==
  ASSUME Flags, Build!Next
  PROVE  Flags'
<1> USE DEF Flags, StaysPut, Build!Go, Build!Now, Build!Then, Build!WorkSame, Build!RecoverSame,
Build!BuildSame, Build!ProjectSame, Build!GiveUp, Build!Undo
<1>1. CASE StaysPut
  BY <1>1
<1>2. ASSUME NEW c \in MCCallers \cup {None}, Build!StartObserve(c) PROVE Flags'
  BY <1>2 DEF Build!StartObserve, Build!Idle, Build!disk, Build!entry
<1>3. CASE Build!StartBuild
  BY <1>3 DEF Build!StartBuild, Build!Idle, Build!Aborted, Build!disk
<1>4. CASE Build!RecoverStage
  BY <1>4 DEF Build!RecoverStage, Build!Left
<1>5. CASE Build!UndoLive
  BY <1>5 DEF Build!UndoLive
<1>6. CASE Build!RenameBack
  BY <1>6 DEF Build!RenameBack
<1>7. CASE Build!RemoveLeft
  BY <1>7 DEF Build!RemoveLeft
<1>8. CASE Build!Recovered
  BY <1>8 DEF Build!Recovered, Build!Left
<1>9. CASE Build!RecoverFails
  BY <1>9 DEF Build!RecoverFails, Build!JobFails, Build!EndWork, Build!BuildRejected
<1>10. CASE Build!Fails
  BY <1>10 DEF Build!Fails, Build!Aborted, Build!JobFails, Build!EndWork, Build!BuildRejected
<1>11. CASE Build!Capture
  BY <1>11 DEF Build!Capture, Build!Aborted, Build!disk
<1>12. CASE Build!Portable
  BY <1>12 DEF Build!Portable, Build!Aborted, Build!disk
<1>13. CASE Build!Confirm
  BY <1>13 DEF Build!Confirm, Build!Aborted
<1>14. CASE Build!FillStage
  BY <1>14 DEF Build!FillStage, Build!Aborted
<1>15. CASE Build!MarkProjection
  BY <1>15 DEF Build!MarkProjection, Build!Aborted
<1>16. CASE Build!MoveOld
  BY <1>16 DEF Build!MoveOld
<1>17. CASE Build!MoveNew
  BY <1>17 DEF Build!MoveNew, Build!Aborted
<1>18. CASE Build!Verify
  BY <1>18 DEF Build!Verify, Build!Aborted
<1>19. CASE Build!CommitBuild
  BY <1>19 DEF Build!CommitBuild
<1>20. CASE Build!DropBackup
  BY <1>20 DEF Build!DropBackup
<1>21. CASE Build!Rollback
  BY <1>21 DEF Build!Rollback, Build!Projected
<1>22. CASE Build!RollbackMove
  BY <1>22 DEF Build!RollbackMove
<1>23. CASE Build!RollbackFails
  BY <1>23 DEF Build!RollbackFails, Build!JobFails, Build!EndWork, Build!BuildRejected
<1>24. CASE Build!CleanStage
  BY <1>24 DEF Build!CleanStage, Build!JobFails, Build!EndWork, Build!BuildRejected
<1>25. CASE Build!ReadMarker
  BY <1>25 DEF Build!ReadMarker, Build!ObserveEnds, Build!EndWork
<1>26. CASE Build!Validate("first", "second") \/ Build!Validate("second", "accept")
  BY <1>26 DEF Build!Validate, Build!Valid, Build!disk, Build!entry, Build!Judged, Build!ObserveEnds,
     Build!EndWork
<1>27. CASE Build!RequireBuild
  BY <1>27 DEF Build!RequireBuild, Build!Judged, Build!ObserveEnds, Build!EndWork
<1>28. CASE Build!Accept
  BY <1>28 DEF Build!Accept, Build!EndWork, Build!ObserveEnds
<1>29. CASE Build!Stopped
  BY <1>29 DEF Build!Stopped, Build!Idle, Build!Forget, Build!disk, Build!work
<1>30. CASE Build!Crash
  BY <1>30 DEF Build!Crash, Build!EndWork, Build!Forget
<1> QED
  BY <1>1, <1>2, <1>3, <1>4, <1>5, <1>6, <1>7, <1>8, <1>9, <1>10, <1>11, <1>12, <1>13, <1>14, <1>15,
     <1>16, <1>17, <1>18, <1>19, <1>20, <1>21, <1>22, <1>23, <1>24, <1>25, <1>26, <1>27, <1>28,
     <1>29, <1>30, Turns DEF Build!Work

\* Who fails or crashes is counted.
LEMMA FaultsCount ==
  ASSUME Build!BuildAssumption, counts \in Build!Counts, Build!Fault \/ Build!Count("crashes", BuildCrashes)
  PROVE  counts' \in Build!Counts /\ ~NoFailure'
BY DEF Build!BuildAssumption, Build!Counts, Build!Stamps, Build!Count, Build!Fault, NoFailure

\* The counters keep their bounds, and what failed stays counted.
LEMMA CountsKept ==
  ASSUME Build!BuildAssumption, counts \in Build!Counts, Build!Next
  PROVE  counts' \in Build!Counts /\ (NoFailure' => NoFailure)
<1> USE DEF Build!CallerSame, Build!WorkSame, Build!RecoverSame, Build!ProjectSame, Build!BuildSame
<1>1. CASE UNCHANGED counts
  BY <1>1 DEF NoFailure
<1>2. ASSUME NEW c \in MCCallers,
             Build!Call(c) \/ Build!ObserveNothing(c) \/ Build!ReuseCurrent(c) \/ Build!Rebuild(c) \/ Build!Cancel(c)
      PROVE  UNCHANGED counts \/ Build!Count("calls", MaxCalls)
  BY <1>2 DEF Build!Call, Build!ObserveNothing, Build!ReuseCurrent, Build!Rebuild, Build!Cancel
<1>3. Build!EditSource \/ Build!Stop => Build!Count("edits", SourceEdits) \/ Build!Count("stops", MaxStops)
  BY DEF Build!EditSource, Build!Stop
<1>4. ASSUME NEW c \in MCCallers \cup {None}, Build!StartObserve(c) PROVE UNCHANGED counts
  BY <1>4 DEF Build!StartObserve
<1>5. Build!StartBuild \/ Build!RecoverStage \/ Build!UndoLive \/ Build!RenameBack \/ Build!RemoveLeft
      \/ Build!Recovered
        => UNCHANGED counts
  BY DEF Build!StartBuild, Build!RecoverStage, Build!UndoLive, Build!RenameBack, Build!RemoveLeft,
     Build!Recovered
<1>6. Build!RecoverFails \/ Build!Fails \/ Build!RollbackFails => UNCHANGED counts \/ Build!Fault
  BY DEF Build!RecoverFails, Build!Fails, Build!RollbackFails
<1>7. Build!Confirm => Build!Count("builds", MaxBuilds)
  BY DEF Build!Confirm
<1>8. Build!FillStage \/ Build!MarkProjection \/ Build!MoveOld \/ Build!MoveNew
        => UNCHANGED counts \/ Build!Fault
  BY DEF Build!FillStage, Build!MarkProjection, Build!MoveOld, Build!MoveNew
<1>9. Build!Verify \/ Build!CommitBuild \/ Build!DropBackup \/ Build!CleanStage
        => UNCHANGED counts \/ Build!Fault
  BY DEF Build!Verify, Build!CommitBuild, Build!DropBackup, Build!CleanStage
<1>10. Build!Capture \/ Build!Portable \/ Build!Rollback \/ Build!RollbackMove \/ Build!ReadMarker
       \/ Build!RequireBuild
        => UNCHANGED counts
  BY DEF Build!Capture, Build!Portable, Build!Rollback, Build!RollbackMove, Build!ReadMarker,
     Build!RequireBuild
<1>11. Build!Validate("first", "second") \/ Build!Validate("second", "accept") \/ Build!Accept
        => UNCHANGED counts \/ Build!Fault
  BY DEF Build!Validate, Build!Accept
<1>12. Build!Stopped \/ Build!Crash \/ Build!Restart
        => UNCHANGED counts \/ Build!Count("crashes", BuildCrashes)
  BY DEF Build!Stopped, Build!Crash, Build!Restart
<1>13. \/ UNCHANGED counts \/ Build!Fault \/ Build!Count("calls", MaxCalls) \/ Build!Count("edits", SourceEdits)
       \/ Build!Count("builds", MaxBuilds) \/ Build!Count("stops", MaxStops)
       \/ Build!Count("crashes", BuildCrashes)
  BY <1>2, <1>3, <1>4, <1>5, <1>6, <1>7, <1>8, <1>9, <1>10, <1>11, <1>12 DEF Build!Next, Build!Work
<1>14. CASE Build!Fault \/ Build!Count("crashes", BuildCrashes)
  BY <1>14, FaultsCount
<1>15. CASE \/ Build!Count("calls", MaxCalls) \/ Build!Count("edits", SourceEdits)
            \/ Build!Count("builds", MaxBuilds) \/ Build!Count("stops", MaxStops)
  BY <1>15 DEF Build!BuildAssumption, Build!Counts, Build!Stamps, Build!Count, NoFailure
<1> QED
  BY <1>1, <1>13, <1>14, <1>15

LEMMA AnswersTyped ==
  ASSUME callers \in [MCCallers -> Build!Caller], NEW a \in Sources \cup {"none", "failed", "aborted"}
  PROVE  /\ \A c \in MCCallers : Build!Answered(c, a) \in [MCCallers -> Build!Caller]
         /\ Build!Settled(a) => callers' \in [MCCallers -> Build!Caller]
<1>1. ASSUME NEW c \in MCCallers PROVE Build!Answered(c, a) \in [MCCallers -> Build!Caller]
  BY DEF Build!Answered, Build!Caller
<1>2. ASSUME Build!Settled(a) PROVE callers' \in [MCCallers -> Build!Caller]
  <2>1. ASSUME NEW c \in MCCallers PROVE [callers[c] EXCEPT !.st = "idle", !.answer = a] \in Build!Caller
    BY DEF Build!Caller
  <2> QED
    BY <1>2, <2>1 DEF Build!Settled
<1> QED
  BY <1>1, <1>2

\* The end of a job leaves callers.
LEMMA EndsTyped ==
  ASSUME callers \in [MCCallers -> Build!Caller], server \in MCCallers \cup {None}
  PROVE  Build!JobFails \/ Build!ObserveEnds => callers' \in [MCCallers -> Build!Caller]
<1>1. Build!JobFails => callers' \in [MCCallers -> Build!Caller]
  BY AnswersTyped DEF Build!JobFails
<1>2. Build!ObserveEnds => callers' \in [MCCallers -> Build!Caller]
  BY DEF Build!ObserveEnds, Build!Caller
<1> QED
  BY <1>1, <1>2

LEMMA CallersKept ==
  ASSUME Build!BuildAssumption, Scalars, Placed, Projecting, callers \in [MCCallers -> Build!Caller],
         Build!Next
  PROVE  callers' \in [MCCallers -> Build!Caller]
<1> DEFINE Types == callers' \in [MCCallers -> Build!Caller]
<1> SUFFICES Types
  OBVIOUS
<1>1. CASE UNCHANGED callers
  BY <1>1
<1>2. CASE Build!JobFails \/ Build!ObserveEnds
  BY <1>2, EndsTyped DEF Scalars
<1>3. ASSUME NEW a \in {"failed", "aborted"}, Build!Settled(a) PROVE Types
  BY <1>3, AnswersTyped
<1>4. ASSUME NEW c \in MCCallers, Build!Call(c) \/ Build!ObserveNothing(c) \/ Build!Rebuild(c) \/ Build!Cancel(c)
      PROVE  Types
  <2>1. CASE Build!Call(c)
    BY <2>1 DEF Build!Call, Build!Caller, Scalars
  <2>2. CASE Build!ObserveNothing(c)
    BY <2>2 DEF Build!ObserveNothing, Build!Caller
  <2>3. CASE Build!Rebuild(c)
    <3>1. callers' = Build!Answered(c, "aborted") \/ callers' = [callers EXCEPT ![c].st = "waiting"]
      BY <2>3 DEF Build!Rebuild
    <3>2. [callers EXCEPT ![c].st = "waiting"] \in [MCCallers -> Build!Caller]
      BY DEF Build!Caller
    <3> QED
      BY <3>1, <3>2, AnswersTyped
  <2>4. CASE Build!Cancel(c)
    <3>1. \/ callers' = [callers EXCEPT ![c].cancelled = TRUE]
          \/ callers' = [callers EXCEPT ![c].st = "idle", ![c].answer = "aborted", ![c].cancelled = TRUE]
      BY <2>4 DEF Build!Cancel
    <3>2. /\ [callers EXCEPT ![c].cancelled = TRUE] \in [MCCallers -> Build!Caller]
          /\ [callers EXCEPT ![c].st = "idle", ![c].answer = "aborted", ![c].cancelled = TRUE]
               \in [MCCallers -> Build!Caller]
      BY DEF Build!Caller
    <3> QED
      BY <3>1, <3>2
  <2> QED
    BY <1>4, <2>1, <2>2, <2>3, <2>4
<1>5. ASSUME NEW c \in MCCallers, Build!ReuseCurrent(c) PROVE Types
  BY <1>5, AnswersTyped DEF Build!ReuseCurrent, Scalars
<1>6. CASE Build!EditSource
  BY <1>6 DEF Build!EditSource, Build!Caller, Scalars
<1>7. CASE Build!Stopped \/ Build!Crash
  <2>1. Build!Quiet \in Build!Caller
    BY DEF Build!Quiet, Build!Caller
  <2> QED
    BY <1>7, <2>1 DEF Build!Stopped, Build!Crash, Build!Forget
<1>8. ASSUME NEW c \in MCCallers \cup {None}, Build!StartObserve(c) PROVE UNCHANGED callers
  BY <1>8 DEF Build!StartObserve
<1>9. Build!StartBuild => UNCHANGED callers \/ Build!Settled("aborted")
  BY DEF Build!StartBuild
<1>10. Build!RecoverStage \/ Build!UndoLive \/ Build!RenameBack \/ Build!RemoveLeft \/ Build!Recovered
        => UNCHANGED callers
  BY DEF Build!RecoverStage, Build!UndoLive, Build!RenameBack, Build!RemoveLeft, Build!Recovered,
     Build!RecoverSame
<1>11. Build!RecoverFails \/ Build!Fails \/ Build!RollbackFails => Build!JobFails
  BY DEF Build!RecoverFails, Build!Fails, Build!RollbackFails
<1>12. Build!Capture \/ Build!Portable \/ Build!Confirm \/ Build!CommitBuild => UNCHANGED callers
  BY DEF Build!Capture, Build!Portable, Build!Confirm, Build!CommitBuild, Build!BuildSame
<1>13. Build!FillStage \/ Build!MarkProjection \/ Build!MoveOld \/ Build!MoveNew \/ Build!Verify \/ Build!DropBackup \/ Build!Rollback
         \/ Build!RollbackMove => UNCHANGED callers
  BY DEF Build!FillStage, Build!MarkProjection, Build!MoveOld, Build!MoveNew, Build!Verify,
     Build!DropBackup, Build!Rollback, Build!RollbackMove,
         Build!ProjectSame, Build!BuildSame
<1>14. Build!CleanStage => UNCHANGED callers \/ Build!JobFails
  BY DEF Build!CleanStage, Build!BuildSame
<1>15. Build!ReadMarker \/ Build!RequireBuild => UNCHANGED callers \/ Build!ObserveEnds
  BY DEF Build!ReadMarker, Build!RequireBuild, Build!Judged
<1>16. Build!Validate("first", "second") \/ Build!Validate("second", "accept")
        => UNCHANGED callers \/ Build!ObserveEnds
  BY DEF Build!Validate, Build!Judged
<1>17. CASE Build!Accept
  BY <1>17, <1>2, <1>3, AnswersTyped DEF Build!Accept, Placed
<1>18. Build!Stop \/ Build!Restart => UNCHANGED callers
  BY DEF Build!Stop, Build!Restart, Build!CallerSame
<1> HIDE DEF Types
<1>19. CASE \E c \in MCCallers :
        Build!Call(c) \/ Build!ObserveNothing(c) \/ Build!ReuseCurrent(c) \/ Build!Rebuild(c) \/ Build!Cancel(c)
  BY <1>4, <1>5, <1>19
<1>20. CASE Build!Work
  <2>1. UNCHANGED callers \/ Build!JobFails \/ Build!ObserveEnds \/ Build!Accept
    BY <1>10, <1>11, <1>12, <1>13, <1>14, <1>15, <1>16, <1>20 DEF Build!Work
  <2> QED
    BY <1>1, <1>2, <1>17, <2>1
<1>21. CASE Build!StartBuild \/ \E c \in MCCallers \cup {None} : Build!StartObserve(c)
  BY <1>1, <1>3, <1>8, <1>9, <1>21
<1>22. CASE Build!EditSource \/ Build!Stop \/ Build!Stopped \/ Build!Crash \/ Build!Restart
  BY <1>1, <1>6, <1>7, <1>18, <1>22
<1> QED
  BY <1>19, <1>20, <1>21, <1>22 DEF Build!Next

\* A field of a stage is replaced by another of its type.
LEMMA StageUpdates ==
  ASSUME DiskTyped, NEW b \in 1 .. MaxBuilds, stages[b] \in Build!Stage, NEW d \in Build!Dist \cup {None}
  PROVE  /\ [stages EXCEPT ![b] = None] \in [1 .. MaxBuilds -> Build!Stage \cup {None}]
         /\ [stages EXCEPT ![b].staged = d] \in [1 .. MaxBuilds -> Build!Stage \cup {None}]
         /\ [stages EXCEPT ![b].backup = d] \in [1 .. MaxBuilds -> Build!Stage \cup {None}]
         /\ [stages EXCEPT ![b].projecting = TRUE] \in [1 .. MaxBuilds -> Build!Stage \cup {None}]
         /\ [stages EXCEPT ![b].committed = TRUE] \in [1 .. MaxBuilds -> Build!Stage \cup {None}]
<1> DEFINE S == [1 .. MaxBuilds -> Build!Stage \cup {None}]
<1>1. [stages EXCEPT ![b] = None] \in S
  BY DEF DiskTyped
<1>2. PICK s \in Build!Stage : s = stages[b]
  OBVIOUS
<1>3. /\ [s EXCEPT !.staged = d] \in Build!Stage /\ [s EXCEPT !.backup = d] \in Build!Stage
      /\ [s EXCEPT !.projecting = TRUE] \in Build!Stage /\ [s EXCEPT !.committed = TRUE] \in Build!Stage
  BY DEF Build!Stage
<1>4. ASSUME NEW t \in Build!Stage PROVE [stages EXCEPT ![b] = t] \in S
  BY DEF DiskTyped
<1>5. /\ [stages EXCEPT ![b].staged = d] = [stages EXCEPT ![b] = [s EXCEPT !.staged = d]]
      /\ [stages EXCEPT ![b].backup = d] = [stages EXCEPT ![b] = [s EXCEPT !.backup = d]]
      /\ [stages EXCEPT ![b].projecting = TRUE] = [stages EXCEPT ![b] = [s EXCEPT !.projecting = TRUE]]
      /\ [stages EXCEPT ![b].committed = TRUE] = [stages EXCEPT ![b] = [s EXCEPT !.committed = TRUE]]
  BY <1>2
<1> QED
  BY <1>1, <1>3, <1>4, <1>5

\* What is left of a stage whose removal stopped has less than the stage.
LEMMA RemainsTyped ==
  ASSUME NEW s \in Build!Stage, NEW r \in Build!Remains(s)
  PROVE  /\ r \in Build!Stage /\ r.id = s.id
         /\ r.staged \in {None, s.staged} /\ (r.committed => s.committed)
         /\ r.backup # None => s.backup # None /\ r.backup.stamp = s.backup.stamp
<1>1. /\ r.id = s.id /\ r.staged \in {None, s.staged} /\ r.projecting \in {FALSE, s.projecting}
      /\ r.committed \in {FALSE, s.committed}
      /\ r.backup \in {None, s.backup} \cup (IF s.backup = None THEN {} ELSE {Build!Torn(s.backup)})
      /\ r = [id |-> r.id, staged |-> r.staged, backup |-> r.backup,
              projecting |-> r.projecting, committed |-> r.committed]
  BY DEF Build!Remains
<1>2. r.backup # None => s.backup # None /\ r.backup.stamp = s.backup.stamp /\ r.backup \in Build!Dist
  BY <1>1 DEF Build!Torn, Build!Stage, Build!Dist
<1>3. r.committed \in BOOLEAN /\ r.projecting \in BOOLEAN /\ (r.committed => s.committed)
  BY <1>1 DEF Build!Stage
<1>4. s.id \in Sources /\ r.staged \in Build!Dist \cup {None} /\ r.backup \in Build!Dist \cup {None}
  BY <1>1, <1>2 DEF Build!Stage
<1>5. r \in Build!Stage
  BY <1>1, <1>3, <1>4 DEF Build!Stage
<1> QED
  BY <1>1, <1>2, <1>3, <1>5

\* An interrupted step leaves folders.
LEMMA InterruptedTyped ==
  ASSUME DiskTyped,
         buildPc \in Projection \cup Settling => stage \in 1 .. MaxBuilds /\ stages[stage] \in Build!Stage,
         Build!Interrupted
  PROVE  live' \in Build!Dist \cup {None} /\ stages' \in [1 .. MaxBuilds -> Build!Stage \cup {None}]
<1>1. ASSUME NEW d \in Build!Dist PROVE Build!Torn(d) \in Build!Dist
  BY DEF Build!Torn, Build!Dist
<1>2. CASE buildPc \in {"undo", "rollback"} /\ live # None /\ live' \in {live, Build!Torn(live), None} /\ UNCHANGED stages
  BY <1>1, <1>2 DEF DiskTyped
<1>3. CASE /\ buildPc \in {"settle", "clean"} /\ UNCHANGED live
           /\ \E r \in Build!Remains(stages[stage]) : stages' = [stages EXCEPT ![stage] = r]
  BY <1>3, RemainsTyped DEF DiskTyped, Projection, Settling
<1>4. CASE /\ buildPc = "drop" /\ stages[stage].backup # None /\ UNCHANGED live
           /\ stages' = [stages EXCEPT ![stage].backup = Build!Torn(@)]
  <2>1. /\ stage \in 1 .. MaxBuilds /\ stages[stage] \in Build!Stage
        /\ Build!Torn(stages[stage].backup) \in Build!Dist
    BY <1>1, <1>4 DEF Projection, Build!Stage
  <2> QED
    BY <1>4, <2>1, StageUpdates DEF DiskTyped
<1>5. CASE UNCHANGED <<live, stages>>
  BY <1>5 DEF DiskTyped
<1> QED
  BY <1>2, <1>3, <1>4, <1>5 DEF Build!Interrupted

\* The folders stay what they are, over every projection, recovery and failure.
LEMMA DiskKept ==
  ASSUME Build!BuildAssumption, Scalars, DiskTyped, Placed, StageIsThere, Projecting,
         counts \in Build!Counts, Build!Next
  PROVE  DiskTyped'
<1> USE DEF Build!Go, Build!Now, Build!Then, Build!GiveUp, Build!Undo, Build!WorkSame, Build!RecoverSame,
Build!ProjectSame, Build!BuildSame, DiskTyped,
            Projection, Settling
<1>1. CASE UNCHANGED <<live, stages, verified>>
  BY <1>1, StageUpdates
<1>2. CASE Build!UndoLive
  BY <1>2, StageUpdates DEF Build!UndoLive, StageIsThere
<1>3. CASE Build!RenameBack
  <2>1. stage \in 1 .. MaxBuilds /\ stages[stage] \in Build!Stage
    BY <1>3 DEF StageIsThere, Build!RenameBack
  <2>2. stages[stage].backup \in Build!Dist \cup {None}
    BY <2>1 DEF Build!Stage
  <2> QED
    BY <1>3, <2>1, <2>2, StageUpdates DEF Build!RenameBack
<1>4. CASE Build!RemoveLeft
  BY <1>4, StageUpdates DEF Build!RemoveLeft, StageIsThere
<1>5. CASE Build!RecoverFails
  BY <1>5, InterruptedTyped, StageUpdates DEF Build!RecoverFails, StageIsThere
<1>6. CASE Build!Confirm
  <2>1. counts.builds + 1 \in 1 .. MaxBuilds
    BY <1>6 DEF Build!Confirm, Build!Count, Build!Counts, Build!Stamps, Build!BuildAssumption
  <2>2. [id |-> input, staged |-> None, backup |-> None, projecting |-> FALSE, committed |-> FALSE] \in Build!Stage
    BY <1>6 DEF Build!Confirm, Placed, Build!Stage
  <2> QED
    BY <1>6, <2>1, <2>2 DEF Build!Confirm
<1>7. CASE Build!FillStage
  <2>1. stage \in 1 .. MaxBuilds /\ stages[stage] \in Build!Stage
    BY <1>7 DEF StageIsThere, Build!FillStage
  <2>2. /\ [id |-> input, stamp |-> stage, whole |-> TRUE] \in Build!Dist /\ UNCHANGED live
        /\ stages' \in {stages, [stages EXCEPT ![stage].staged = [id |-> input, stamp |-> stage, whole |-> TRUE]]}
    BY <1>7 DEF Placed, Scalars, Build!FillStage, Build!Dist
  <2>3. [stages EXCEPT ![stage].staged = [id |-> input, stamp |-> stage, whole |-> TRUE]] \in [1 .. MaxBuilds -> Build!Stage \cup {None}]
    BY <2>1, <2>2, StageUpdates
  <2>4. UNCHANGED verified
    BY <1>7 DEF Build!FillStage
  <2> QED
    BY <2>2, <2>3, <2>4
<1>8. CASE Build!MarkProjection
  BY <1>8, StageUpdates DEF Build!MarkProjection, StageIsThere
<1>9. CASE Build!MoveOld
  <2>1. stage \in 1 .. MaxBuilds /\ stages[stage] \in Build!Stage
    BY <1>9 DEF StageIsThere, Build!MoveOld
  <2>2. live' \in {live, None} /\ stages' \in {stages, [stages EXCEPT ![stage].backup = live]}
    BY <1>9 DEF Build!MoveOld
  <2>3. [stages EXCEPT ![stage].backup = live] \in [1 .. MaxBuilds -> Build!Stage \cup {None}]
    BY <2>1, <2>2, StageUpdates
  <2>4. UNCHANGED verified
    BY <1>9 DEF Build!MoveOld
  <2> QED
    BY <2>2, <2>3, <2>4
<1>10. CASE Build!MoveNew
  <2>1. stage \in 1 .. MaxBuilds /\ stages[stage] \in Build!Stage
    BY <1>10 DEF StageIsThere, Build!MoveNew
  <2>2. /\ live' \in {live, stages[stage].staged}
        /\ stages' \in {stages, [stages EXCEPT ![stage].staged = None]}
        /\ stages[stage].staged \in Build!Dist \cup {None}
    BY <1>10, <2>1 DEF Build!MoveNew, Build!Stage
  <2>3. [stages EXCEPT ![stage].staged = None] \in [1 .. MaxBuilds -> Build!Stage \cup {None}]
    BY <2>1, <2>2, StageUpdates
  <2>4. UNCHANGED verified
    BY <1>10 DEF Build!MoveNew
  <2> QED
    BY <2>2, <2>3, <2>4
<1>11. CASE Build!CommitBuild
  <2>1. stage \in 1 .. MaxBuilds /\ stages[stage] \in Build!Stage
    BY <1>11 DEF StageIsThere, Build!CommitBuild
  <2>2. live \in Build!Dist
    BY <1>11 DEF Projecting, Build!CommitBuild
  <2> QED
    BY <1>11, <2>1, <2>2, StageUpdates DEF Build!CommitBuild
<1>12. CASE Build!DropBackup
  <2>1. stage \in 1 .. MaxBuilds /\ stages[stage] \in Build!Stage
    BY <1>12 DEF StageIsThere, Build!DropBackup
  <2>2. PICK d \in {None, stages[stage].backup, Build!Torn(stages[stage].backup)} :
             stages' = [stages EXCEPT ![stage].backup = d] /\ (d # None => stages[stage].backup # None)
    BY <1>12 DEF Build!DropBackup
  <2>3. stages[stage].backup # None => stages[stage].backup \in Build!Dist /\ Build!Torn(stages[stage].backup) \in Build!Dist
    BY <2>1 DEF Build!Stage, Build!Dist, Build!Torn
  <2>4. d \in Build!Dist \cup {None} /\ UNCHANGED <<live, verified>>
    BY <1>12, <2>2, <2>3 DEF Build!DropBackup
  <2> QED
    BY <2>1, <2>2, <2>4, StageUpdates
<1>13. CASE Build!Rollback
  BY <1>13, StageUpdates DEF Build!Rollback, Build!Projected, StageIsThere
<1>14. CASE Build!RollbackMove
  <2>1. stage \in 1 .. MaxBuilds /\ stages[stage] \in Build!Stage
    BY <1>14 DEF StageIsThere, Build!RollbackMove
  <2>2. stages[stage].backup \in Build!Dist \cup {None}
    BY <2>1 DEF Build!Stage
  <2> QED
    BY <1>14, <2>1, <2>2, StageUpdates DEF Build!RollbackMove
<1>15. CASE Build!RollbackFails
  <2>1. stage \in 1 .. MaxBuilds /\ stages[stage] \in Build!Stage
    BY <1>15 DEF StageIsThere, Build!RollbackFails
  <2>2. stages[stage].backup \in Build!Dist \cup {None}
    BY <2>1 DEF Build!Stage
  <2>3. CASE Build!Interrupted
    BY <1>15, <2>1, <2>3, InterruptedTyped DEF Build!RollbackFails
  <2>4. CASE ~Build!Interrupted
    <3>1. /\ live' \in {live, stages[stage].backup} /\ UNCHANGED verified
          /\ stages' \in {stages, [stages EXCEPT ![stage].backup = None]}
      BY <1>15, <2>4 DEF Build!RollbackFails
    <3>2. [stages EXCEPT ![stage].backup = None] \in [1 .. MaxBuilds -> Build!Stage \cup {None}]
      BY <2>1, StageUpdates
    <3> QED
      BY <2>2, <3>1, <3>2
  <2> QED
    BY <2>3, <2>4
<1>16. CASE Build!CleanStage
  BY <1>16, InterruptedTyped, StageUpdates DEF Build!CleanStage, StageIsThere
<1>17. CASE Build!Crash
  BY <1>17, InterruptedTyped, StageUpdates DEF Build!Crash, StageIsThere
<1> QED
  BY <1>1, <1>2, <1>3, <1>4, <1>5, <1>6, <1>7, <1>8, <1>9, <1>10, <1>11, <1>12, <1>13, <1>14, <1>15,
     <1>16, <1>17 , DiskTurns DEF OnDisk

LEMMA StageStays ==
  ASSUME DiskTyped, NEW b \in 1 .. MaxBuilds, stages[b] \in Build!Stage, NEW d \in Build!Dist \cup {None}
  PROVE  /\ [stages EXCEPT ![b].staged = d][b] \in Build!Stage
         /\ [stages EXCEPT ![b].backup = d][b] \in Build!Stage
         /\ [stages EXCEPT ![b].projecting = TRUE][b] \in Build!Stage
         /\ [stages EXCEPT ![b].committed = TRUE][b] \in Build!Stage
BY DEF DiskTyped, Build!Stage

\* A job has what its next step works on, also when its caller or the draft moves on.
LEMMA PlacedKept ==
  ASSUME Build!BuildAssumption, Scalars, Flags, DiskTyped, Placed, StageIsThere, Projecting,
         counts \in Build!Counts, Build!Next
  PROVE  Placed'
<1> USE DEF Placed, Projection, BeforeStage, Settling, StaysPut, Build!Go, Build!Now, Build!Then,
Build!GiveUp, Build!Undo, Build!WorkSame,
            Build!RecoverSame, Build!ProjectSame, Build!BuildSame
<1>1. CASE StaysPut
  BY <1>1
<1>2. ASSUME NEW c \in MCCallers \cup {None}, Build!StartObserve(c) PROVE Placed'
  BY <1>2 DEF Build!StartObserve, Build!Idle, Build!disk, Build!entry
<1>3. CASE Build!StartBuild
  BY <1>3 DEF Build!StartBuild, Build!Idle, Build!disk
<1>4. CASE Build!RecoverStage
  BY <1>4 DEF Build!RecoverStage, Build!Left, DiskTyped
<1>5. CASE Build!UndoLive
  BY <1>5 DEF Build!UndoLive
<1>6. CASE Build!RenameBack
  BY <1>6 DEF Build!RenameBack
<1>7. CASE Build!RemoveLeft
  BY <1>7 DEF Build!RemoveLeft
<1>8. CASE Build!Recovered
  BY <1>8 DEF Build!Recovered, Build!Left, Scalars
<1>9. CASE Build!RecoverFails
  BY <1>9 DEF Build!RecoverFails, Build!JobFails, Build!EndWork
<1>10. CASE Build!Fails
  BY <1>10 DEF Build!Fails, Build!JobFails, Build!EndWork
<1>11. CASE Build!Capture
  BY <1>11 DEF Build!Capture, Build!disk, Scalars
<1>12. CASE Build!Portable
  BY <1>12 DEF Build!Portable, Build!disk
<1>13. CASE Build!Confirm
  BY <1>13 DEF Build!Confirm
<1>14. CASE Build!FillStage
  BY <1>14 DEF Build!FillStage
<1>15. CASE Build!MarkProjection
  BY <1>15 DEF Build!MarkProjection
<1>16. CASE Build!MoveOld
  BY <1>16 DEF Build!MoveOld
<1>17. CASE Build!MoveNew
  BY <1>17 DEF Build!MoveNew
<1>18. CASE Build!Verify
  BY <1>18 DEF Build!Verify
<1>19. CASE Build!CommitBuild
  BY <1>19 DEF Build!CommitBuild
<1>20. CASE Build!DropBackup
  BY <1>20 DEF Build!DropBackup
<1>21. CASE Build!Rollback
  BY <1>21 DEF Build!Rollback, Build!Projected
<1>22. CASE Build!RollbackMove
  BY <1>22 DEF Build!RollbackMove
<1>23. CASE Build!RollbackFails
  BY <1>23 DEF Build!RollbackFails, Build!JobFails, Build!EndWork
<1>24. CASE Build!CleanStage
  BY <1>24 DEF Build!CleanStage, Build!JobFails, Build!EndWork
<1>25. CASE Build!ReadMarker
  BY <1>25 DEF Build!ReadMarker, Build!ObserveEnds, Build!EndWork
<1>26. CASE Build!Validate("first", "second") \/ Build!Validate("second", "accept")
  BY <1>26 DEF Build!Validate, Build!Valid, Build!disk, Build!entry, Build!Judged, Build!ObserveEnds,
     Build!EndWork, Projecting, Build!Dist
<1>27. CASE Build!RequireBuild
  BY <1>27 DEF Build!RequireBuild, Build!Judged, Build!ObserveEnds, Build!EndWork
<1>28. CASE Build!Accept
  BY <1>28 DEF Build!Accept, Build!EndWork, Build!ObserveEnds
<1>29. CASE Build!Stopped
  BY <1>29 DEF Build!Stopped, Build!Idle, Build!disk, Build!work
<1>30. CASE Build!Crash
  BY <1>30 DEF Build!Crash, Build!EndWork
<1> QED
  BY <1>1, <1>2, <1>3, <1>4, <1>5, <1>6, <1>7, <1>8, <1>9, <1>10, <1>11, <1>12, <1>13, <1>14, <1>15,
     <1>16, <1>17, <1>18, <1>19, <1>20, <1>21, <1>22, <1>23, <1>24, <1>25, <1>26, <1>27, <1>28,
     <1>29, <1>30, Turns DEF Build!Work

\* The stage of a job is there as long as the job works on it.
LEMMA StageKept ==
  ASSUME Build!BuildAssumption, Scalars, Flags, DiskTyped, Placed, StageIsThere, Projecting,
         counts \in Build!Counts, Build!Next
  PROVE  StageIsThere'
<1> USE DEF StageIsThere, Projection, Settling, BeforeStage, StaysPut, Build!Go, Build!Now, Build!Then,
Build!GiveUp, Build!Undo,
            Build!WorkSame, Build!RecoverSame, Build!ProjectSame, Build!BuildSame
<1>1. CASE StaysPut
  BY <1>1
<1>2. ASSUME NEW c \in MCCallers \cup {None}, Build!StartObserve(c) PROVE StageIsThere'
  BY <1>2 DEF Build!StartObserve, Build!Idle, Build!disk, Build!entry
<1>3. CASE Build!StartBuild
  BY <1>3 DEF Build!StartBuild, Build!Idle, Build!disk
<1>4. CASE Build!RecoverStage
  BY <1>4 DEF Build!RecoverStage, Build!Left, DiskTyped
<1>5. CASE Build!UndoLive
  BY <1>5 DEF Build!UndoLive
<1>6. CASE Build!RenameBack
  <2>1. stage \in 1 .. MaxBuilds /\ stages[stage] \in Build!Stage
    BY <1>6 DEF Build!RenameBack
  <2>2. /\ stages' \in {stages, [stages EXCEPT ![stage].backup = None]}
        /\ UNCHANGED stage
    BY <1>6 DEF Build!RenameBack
  <2>4. [stages EXCEPT ![stage].backup = None][stage] \in Build!Stage
    BY <2>1, StageStays
  <2> QED
    BY <2>1, <2>2, <2>4
<1>7. CASE Build!RemoveLeft
  BY <1>7 DEF Build!RemoveLeft
<1>8. CASE Build!Recovered
  BY <1>8 DEF Build!Recovered, Build!Left
<1>9. CASE Build!RecoverFails
  BY <1>9 DEF Build!RecoverFails, Build!JobFails, Build!EndWork
<1>10. CASE Build!Fails
  BY <1>10 DEF Build!Fails, Build!JobFails, Build!EndWork
<1>11. CASE Build!Capture
  BY <1>11 DEF Build!Capture, Build!disk
<1>12. CASE Build!Portable
  BY <1>12 DEF Build!Portable, Build!disk
<1>13. CASE Build!Confirm
  <2>1. counts.builds + 1 \in 1 .. MaxBuilds
    BY <1>13 DEF Build!Confirm, Build!Count, Build!Counts, Build!Stamps, Build!BuildAssumption
  <2>2. [id |-> input, staged |-> None, backup |-> None, projecting |-> FALSE, committed |-> FALSE] \in Build!Stage
    BY <1>13 DEF Build!Confirm, Placed, Build!Stage
  <2> QED
    BY <1>13, <2>1, <2>2 DEF Build!Confirm, DiskTyped
<1>14. CASE Build!FillStage
  <2>1. stage \in 1 .. MaxBuilds /\ stages[stage] \in Build!Stage
    BY <1>14 DEF Build!FillStage
  <2>2. /\ stages' \in {stages, [stages EXCEPT ![stage].staged = [id |-> input, stamp |-> stage, whole |-> TRUE]]}
        /\ UNCHANGED stage
    BY <1>14 DEF Build!FillStage
  <2>3. [id |-> input, stamp |-> stage, whole |-> TRUE] \in Build!Dist
    BY <1>14 DEF Build!FillStage, Placed, Build!Dist, Scalars
  <2>4. [stages EXCEPT ![stage].staged = [id |-> input, stamp |-> stage, whole |-> TRUE]][stage] \in Build!Stage
    BY <2>1, <2>3, StageStays
  <2> QED
    BY <2>1, <2>2, <2>4
<1>15. CASE Build!MarkProjection
  <2>1. stage \in 1 .. MaxBuilds /\ stages[stage] \in Build!Stage
    BY <1>15 DEF Build!MarkProjection
  <2>2. /\ stages' \in {stages, [stages EXCEPT ![stage].projecting = TRUE]}
        /\ UNCHANGED stage
    BY <1>15 DEF Build!MarkProjection
  <2>4. [stages EXCEPT ![stage].projecting = TRUE][stage] \in Build!Stage
    BY <2>1, StageStays
  <2> QED
    BY <2>1, <2>2, <2>4
<1>16. CASE Build!MoveOld
  <2>1. stage \in 1 .. MaxBuilds /\ stages[stage] \in Build!Stage
    BY <1>16 DEF Build!MoveOld
  <2>2. /\ stages' \in {stages, [stages EXCEPT ![stage].backup = live]}
        /\ UNCHANGED stage
    BY <1>16 DEF Build!MoveOld
  <2>4. [stages EXCEPT ![stage].backup = live][stage] \in Build!Stage
    BY <2>1, StageStays DEF DiskTyped
  <2> QED
    BY <2>1, <2>2, <2>4
<1>17. CASE Build!MoveNew
  <2>1. stage \in 1 .. MaxBuilds /\ stages[stage] \in Build!Stage
    BY <1>17 DEF Build!MoveNew
  <2>2. /\ stages' \in {stages, [stages EXCEPT ![stage].staged = None]}
        /\ UNCHANGED stage
    BY <1>17 DEF Build!MoveNew
  <2>4. [stages EXCEPT ![stage].staged = None][stage] \in Build!Stage
    BY <2>1, StageStays
  <2> QED
    BY <2>1, <2>2, <2>4
<1>18. CASE Build!Verify
  BY <1>18 DEF Build!Verify
<1>19. CASE Build!CommitBuild
  <2>1. stage \in 1 .. MaxBuilds /\ stages[stage] \in Build!Stage
    BY <1>19 DEF Build!CommitBuild
  <2>2. /\ stages' \in {stages, [stages EXCEPT ![stage].committed = TRUE]}
        /\ UNCHANGED stage
    BY <1>19 DEF Build!CommitBuild
  <2>4. [stages EXCEPT ![stage].committed = TRUE][stage] \in Build!Stage
    BY <2>1, StageStays
  <2> QED
    BY <2>1, <2>2, <2>4
<1>20. CASE Build!DropBackup
  <2>1. stage \in 1 .. MaxBuilds /\ stages[stage] \in Build!Stage
    BY <1>20 DEF Build!DropBackup
  <2>2. \/ stages' = [stages EXCEPT ![stage].backup = None] /\ UNCHANGED stage
        \/ buildPc' = "accept"
    BY <1>20 DEF Build!DropBackup
  <2>3. [stages EXCEPT ![stage].backup = None][stage] \in Build!Stage
    BY <2>1, StageStays
  <2> QED
    BY <2>1, <2>2, <2>3
<1>21. CASE Build!Rollback
  BY <1>21 DEF Build!Rollback, Build!Projected
<1>22. CASE Build!RollbackMove
  <2>1. stage \in 1 .. MaxBuilds /\ stages[stage] \in Build!Stage
    BY <1>22 DEF Build!RollbackMove
  <2>2. /\ stages' \in {stages, [stages EXCEPT ![stage].backup = None]}
        /\ UNCHANGED stage
    BY <1>22 DEF Build!RollbackMove
  <2>4. [stages EXCEPT ![stage].backup = None][stage] \in Build!Stage
    BY <2>1, StageStays
  <2> QED
    BY <2>1, <2>2, <2>4
<1>23. CASE Build!RollbackFails
  BY <1>23 DEF Build!RollbackFails, Build!JobFails, Build!EndWork
<1>24. CASE Build!CleanStage
  BY <1>24 DEF Build!CleanStage, Build!JobFails, Build!EndWork
<1>25. CASE Build!ReadMarker
  BY <1>25 DEF Build!ReadMarker, Build!ObserveEnds, Build!EndWork
<1>26. CASE Build!Validate("first", "second") \/ Build!Validate("second", "accept")
  BY <1>26 DEF Build!Validate, Build!Valid, Build!disk, Build!entry, Build!Judged, Build!ObserveEnds,
     Build!EndWork
<1>27. CASE Build!RequireBuild
  BY <1>27 DEF Build!RequireBuild, Build!Judged, Build!ObserveEnds, Build!EndWork
<1>28. CASE Build!Accept
  BY <1>28 DEF Build!Accept, Build!EndWork, Build!ObserveEnds
<1>29. CASE Build!Stopped
  BY <1>29 DEF Build!Stopped, Build!Idle, Build!disk, Build!work
<1>30. CASE Build!Crash
  BY <1>30 DEF Build!Crash, Build!EndWork
<1> QED
  BY <1>1, <1>2, <1>3, <1>4, <1>5, <1>6, <1>7, <1>8, <1>9, <1>10, <1>11, <1>12, <1>13, <1>14, <1>15,
     <1>16, <1>17, <1>18, <1>19, <1>20, <1>21, <1>22, <1>23, <1>24, <1>25, <1>26, <1>27, <1>28,
     <1>29, <1>30, Turns DEF Build!Work

\* From one rename to the next it is known what is live and what was staged.
LEMMA ProjectingKept ==
  ASSUME Build!BuildAssumption, Scalars, Flags, DiskTyped, Placed, StageIsThere, Projecting,
         counts \in Build!Counts, StagesSound, LiveSound, Build!Next
  PROVE  Projecting'
<1> USE DEF Projecting, Projection, Settling, BeforeStage, Replaced, Good, StaysPut, Build!Go, Build!Now,
Build!Then, Build!GiveUp,
            Build!Undo, Build!WorkSame, Build!RecoverSame, Build!ProjectSame, Build!BuildSame
<1>1. CASE StaysPut
  BY <1>1 DEF StageIsThere, DiskTyped, Placed
<1>2. ASSUME NEW c \in MCCallers \cup {None}, Build!StartObserve(c) PROVE Projecting'
  BY <1>2 DEF Build!StartObserve, Build!Idle, Build!disk, Build!entry, StageIsThere, DiskTyped, Placed
<1>3. CASE Build!StartBuild
  BY <1>3 DEF Build!StartBuild, Build!Idle, Build!disk, StageIsThere, DiskTyped, Placed
<1>4. CASE Build!RecoverStage
  <2>1. UNCHANGED <<live, stages, verified>>
    BY <1>4 DEF Build!RecoverStage
  <2>2. PICK b \in Build!Left :
          /\ stage' = b
          /\ buildPc' = IF Build!CommittedAndLive(stages[b]) THEN "settle"
                   ELSE IF stages[b].backup # None THEN IF live = None THEN "rename" ELSE "undo"
                   ELSE IF stages[b].projecting /\ stages[b].staged = None /\ live # None THEN "undo"
                   ELSE "settle"
    BY <1>4 DEF Build!RecoverStage
  <2>3. /\ b \in 1 .. MaxBuilds /\ stages[b] # None /\ stage' = b /\ buildPc' \in Settling
        /\ buildPc' = "settle" /\ live # None /\ ~Build!CommittedAndLive(stages[b])
             => ~(stages[b].projecting /\ stages[b].staged = None)
    BY <2>2 DEF Build!Left
  <2>4. ASSUME buildPc' = "settle", live # None, live.stamp = b PROVE Good(b)
    BY <2>3, <2>4 DEF Build!CommittedAndLive, StagesSound, SoundStage, LiveSound
  <2> QED
    BY <2>1, <2>3, <2>4
<1>5. CASE Build!UndoLive
  BY <1>5 DEF Build!UndoLive, StageIsThere, DiskTyped, Placed
<1>6. CASE Build!RenameBack
  <2>1. /\ stage \in 1 .. MaxBuilds /\ stages[stage] \in Build!Stage
        /\ live' = stages[stage].backup /\ buildPc' = "settle" /\ UNCHANGED <<stage, verified>>
    BY <1>6 DEF Build!RenameBack, StageIsThere
  <2>2. live' # None => Good(live'.stamp)
    BY <2>1, NoneIsApart DEF StagesSound, SoundStage
  <2> QED
    BY <2>1, <2>2
<1>7. CASE Build!RemoveLeft
  BY <1>7 DEF Build!RemoveLeft, StageIsThere, DiskTyped, Placed
<1>8. CASE Build!Recovered
  BY <1>8 DEF Build!Recovered, Build!Left, StageIsThere, DiskTyped, Placed
<1>9. CASE Build!RecoverFails
  BY <1>9 DEF Build!RecoverFails, Build!JobFails, Build!EndWork, StageIsThere, DiskTyped, Placed
<1>10. CASE Build!Fails
  BY <1>10 DEF Build!Fails, Build!JobFails, Build!EndWork, StageIsThere, DiskTyped, Placed
<1>11. CASE Build!Capture
  BY <1>11 DEF Build!Capture, Build!disk, StageIsThere, DiskTyped, Placed
<1>12. CASE Build!Portable
  BY <1>12 DEF Build!Portable, Build!disk, StageIsThere, DiskTyped, Placed
<1>13. CASE Build!Confirm
  BY <1>13 DEF Build!Confirm, StageIsThere, DiskTyped, Placed
<1>14. CASE Build!FillStage
  <2>1. stage \in 1 .. MaxBuilds /\ stages[stage] \in Build!Stage
    BY <1>14 DEF Build!FillStage, StageIsThere
  <2>2. CASE buildPc' = "clean"
    BY <1>14, <2>2 DEF Build!FillStage
  <2>3. CASE buildPc' # "clean"
    <3> DEFINE d == [id |-> input, stamp |-> stage, whole |-> TRUE]
    <3>1. buildPc' = "mark" /\ UNCHANGED stage /\ stages' = [stages EXCEPT ![stage].staged = d]
      BY <1>14, <2>3 DEF Build!FillStage
    <3>2. d \in Build!Dist /\ d.stamp = stage
      BY <1>14 DEF Build!FillStage, Placed, Scalars, Build!Dist
    <3>3. stages'[stage].staged = d
      BY <2>1, <3>1 DEF DiskTyped, Build!Stage
    <3> QED
      BY <3>1, <3>2, <3>3
  <2> QED
    BY <2>2, <2>3
<1>15. CASE Build!MarkProjection
  <2>1. stage \in 1 .. MaxBuilds /\ stages[stage] \in Build!Stage
    BY <1>15 DEF Build!MarkProjection, StageIsThere
  <2>2. CASE buildPc' = "clean"
    BY <1>15, <2>2 DEF Build!MarkProjection
  <2>3. CASE buildPc' # "clean"
    <3>1. /\ buildPc' = "moveOld" /\ UNCHANGED stage
          /\ stages' = [stages EXCEPT ![stage].projecting = TRUE]
      BY <1>15, <2>3 DEF Build!MarkProjection
    <3>2. stages'[stage].staged = stages[stage].staged /\ stages'[stage].projecting
      BY <2>1, <3>1 DEF DiskTyped, Build!Stage
    <3> QED
      BY <1>15, <2>1, <3>1, <3>2 DEF Build!MarkProjection
  <2> QED
    BY <2>2, <2>3
<1>16. CASE Build!MoveOld
  <2>1. stage \in 1 .. MaxBuilds /\ stages[stage] \in Build!Stage
    BY <1>16 DEF Build!MoveOld, StageIsThere
  <2>2. CASE buildPc' = "clean"
    BY <1>16, <2>2 DEF Build!MoveOld
  <2>3. CASE buildPc' # "clean"
    <3>1. /\ buildPc' = "moveNew" /\ UNCHANGED stage
          /\ live' = None /\ (stages' = [stages EXCEPT ![stage].backup = live] \/ UNCHANGED stages)
      BY <1>16, <2>3 DEF Build!MoveOld
    <3>2. stages'[stage].staged = stages[stage].staged /\ stages'[stage].projecting = stages[stage].projecting
      BY <2>1, <3>1 DEF DiskTyped, Build!Stage
    <3> QED
      BY <1>16, <2>1, <3>1, <3>2 DEF Build!MoveOld
  <2> QED
    BY <2>2, <2>3
<1>17. CASE Build!MoveNew
  BY <1>17 DEF Build!MoveNew, StageIsThere, DiskTyped, Placed
<1>18. CASE Build!Verify
  BY <1>18 DEF Build!Verify, StageIsThere, DiskTyped, Placed
<1>19. CASE Build!CommitBuild
  BY <1>19 DEF Build!CommitBuild, StageIsThere, DiskTyped, Placed
<1>20. CASE Build!DropBackup
  BY <1>20 DEF Build!DropBackup, StageIsThere, DiskTyped, Placed
<1>21. CASE Build!Rollback
  BY <1>21 DEF Build!Rollback, Build!Projected, StageIsThere, DiskTyped, Placed
<1>22. CASE Build!RollbackMove
  BY <1>22 DEF Build!RollbackMove, StageIsThere, DiskTyped, Placed
<1>23. CASE Build!RollbackFails
  BY <1>23 DEF Build!RollbackFails, Build!JobFails, Build!EndWork, StageIsThere, DiskTyped, Placed
<1>24. CASE Build!CleanStage
  BY <1>24 DEF Build!CleanStage, Build!JobFails, Build!EndWork, StageIsThere, DiskTyped, Placed
<1>25. CASE Build!ReadMarker
  BY <1>25 DEF Build!ReadMarker, Build!ObserveEnds, Build!EndWork, StageIsThere, DiskTyped, Placed
<1>26. CASE Build!Validate("first", "second") \/ Build!Validate("second", "accept")
  BY <1>26 DEF Build!Validate, Build!Valid, Build!disk, Build!entry, Build!Judged, Build!ObserveEnds,
     Build!EndWork, StageIsThere, DiskTyped, Placed
<1>27. CASE Build!RequireBuild
  BY <1>27 DEF Build!RequireBuild, Build!Judged, Build!ObserveEnds, Build!EndWork, StageIsThere, DiskTyped,
     Placed
<1>28. CASE Build!Accept
  BY <1>28 DEF Build!Accept, Build!EndWork, Build!ObserveEnds, StageIsThere, DiskTyped, Placed
<1>29. CASE Build!Stopped
  BY <1>29 DEF Build!Stopped, Build!Idle, Build!disk, Build!work, StageIsThere, DiskTyped, Placed
<1>30. CASE Build!Crash
  BY <1>30 DEF Build!Crash, Build!EndWork, StageIsThere, DiskTyped, Placed
<1> QED
  BY <1>1, <1>2, <1>3, <1>4, <1>5, <1>6, <1>7, <1>8, <1>9, <1>10, <1>11, <1>12, <1>13, <1>14, <1>15,
     <1>16, <1>17, <1>18, <1>19, <1>20, <1>21, <1>22, <1>23, <1>24, <1>25, <1>26, <1>27, <1>28,
     <1>29, <1>30, Turns DEF Build!Work


\* A sound stage stays sound under each change of one of its fields.
LEMMA FieldsSound ==
  ASSUME NEW s \in Build!Stage, NEW b, SoundStage(s, b)
  PROVE  /\ \A d \in Build!Dist : SoundStage([s EXCEPT !.staged = d], b)
         /\ SoundStage([s EXCEPT !.staged = None], b) /\ SoundStage([s EXCEPT !.backup = None], b)
         /\ SoundStage([s EXCEPT !.projecting = TRUE], b)
         /\ \A d \in Build!Dist : Good(d.stamp) => SoundStage([s EXCEPT !.backup = d], b)
         /\ \A r \in Build!Remains(s) : SoundStage(r, b)
<1>1. \A r \in Build!Remains(s) : SoundStage(r, b)
  BY RemainsTyped DEF SoundStage
<1>2. \A d \in Build!Dist : SoundStage([s EXCEPT !.staged = d], b)
  BY DEF SoundStage, Build!Stage
<1>3. SoundStage([s EXCEPT !.staged = None], b) /\ SoundStage([s EXCEPT !.backup = None], b)
  BY DEF SoundStage, Build!Stage
<1>4. SoundStage([s EXCEPT !.projecting = TRUE], b)
  BY DEF SoundStage, Build!Stage
<1>5. \A d \in Build!Dist : Good(d.stamp) => SoundStage([s EXCEPT !.backup = d], b)
  BY DEF SoundStage, Build!Stage
<1> QED
  BY <1>1, <1>2, <1>3, <1>4, <1>5

\* A step that works on the stage of one build.
Only(b) == \A c \in (1 .. MaxBuilds) \ {b} : stages'[c] = stages[c]

\* A step that changes one stage has to care for that one only.
LEMMA OneStage ==
  ASSUME StagesSound, UNCHANGED verified, NEW b \in 1 .. MaxBuilds,
         Only(b), stages'[b] # None => SoundStage(stages'[b], b)
  PROVE  StagesSound'
<1>1. ASSUME NEW c \in 1 .. MaxBuilds, stages'[c] # None PROVE SoundStage(stages'[c], c)
  BY <1>1 DEF Only, StagesSound
<1> QED
  BY <1>1 DEF StagesSound, SoundStage, Good

\* A removal that stops half-way leaves sound stages.
LEMMA CutSound ==
  ASSUME Build!BuildAssumption, DiskTyped, StageIsThere, StagesSound, Build!Interrupted, UNCHANGED verified
  PROVE  StagesSound'
<1>1. CASE UNCHANGED stages
  BY <1>1 DEF StagesSound, SoundStage, Good
<1>2. ASSUME buildPc \in {"settle", "clean", "drop"}
      PROVE  stage \in 1 .. MaxBuilds /\ stages[stage] \in Build!Stage /\ SoundStage(stages[stage], stage)
  BY <1>2, NoneIsApart DEF StageIsThere, Projection, Settling, StagesSound
<1>3. CASE /\ buildPc \in {"settle", "clean"}
           /\ \E r \in Build!Remains(stages[stage]) : stages' = [stages EXCEPT ![stage] = r]
  <2>1. Only(stage) /\ stages'[stage] \in Build!Remains(stages[stage])
    BY <1>2, <1>3 DEF DiskTyped, Only
  <2> QED
    BY <1>2, <1>3, <2>1, FieldsSound, OneStage
<1>4. CASE /\ buildPc = "drop" /\ stages[stage].backup # None
           /\ stages' = [stages EXCEPT ![stage].backup = Build!Torn(@)]
  <2> DEFINE d == Build!Torn(stages[stage].backup)
  <2>1. stages[stage].backup \in Build!Dist /\ Good(stages[stage].backup.stamp)
    BY <1>2, <1>4 DEF Build!Stage, SoundStage
  <2>2. d \in Build!Dist /\ d.stamp = stages[stage].backup.stamp
    BY <2>1 DEF Build!Torn, Build!Dist
  <2>3. Only(stage) /\ stages'[stage] = [stages[stage] EXCEPT !.backup = d]
    BY <1>2, <1>4 DEF DiskTyped, Only
  <2>4. SoundStage([stages[stage] EXCEPT !.backup = d], stage)
    BY <1>2, <1>4, <2>1, <2>2, FieldsSound
  <2> QED
    BY <1>2, <1>4, <2>3, <2>4, OneStage
<1> QED
  BY <1>1, <1>3, <1>4 DEF Build!Interrupted

\* No backup is of an unverified build, no commit marker wrong: a build is marked
\* only after it was verified, a dist is moved away only when a build may follow.
LEMMA StagesSoundKept ==
  ASSUME Build!BuildAssumption, Scalars, Flags, DiskTyped, Placed, StageIsThere, Projecting,
         counts \in Build!Counts, StagesSound, LiveSound, Build!Next
  PROVE  StagesSound'
<1> USE DEF Build!Go, Build!Now, Build!Then, Build!GiveUp, Build!Undo, Build!ProjectSame, Build!RecoverSame
<1> DEFINE s == stages[stage]
<1>1. CASE UNCHANGED <<live, stages, verified>>
  BY <1>1 DEF StagesSound, SoundStage, Good
<1>2. ASSUME buildPc \in Projection \cup Settling
      PROVE  stage \in 1 .. MaxBuilds /\ s \in Build!Stage /\ SoundStage(s, stage)
  BY <1>2, NoneIsApart DEF StageIsThere, StagesSound
<1>3. CASE Build!UndoLive \/ Build!Rollback
  BY <1>3 DEF Build!UndoLive, Build!Rollback, StagesSound, SoundStage, Good
<1>4. CASE Build!RenameBack \/ Build!RollbackMove
  <2>1. /\ Only(stage) /\ stages'[stage] = [s EXCEPT !.backup = None]
        /\ UNCHANGED verified /\ buildPc \in Projection \cup Settling
    BY <1>2, <1>4 DEF Only, DiskTyped, Build!RenameBack, Build!RollbackMove, Projection, Settling
  <2> QED
    BY <1>2, <2>1, FieldsSound, OneStage
<1>5. CASE Build!RemoveLeft
  <2>1. /\ Only(stage) /\ stages'[stage] = None
        /\ UNCHANGED verified /\ buildPc \in Projection \cup Settling
    BY <1>2, <1>5 DEF Only, DiskTyped, Build!RemoveLeft, Settling
  <2> QED
    BY <1>2, <2>1, OneStage
<1>6. CASE Build!RecoverFails \/ Build!Crash
  BY <1>6, CutSound DEF Build!RecoverFails, Build!Crash
<1>7. CASE Build!Confirm
  <2> DEFINE r == [id |-> input, staged |-> None, backup |-> None,
                   projecting |-> FALSE, committed |-> FALSE]
  <2>1. counts.builds + 1 \in 1 .. MaxBuilds
    BY <1>7 DEF Build!Confirm, Build!Count, Build!Counts, Build!Stamps, Build!BuildAssumption
  <2>2. Only(counts.builds + 1) /\ stages'[counts.builds + 1] = r /\ UNCHANGED verified
    BY <1>7, <2>1 DEF Only, DiskTyped, Build!Confirm
  <2>3. SoundStage(r, counts.builds + 1)
    BY DEF SoundStage
  <2> QED
    BY <2>1, <2>2, <2>3, OneStage
<1>8. CASE Build!FillStage
  <2> DEFINE d == [id |-> input, stamp |-> stage, whole |-> TRUE]
  <2>1. /\ Only(stage) /\ stages'[stage] \in {s, [s EXCEPT !.staged = d]}
        /\ UNCHANGED verified /\ buildPc \in Projection \cup Settling
    BY <1>2, <1>8 DEF Only, DiskTyped, Build!FillStage, Projection
  <2>2. d \in Build!Dist
    BY <1>8 DEF Build!FillStage, Placed, Projection, Scalars, Build!Dist
  <2> QED
    BY <1>2, <2>1, <2>2, FieldsSound, OneStage
<1>9. CASE Build!MarkProjection
  <2>1. /\ Only(stage) /\ stages'[stage] \in {s, [s EXCEPT !.projecting = TRUE]}
        /\ UNCHANGED verified /\ buildPc \in Projection \cup Settling
    BY <1>2, <1>9 DEF Only, DiskTyped, Build!MarkProjection, Projection
  <2> QED
    BY <1>2, <2>1, FieldsSound, OneStage
<1>10. CASE Build!MoveOld
  <2>1. /\ UNCHANGED verified /\ buildPc \in Projection \cup Settling
        /\ stages' = stages \/ (live # None /\ stages' = [stages EXCEPT ![stage].backup = live])
    BY <1>10 DEF Build!MoveOld, Projection
  <2>2. live # None => live \in Build!Dist /\ Good(live.stamp)
    BY <1>10 DEF Build!MoveOld, DiskTyped, LiveSound, Placed, Projection
  <2>3. CASE stages' = stages
    BY <2>1, <2>3 DEF StagesSound, SoundStage, Good
  <2>4. CASE live # None /\ stages' = [stages EXCEPT ![stage].backup = live]
    <3>1. Only(stage) /\ stages'[stage] = [s EXCEPT !.backup = live]
      BY <1>2, <2>1, <2>4 DEF Only, DiskTyped
    <3>2. SoundStage([s EXCEPT !.backup = live], stage)
      BY <1>2, <2>1, <2>2, <2>4, FieldsSound
    <3> QED
      BY <1>2, <2>1, <3>1, <3>2, OneStage
  <2> QED
    BY <2>1, <2>3, <2>4
<1>11. CASE Build!MoveNew
  <2>1. /\ Only(stage) /\ stages'[stage] \in {s, [s EXCEPT !.staged = None]}
        /\ UNCHANGED verified /\ buildPc \in Projection \cup Settling
    BY <1>2, <1>11 DEF Only, DiskTyped, Build!MoveNew, Projection
  <2> QED
    BY <1>2, <2>1, FieldsSound, OneStage
<1>12. CASE Build!CommitBuild
  <2>1. /\ Only(stage) /\ stages'[stage] \in {s, [s EXCEPT !.committed = TRUE]}
        /\ verified \subseteq verified' /\ (stages'[stage] # s => live \in verified')
        /\ buildPc \in Projection \cup Settling /\ live.stamp = stage
    BY <1>2, <1>12 DEF Only, DiskTyped, Build!CommitBuild, Projection, Projecting
  <2>2. [s EXCEPT !.committed = TRUE].backup = s.backup
    BY <1>2, <2>1 DEF Build!Stage
  <2>3. stages'[stage].backup = s.backup
    BY <1>2, <2>1, <2>2
  <2>4. ASSUME NEW b \in 1 .. MaxBuilds, stages'[b] # None
        PROVE  /\ stages'[b].backup # None => \E d \in verified' : d.stamp = stages'[b].backup.stamp
               /\ stages'[b].committed => \E d \in verified' : d.stamp = b
    <3>1. CASE b # stage \/ stages'[stage] = s
      BY <1>2, <2>1, <2>4, <3>1 DEF Only, StagesSound, SoundStage, Good
    <3>2. CASE b = stage /\ stages'[stage] # s
      BY <1>2, <2>1, <2>3, <3>2 DEF SoundStage, Good
    <3> QED
      BY <3>1, <3>2
  <2> QED
    BY <2>4 DEF StagesSound, SoundStage, Good
<1>13. CASE Build!DropBackup
  <2>1. buildPc \in Projection \cup Settling /\ UNCHANGED verified
    BY <1>13 DEF Build!DropBackup, Projection
  <2>2. PICK d \in {None, s.backup, Build!Torn(s.backup)} :
             /\ stages' = [stages EXCEPT ![stage].backup = d]
             /\ d # None => s.backup # None
    BY <1>13 DEF Build!DropBackup
  <2>6. Only(stage) /\ stages'[stage] = [s EXCEPT !.backup = d]
    BY <1>2, <2>1, <2>2 DEF Only, DiskTyped
  <2>3. s.backup # None => s.backup \in Build!Dist /\ Good(s.backup.stamp)
    BY <1>2, <2>1 DEF Build!Stage, SoundStage
  <2>4. d # None => d \in Build!Dist /\ Good(d.stamp)
    BY <2>2, <2>3 DEF Build!Torn, Build!Dist
  <2>5. SoundStage([s EXCEPT !.backup = d], stage)
    BY <1>2, <2>1, <2>4, FieldsSound
  <2> QED
    BY <1>2, <2>1, <2>5, <2>6, OneStage
<1>14. CASE Build!RollbackFails
  <2>1. UNCHANGED verified /\ buildPc \in Projection \cup Settling
    BY <1>14 DEF Build!RollbackFails, Projection
  <2>2. CASE Build!Interrupted
    BY <2>1, <2>2, CutSound
  <2>3. CASE ~Build!Interrupted
    <3>1. Only(stage) /\ stages'[stage] \in {s, [s EXCEPT !.backup = None]}
      BY <1>2, <1>14, <2>3 DEF Only, DiskTyped, Build!RollbackFails
    <3> QED
      BY <1>2, <2>1, <3>1, FieldsSound, OneStage
  <2> QED
    BY <2>2, <2>3
<1>15. CASE Build!CleanStage
  <2>1. UNCHANGED verified /\ buildPc \in Projection \cup Settling
    BY <1>15 DEF Build!CleanStage, Projection
  <2>2. CASE Build!Interrupted
    BY <2>1, <2>2, CutSound
  <2>3. CASE ~Build!Interrupted
    <3>1. stages' = [stages EXCEPT ![stage] = None]
      BY <1>15, <2>3 DEF Build!CleanStage
    <3>2. Only(stage) /\ stages'[stage] = None
      BY <1>2, <2>1, <3>1 DEF Only, DiskTyped
    <3> QED
      BY <1>2, <2>1, <3>2, OneStage
  <2> QED
    BY <2>2, <2>3
<1> QED
  BY <1>1, <1>3, <1>4, <1>5, <1>6, <1>7, <1>8, <1>9, <1>10, <1>11, <1>12, <1>13, <1>14, <1>15,
     DiskTurns DEF OnDisk

\* A live folder that is not good can be told from its stage after an interruption.
LEMMA CutLive ==
  ASSUME Build!BuildAssumption, DiskTyped, Placed, StageIsThere, Projecting, StagesSound, LiveSound,
         Build!Interrupted, UNCHANGED verified, ~recovered'
  PROVE  LiveSound'
<1> USE DEF LiveSound, Good
<1>1. CASE UNCHANGED <<live, stages>>
  BY <1>1
<1>2. CASE UNCHANGED stages /\ live # None /\ live' \in {live, Build!Torn(live), None}
  <2>1. Build!Torn(live).stamp = live.stamp
    BY <1>2 DEF Build!Torn, DiskTyped, Build!Dist
  <2> QED
    BY <1>2, <2>1
<1>3. CASE UNCHANGED live /\ buildPc \in {"settle", "clean", "drop"} /\ Only(stage)
  <2>1. live # None /\ live.stamp = stage => Good(stage)
    BY <1>3 DEF Projecting, Placed, Projection
  <2> QED
    BY <1>3, <2>1 DEF Only
<1>4. buildPc \in {"settle", "clean", "drop"} => stage \in 1 .. MaxBuilds
  BY DEF StageIsThere, Projection, Settling
<1> QED
  BY <1>1, <1>2, <1>3, <1>4 DEF Build!Interrupted, DiskTyped, Only

\* What is live was verified, or its stage tells the recovery that it was not.
LEMMA LiveSoundKept ==
  ASSUME Build!BuildAssumption, Scalars, Flags, DiskTyped, Placed, StageIsThere, Projecting,
         counts \in Build!Counts, StagesSound, LiveSound, Build!Next
  PROVE  LiveSound'
<1> USE DEF LiveSound, Good, Projection, Settling, BeforeStage, StaysPut, Build!Go, Build!Now, Build!Then,
Build!GiveUp, Build!Undo,
            Build!WorkSame, Build!RecoverSame, Build!ProjectSame, Build!BuildSame
<1>1. CASE StaysPut
  BY <1>1 DEF StageIsThere, Projecting, Placed, DiskTyped
<1>2. ASSUME NEW c \in MCCallers \cup {None}, Build!StartObserve(c) PROVE LiveSound'
  BY <1>2 DEF Build!StartObserve, Build!Idle, Build!disk, Build!entry, StageIsThere, Projecting, Placed,
     DiskTyped
<1>3. CASE Build!StartBuild
  BY <1>3 DEF Build!StartBuild, Build!Idle, Build!disk, StageIsThere, Projecting, Placed, DiskTyped
<1>4. CASE Build!RecoverStage
  BY <1>4 DEF Build!RecoverStage, Build!Left, StageIsThere, Projecting, Placed, DiskTyped
<1>5. CASE Build!UndoLive
  BY <1>5 DEF Build!UndoLive, StageIsThere, Projecting, Placed, DiskTyped
<1>6. CASE Build!RenameBack
  <2>1. stage \in 1 .. MaxBuilds /\ stages[stage] # None
    BY <1>6, NoneIsApart DEF Build!RenameBack, StageIsThere
  <2>2. /\ live' = stages[stage].backup \/ live' = None
        /\ stages[stage].backup # None => Good(stages[stage].backup.stamp)
    BY <1>6, <2>1 DEF Build!RenameBack, Projecting, StagesSound, SoundStage
  <2>3. UNCHANGED verified
    BY <1>6 DEF Build!RenameBack
  <2> QED
    BY <2>2, <2>3
<1>7. CASE Build!RemoveLeft
  BY <1>7 DEF Build!RemoveLeft, StageIsThere, Projecting, Placed, DiskTyped
<1>8. CASE Build!Recovered
  BY <1>8 DEF Build!Recovered, Build!Left, StageIsThere, Projecting, Placed, DiskTyped
<1>9. CASE Build!RecoverFails
  BY <1>9, CutLive DEF Build!RecoverFails
<1>10. CASE Build!Fails
  BY <1>10 DEF Build!Fails, Build!JobFails, Build!EndWork, StageIsThere, Projecting, Placed, DiskTyped
<1>11. CASE Build!Capture
  BY <1>11 DEF Build!Capture, Build!disk, StageIsThere, Projecting, Placed, DiskTyped
<1>12. CASE Build!Portable
  BY <1>12 DEF Build!Portable, Build!disk, StageIsThere, Projecting, Placed, DiskTyped
<1>13. CASE Build!Confirm
  BY <1>13 DEF Build!Confirm, StageIsThere, Projecting, Placed, DiskTyped
<1>14. CASE Build!FillStage
  BY <1>14 DEF Build!FillStage, StageIsThere, Projecting, Placed, DiskTyped
<1>15. CASE Build!MarkProjection
  BY <1>15 DEF Build!MarkProjection, StageIsThere, Projecting, Placed, DiskTyped
<1>16. CASE Build!MoveOld
  BY <1>16 DEF Build!MoveOld, StageIsThere, Projecting, Placed, DiskTyped
<1>17. CASE Build!MoveNew
  <2>1. stage \in 1 .. MaxBuilds /\ stages[stage] \in Build!Stage /\ live = None
    BY <1>17 DEF Build!MoveNew, StageIsThere, Projecting
  <2>2. CASE UNCHANGED <<live, stages>>
    BY <2>1, <2>2
  <2>3. CASE live' = stages[stage].staged /\ stages' = [stages EXCEPT ![stage].staged = None]
    <3>1. stages'[stage].staged = None /\ stages'[stage].projecting /\ stages'[stage] # None
      BY <1>17, <2>1, <2>3, StageStays, NoneIsApart DEF Build!MoveNew, Projecting, DiskTyped, Build!Stage
    <3>2. live'.stamp = stage /\ buildPc' \in {"verify", "rollback"}
      BY <1>17, <2>3 DEF Build!MoveNew, Projecting
    <3> QED
      BY <2>1, <3>1, <3>2
  <2> QED
    BY <1>17, <2>2, <2>3 DEF Build!MoveNew
<1>18. CASE Build!Verify
  BY <1>18 DEF Build!Verify, StageIsThere, Projecting, Placed, DiskTyped
<1>19. CASE Build!CommitBuild
  BY <1>19 DEF Build!CommitBuild, StageIsThere, Projecting, Placed, DiskTyped
<1>20. CASE Build!DropBackup
  BY <1>20 DEF Build!DropBackup, Build!Torn, StageIsThere, Projecting, Placed, DiskTyped
<1>21. CASE Build!Rollback
  BY <1>21 DEF Build!Rollback, Build!Projected, StageIsThere, Projecting, Placed, DiskTyped
<1>22. CASE Build!RollbackMove
  <2>1. stage \in 1 .. MaxBuilds /\ stages[stage] # None
    BY <1>22, NoneIsApart DEF Build!RollbackMove, StageIsThere
  <2>2. /\ live' = stages[stage].backup \/ live' = None
        /\ stages[stage].backup # None => Good(stages[stage].backup.stamp)
    BY <1>22, <2>1 DEF Build!RollbackMove, Projecting, StagesSound, SoundStage
  <2>3. UNCHANGED verified
    BY <1>22 DEF Build!RollbackMove
  <2> QED
    BY <2>2, <2>3
<1>23. CASE Build!RollbackFails
  <2>1. CASE Build!Interrupted
    BY <1>23, <2>1, CutLive DEF Build!RollbackFails
  <2>2. CASE ~Build!Interrupted
    <3>1. stage \in 1 .. MaxBuilds /\ stages[stage] # None /\ buildPc = "rollbackMove"
      BY <1>23, <2>2, NoneIsApart DEF Build!RollbackFails, StageIsThere, Build!Interrupted
    <3>2. /\ live' \in {None, stages[stage].backup} /\ UNCHANGED verified
          /\ stages[stage].backup # None => Good(stages[stage].backup.stamp)
      BY <1>23, <2>2, <3>1 DEF Build!RollbackFails, Projecting, StagesSound, SoundStage
    <3> QED
      BY <3>2
  <2> QED
    BY <2>1, <2>2
<1>24. CASE Build!CleanStage
  BY <1>24 DEF Build!CleanStage, Build!JobFails, Build!EndWork, Build!Interrupted, Build!Torn,
     StageIsThere, Projecting, Placed, DiskTyped
<1>25. CASE Build!ReadMarker
  BY <1>25 DEF Build!ReadMarker, Build!ObserveEnds, Build!EndWork, StageIsThere, Projecting, Placed,
     DiskTyped
<1>26. CASE Build!Validate("first", "second") \/ Build!Validate("second", "accept")
  BY <1>26 DEF Build!Validate, Build!Valid, Build!disk, Build!entry, Build!Judged, Build!ObserveEnds,
     Build!EndWork, StageIsThere, Projecting, Placed, DiskTyped
<1>27. CASE Build!RequireBuild
  BY <1>27 DEF Build!RequireBuild, Build!Judged, Build!ObserveEnds, Build!EndWork, StageIsThere,
     Projecting, Placed, DiskTyped
<1>28. CASE Build!Accept
  BY <1>28 DEF Build!Accept, Build!EndWork, Build!ObserveEnds, StageIsThere, Projecting, Placed, DiskTyped
<1>29. CASE Build!Stopped
  BY <1>29 DEF Build!Stopped, Build!Idle, Build!Forget, Build!disk, Build!work, StageIsThere, Projecting,
     Placed, DiskTyped
<1>30. CASE Build!Crash
  BY <1>30, CutLive DEF Build!Crash, Build!Forget
<1> QED
  BY <1>1, <1>2, <1>3, <1>4, <1>5, <1>6, <1>7, <1>8, <1>9, <1>10, <1>11, <1>12, <1>13, <1>14, <1>15,
     <1>16, <1>17, <1>18, <1>19, <1>20, <1>21, <1>22, <1>23, <1>24, <1>25, <1>26, <1>27, <1>28,
     <1>29, <1>30, Turns DEF Build!Work


\* Without failures no stage outlives its build, and the accepted generation is
\* live or in the backup of the build that replaces it.
LEMMA UntroubledKept ==
  ASSUME Build!BuildAssumption, Scalars, Flags, DiskTyped, Placed, StageIsThere, Projecting,
         counts \in Build!Counts, Untroubled, NoFailure', Build!Next
  PROVE  Untroubled'
<1> USE DEF Untroubled, Kept, Replaced, Projection, Settling, BeforeStage, StaysPut, Build!Go, Build!Now,
Build!Then, Build!GiveUp,
            Build!Undo, Build!WorkSame, Build!RecoverSame, Build!ProjectSame, Build!BuildSame
<1>100. ~Build!Fault /\ ~Build!Count("crashes", BuildCrashes)
  BY FaultsCount
<1>1. CASE StaysPut
  BY <1>1, <1>100 DEF StageIsThere, Projecting, Placed, DiskTyped
<1>2. ASSUME NEW c \in MCCallers \cup {None}, Build!StartObserve(c) PROVE Untroubled'
  BY <1>2, <1>100 DEF Build!StartObserve, Build!Idle, Build!disk, Build!entry, StageIsThere, Projecting,
     Placed, DiskTyped
<1>3. CASE Build!StartBuild
  BY <1>3, <1>100 DEF Build!StartBuild, Build!Idle, Build!disk, StageIsThere, Projecting, Placed, DiskTyped
<1>4. CASE Build!RecoverStage
  BY <1>4, <1>100 DEF Build!RecoverStage, Build!Left, StageIsThere, Projecting, Placed, DiskTyped
<1>5. CASE Build!UndoLive
  BY <1>5, <1>100 DEF Build!UndoLive, StageIsThere, Projecting, Placed, DiskTyped
<1>6. CASE Build!RenameBack
  BY <1>6, <1>100 DEF Build!RenameBack, StageIsThere, Projecting, Placed, DiskTyped
<1>7. CASE Build!RemoveLeft
  BY <1>7, <1>100 DEF Build!RemoveLeft, StageIsThere, Projecting, Placed, DiskTyped
<1>8. CASE Build!Recovered
  BY <1>8, <1>100 DEF Build!Recovered, Build!Left, StageIsThere, Projecting, Placed, DiskTyped
<1>9. CASE Build!RecoverFails
  BY <1>9, <1>100 DEF Build!RecoverFails, Build!Torn, Build!JobFails, Build!EndWork, StageIsThere,
     Projecting, Placed, DiskTyped
<1>10. CASE Build!Fails
  BY <1>10, <1>100 DEF Build!Fails, Build!JobFails, Build!EndWork, StageIsThere, Projecting, Placed,
     DiskTyped
<1>11. CASE Build!Capture
  BY <1>11, <1>100 DEF Build!Capture, Build!disk, StageIsThere, Projecting, Placed, DiskTyped
<1>12. CASE Build!Portable
  BY <1>12, <1>100 DEF Build!Portable, Build!disk, StageIsThere, Projecting, Placed, DiskTyped
<1>13. CASE Build!Confirm
  BY <1>13, <1>100 DEF Build!Confirm, StageIsThere, Projecting, Placed, DiskTyped
<1>14. CASE Build!FillStage
  <2>1. stage \in 1 .. MaxBuilds /\ stages[stage] \in Build!Stage
    BY <1>14 DEF Build!FillStage, StageIsThere
  <2>2. CASE buildPc' = "clean"
    BY <1>14, <1>100, <2>2 DEF Build!FillStage, Projecting
  <2>3. CASE buildPc' # "clean"
    <3>1. /\ buildPc' = "mark" /\ UNCHANGED <<live, verified>>
          /\ UNCHANGED <<stage, input, fails, accepted, job>>
          /\ stages' = [stages EXCEPT ![stage].staged = [id |-> input, stamp |-> stage, whole |-> TRUE]]
      BY <1>14, <1>100, <2>3 DEF Build!FillStage
    <3>2. Only(stage) /\ stages'[stage].staged.id = input
      BY <2>1, <3>1 DEF Only, DiskTyped, Build!Stage
    <3> QED
      BY <1>14, <1>100, <2>1, <3>1, <3>2 DEF Build!FillStage, Only, Projecting
  <2> QED
    BY <2>2, <2>3
<1>15. CASE Build!MarkProjection
  <2>1. stage \in 1 .. MaxBuilds /\ stages[stage] \in Build!Stage
    BY <1>15 DEF Build!MarkProjection, StageIsThere
  <2>2. CASE UNCHANGED stages
    BY <1>15, <1>100, <2>2 DEF Build!MarkProjection, Projecting
  <2>3. CASE ~UNCHANGED stages
    <3>1. /\ buildPc' = "moveOld" /\ UNCHANGED <<live, verified>>
          /\ UNCHANGED <<stage, input, fails, accepted, job>>
          /\ stages' = [stages EXCEPT ![stage].projecting = TRUE]
      BY <1>15, <1>100, <2>3 DEF Build!MarkProjection
    <3>2. Only(stage) /\ stages'[stage].staged = stages[stage].staged
      BY <2>1, <3>1 DEF Only, DiskTyped, Build!Stage
    <3> QED
      BY <1>15, <1>100, <2>1, <3>1, <3>2 DEF Build!MarkProjection, Only, Projecting
  <2> QED
    BY <2>2, <2>3
<1>16. CASE Build!MoveOld
  <2>1. stage \in 1 .. MaxBuilds /\ stages[stage] \in Build!Stage
    BY <1>16 DEF Build!MoveOld, StageIsThere
  <2>2. CASE live = None
    BY <1>16, <1>100, <2>2 DEF Build!MoveOld, Projecting
  <2>3. CASE live # None
    <3>1. /\ buildPc' = "moveNew" /\ UNCHANGED verified
          /\ UNCHANGED <<stage, input, fails, accepted, job>>
          /\ stages' = [stages EXCEPT ![stage].backup = live]
      BY <1>16, <1>100, <2>3 DEF Build!MoveOld
    <3>2. Only(stage) /\ stages'[stage].staged = stages[stage].staged /\ stages'[stage].backup = live
      BY <2>1, <3>1 DEF Only, DiskTyped, Build!Stage
    <3> QED
      BY <1>16, <1>100, <2>1, <3>1, <3>2 DEF Build!MoveOld, Only, Projecting
  <2> QED
    BY <2>2, <2>3
<1>17. CASE Build!MoveNew
  <2>1. stage \in 1 .. MaxBuilds /\ stages[stage] \in Build!Stage
    BY <1>17 DEF Build!MoveNew, StageIsThere
  <2>2. CASE buildPc' = "rollback"
    BY <1>17, <1>100, <2>2 DEF Build!MoveNew, Projecting
  <2>3. CASE buildPc' # "rollback"
    <3>1. /\ buildPc' = "verify" /\ live' = stages[stage].staged /\ UNCHANGED verified
          /\ UNCHANGED <<stage, input, fails, accepted, job>>
          /\ stages' = [stages EXCEPT ![stage].staged = None]
      BY <1>17, <1>100, <2>3 DEF Build!MoveNew
    <3>2. Only(stage) /\ stages'[stage].backup = stages[stage].backup
      BY <2>1, <3>1 DEF Only, DiskTyped, Build!Stage
    <3>3. live' # None /\ live'.id = input
      BY <1>17, <3>1, NoneIsApart DEF Build!MoveNew, Projecting
    <3> QED
      BY <1>17, <1>100, <2>1, <3>1, <3>2, <3>3 DEF Build!MoveNew, Only
  <2> QED
    BY <2>2, <2>3
<1>18. CASE Build!Verify
  BY <1>18, <1>100 DEF Build!Verify, StageIsThere, Projecting, Placed, DiskTyped
<1>19. CASE Build!CommitBuild
  <2>1. stage \in 1 .. MaxBuilds /\ stages[stage] \in Build!Stage
    BY <1>19 DEF Build!CommitBuild, StageIsThere
  <2>2. CASE UNCHANGED stages
    BY <1>19, <1>100, <2>2 DEF Build!CommitBuild, Projecting
  <2>3. CASE ~UNCHANGED stages
    <3>1. /\ buildPc' = "drop" /\ UNCHANGED live
          /\ UNCHANGED <<stage, input, fails, accepted, job>>
          /\ stages' = [stages EXCEPT ![stage].committed = TRUE]
      BY <1>19, <1>100, <2>3 DEF Build!CommitBuild
    <3>2. Only(stage) /\ stages'[stage].backup = stages[stage].backup
      BY <2>1, <3>1 DEF Only, DiskTyped, Build!Stage
    <3> QED
      BY <1>19, <1>100, <2>1, <3>1, <3>2 DEF Build!CommitBuild, Only, Projecting
  <2> QED
    BY <2>2, <2>3
<1>20. CASE Build!DropBackup
  BY <1>20, <1>100 DEF Build!DropBackup, Build!Torn, StageIsThere, Projecting, Placed, DiskTyped
<1>21. CASE Build!Rollback
  BY <1>21, <1>100 DEF Build!Rollback, Build!Projected, StageIsThere, Projecting, Placed, DiskTyped
<1>22. CASE Build!RollbackMove
  BY <1>22, <1>100 DEF Build!RollbackMove, StageIsThere, Projecting, Placed, DiskTyped
<1>23. CASE Build!RollbackFails
  BY <1>23, <1>100 DEF Build!RollbackFails, Build!Torn, Build!JobFails, Build!EndWork, StageIsThere,
     Projecting, Placed, DiskTyped
<1>24. CASE Build!CleanStage
  <2>1. /\ buildPc = "clean" /\ UNCHANGED <<live, verified, accepted>>
        /\ \/ buildPc' = "accept" /\ job' = "build" /\ ~fails /\ UNCHANGED input
           \/ buildPc' = "idle" /\ job' = "none" /\ fails
        /\ ~fails'
    BY <1>24, <1>100 DEF Build!CleanStage, Build!JobFails, Build!EndWork
  <2>2. \A b \in 1 .. MaxBuilds : stages'[b] = None
    BY <1>24, <1>100 DEF Build!CleanStage, StageIsThere, DiskTyped
  <2> QED
    BY <2>1, <2>2
<1>25. CASE Build!ReadMarker
  BY <1>25, <1>100 DEF Build!ReadMarker, Build!ObserveEnds, Build!EndWork, StageIsThere, Projecting,
     Placed, DiskTyped
<1>26. CASE Build!Validate("first", "second") \/ Build!Validate("second", "accept")
  <2>1. /\ buildPc \in {"first", "second"} /\ job = "observe" /\ live # None
        /\ UNCHANGED <<live, stages, verified, accepted>>
    BY <1>26, NoneIsApart DEF Build!Validate, Build!Judged, Placed, Projecting, Build!disk, Build!entry
  <2>2. \/ buildPc' = "idle" /\ job' = "none"
        \/ buildPc' \in {"second", "accept"} /\ input' = live.id /\ UNCHANGED job
    BY <1>26, <1>100 DEF Build!Validate, Build!Judged, Build!ObserveEnds, Build!EndWork
  <2>3. ~fails'
    BY <1>26, <1>100 DEF Build!Validate, Build!Judged, Build!ObserveEnds, Build!EndWork
  <2>4. \A b \in 1 .. MaxBuilds : stages'[b] = None
    BY <2>1
  <2> QED
    BY <2>1, <2>2, <2>3, <2>4
<1>27. CASE Build!RequireBuild
  BY <1>27, <1>100 DEF Build!RequireBuild, Build!Judged, Build!ObserveEnds, Build!EndWork, StageIsThere,
     Projecting, Placed, DiskTyped
<1>28. CASE Build!Accept
  BY <1>28, <1>100 DEF Build!Accept, Build!EndWork, Build!ObserveEnds, StageIsThere, Projecting, Placed,
     DiskTyped
<1>29. CASE Build!Stopped
  BY <1>29, <1>100 DEF Build!Stopped, Build!Idle, Build!Forget, Build!disk, Build!work, StageIsThere,
     Projecting, Placed, DiskTyped
<1>30. CASE Build!Crash
  BY <1>30, <1>100 DEF Build!Crash, Build!Torn, Build!EndWork, Build!Forget, StageIsThere, Projecting,
     Placed, DiskTyped
<1> QED
  BY <1>1, <1>2, <1>3, <1>4, <1>5, <1>6, <1>7, <1>8, <1>9, <1>10, <1>11, <1>12, <1>13, <1>14, <1>15,
     <1>16, <1>17, <1>18, <1>19, <1>20, <1>21, <1>22, <1>23, <1>24, <1>25, <1>26, <1>27, <1>28,
     <1>29, <1>30, Turns DEF Build!Work


\* What a step may do to a caller: it ends its call, and answers with what it may
\* be told, it goes on with it, or begins it.
Ends(c) ==
  /\ callers'[c].st = "idle"
  /\ callers[c].st # "idle" /\ MCKind[c] = "ensure" /\ callers'[c].answer \in Sources
       => callers'[c].answer \in callers[c].seen
Continues(c) ==
  /\ callers[c].st # "idle" /\ callers'[c].answer = callers[c].answer
  /\ callers[c].seen \subseteq callers'[c].seen /\ src' \in callers'[c].seen
  /\ callers'[c].st \in {"observed", "waiting"} =>
       callers[c].st \in {"observed", "waiting"} \/ job' = "none"
Begins(c) ==
  /\ callers'[c].answer = "none" /\ src' \in callers'[c].seen
  /\ MCKind[c] = "ensure" => callers'[c].st = "asked"
Moves(c) == Ends(c) \/ Continues(c) \/ Begins(c)

\* A call that is told of a failure has ended.
LEMMA SettledMoves ==
  ASSUME Build!BuildAssumption, callers \in [MCCallers -> Build!Caller], Asked, UNCHANGED src,
         NEW c \in MCCallers
  PROVE  /\ UNCHANGED callers => Moves(c)
         /\ \A a \in {"failed", "aborted"} : Build!Settled(a) => Moves(c)
         /\ \A b \in MCCallers, a \in {"failed", "aborted"} : callers' = Build!Answered(b, a) => Moves(c)
<1> USE DEF Moves, Ends, Continues, Asked, Build!Caller
<1>1. UNCHANGED callers => Moves(c)
  OBVIOUS
<1>2. ASSUME NEW a \in {"failed", "aborted"}, Build!Settled(a) PROVE Moves(c)
  <2>1. CASE callers'[c] = callers[c]
    BY <2>1
  <2>2. CASE callers'[c] # callers[c]
    BY <1>2, <2>2 DEF Build!Settled, Build!BuildAssumption
  <2> QED
    BY <2>1, <2>2
<1>3. ASSUME NEW b \in MCCallers, NEW a \in {"failed", "aborted"}, callers' = Build!Answered(b, a)
      PROVE  Moves(c)
  <2>1. CASE c # b
    BY <1>3, <2>1 DEF Build!Answered
  <2>2. CASE c = b
    BY <1>3, <2>2 DEF Build!Answered, Build!BuildAssumption
  <2> QED
    BY <2>1, <2>2
<1> QED
  BY <1>1, <1>2, <1>3

\* The end of a job ends calls or lets them go on.
LEMMA EndsMove ==
  ASSUME Build!BuildAssumption, callers \in [MCCallers -> Build!Caller], Scalars, Asked, UNCHANGED src,
         Served, Build!JobFails \/ Build!ObserveEnds, NEW c \in MCCallers
  PROVE  Moves(c)
<1>1. CASE Build!JobFails
  BY <1>1, SettledMoves DEF Build!JobFails, Scalars
<1>2. CASE Build!ObserveEnds
  <2>1. CASE UNCHANGED callers
    BY <2>1, SettledMoves
  <2>2. CASE server # None /\ server \in MCCallers /\ callers' = [callers EXCEPT ![server].st = "observed"]
    <3>1. job' = "none"
      BY <1>2 DEF Build!ObserveEnds, Build!EndWork
    <3>2. /\ callers'[c].answer = callers[c].answer /\ callers'[c].seen = callers[c].seen
          /\ c # server => callers'[c] = callers[c]
      BY <2>2 DEF Build!Caller
    <3>3. CASE callers[c].st # "idle"
      BY <3>1, <3>2, <3>3 DEF Moves, Continues, Asked
    <3>4. CASE callers[c].st = "idle"
      BY <2>2, <3>2, <3>4 DEF Moves, Ends, Served
    <3> QED
      BY <3>3, <3>4
  <2> QED
    BY <1>2, <2>1, <2>2 DEF Build!ObserveEnds, Scalars
<1> QED
  BY <1>1, <1>2

\* The job of a caller finds it waiting for that job.
LEMMA ServedKept ==
  ASSUME Scalars, callers \in [MCCallers -> Build!Caller], Served, Build!Next
  PROVE  Served'
<1> USE DEF Served, Build!Go, Build!Now, Build!Then, Build!Idle, Build!WorkSame, Build!RecoverSame,
Build!BuildSame, Build!ProjectSame, Build!GiveUp, Build!Undo,
            Build!CallerSame, Build!disk, Build!entry, Build!work
<1>1. ASSUME NEW c \in MCCallers, Build!Call(c) PROVE Served'
  BY <1>1 DEF Build!Call, Scalars, Build!Caller
<1>2. ASSUME NEW c \in MCCallers, Build!ObserveNothing(c) PROVE Served'
  BY <1>2 DEF Build!ObserveNothing, Scalars, Build!Caller
<1>3. ASSUME NEW c \in MCCallers, Build!ReuseCurrent(c) PROVE Served'
  BY <1>3 DEF Build!ReuseCurrent, Build!Answered, Scalars, Build!Caller
<1>4. ASSUME NEW c \in MCCallers, Build!Rebuild(c) PROVE Served'
  BY <1>4 DEF Build!Rebuild, Build!Answered, Scalars, Build!Caller
<1>5. ASSUME NEW c \in MCCallers, Build!Cancel(c) PROVE Served'
  BY <1>5 DEF Build!Cancel, Scalars, Build!Caller
<1>6. CASE Build!EditSource
  BY <1>6 DEF Build!EditSource, Scalars, Build!Caller
<1>7. ASSUME NEW c \in MCCallers \cup {None}, Build!StartObserve(c) PROVE Served'
  BY <1>7 DEF Build!StartObserve
<1>8. CASE Build!StartBuild
  BY <1>8 DEF Build!StartBuild, Build!Settled
<1>9. CASE Build!RecoverStage
  BY <1>9 DEF Build!RecoverStage
<1>10. CASE Build!UndoLive
  BY <1>10 DEF Build!UndoLive
<1>11. CASE Build!RenameBack
  BY <1>11 DEF Build!RenameBack
<1>12. CASE Build!RemoveLeft
  BY <1>12 DEF Build!RemoveLeft
<1>13. CASE Build!Recovered
  BY <1>13 DEF Build!Recovered
<1>14. CASE Build!RecoverFails
  BY <1>14 DEF Build!RecoverFails, Build!JobFails, Build!EndWork, Build!Settled, Build!Answered
<1>15. CASE Build!Fails
  BY <1>15 DEF Build!Fails, Build!JobFails, Build!EndWork, Build!Settled, Build!Answered
<1>16. CASE Build!Capture
  BY <1>16 DEF Build!Capture
<1>17. CASE Build!Portable
  BY <1>17 DEF Build!Portable
<1>18. CASE Build!Confirm
  BY <1>18 DEF Build!Confirm
<1>19. CASE Build!FillStage
  BY <1>19 DEF Build!FillStage
<1>20. CASE Build!MarkProjection
  BY <1>20 DEF Build!MarkProjection
<1>21. CASE Build!MoveOld
  BY <1>21 DEF Build!MoveOld
<1>22. CASE Build!MoveNew
  BY <1>22 DEF Build!MoveNew
<1>23. CASE Build!Verify
  BY <1>23 DEF Build!Verify
<1>24. CASE Build!CommitBuild
  BY <1>24 DEF Build!CommitBuild
<1>25. CASE Build!DropBackup
  BY <1>25 DEF Build!DropBackup
<1>26. CASE Build!Rollback
  BY <1>26 DEF Build!Rollback, Build!Projected
<1>27. CASE Build!RollbackMove
  BY <1>27 DEF Build!RollbackMove
<1>28. CASE Build!RollbackFails
  BY <1>28 DEF Build!RollbackFails, Build!JobFails, Build!EndWork, Build!Settled, Build!Answered
<1>29. CASE Build!CleanStage
  BY <1>29 DEF Build!CleanStage, Build!JobFails, Build!EndWork, Build!Settled, Build!Answered
<1>30. CASE Build!ReadMarker
  BY <1>30 DEF Build!ReadMarker, Build!ObserveEnds, Build!EndWork
<1>31. CASE Build!Validate("first", "second") \/ Build!Validate("second", "accept")
  BY <1>31 DEF Build!Validate, Build!Valid, Build!Judged, Build!ObserveEnds, Build!EndWork
<1>32. CASE Build!RequireBuild
  BY <1>32 DEF Build!RequireBuild, Build!Judged, Build!ObserveEnds, Build!EndWork
<1>33. CASE Build!Accept
  BY <1>33 DEF Build!Accept, Build!EndWork, Build!Settled, Build!ObserveEnds
<1>34. CASE Build!Stop
  BY <1>34 DEF Build!Stop, Scalars, Build!Caller
<1>35. CASE Build!Stopped
  BY <1>35 DEF Build!Stopped, Build!Forget, Build!Quiet
<1>36. CASE Build!Crash
  BY <1>36 DEF Build!Crash, Build!EndWork, Build!Forget, Build!Quiet
<1>37. CASE Build!Restart
  BY <1>37 DEF Build!Restart, Scalars, Build!Caller
<1> QED
  BY <1>1, <1>2, <1>3, <1>4, <1>5, <1>6, <1>7, <1>8, <1>9, <1>10, <1>11, <1>12, <1>13, <1>14, <1>15,
     <1>16, <1>17, <1>18, <1>19, <1>20, <1>21, <1>22, <1>23, <1>24, <1>25, <1>26, <1>27, <1>28,
     <1>29, <1>30, <1>31, <1>32, <1>33, <1>34, <1>35, <1>36, <1>37 DEF Build!Next, Build!Work


\* Every step ends a call with an answer that it may be told, goes on with it or
\* begins it.
LEMMA EveryoneMoves ==
  ASSUME Build!BuildAssumption, Scalars, Placed, callers \in [MCCallers -> Build!Caller], Served, Asked,
         Joined,
         Build!Next, NEW c \in MCCallers
  PROVE  Moves(c)
<1>1. CASE UNCHANGED <<src, callers>>
  BY <1>1, SettledMoves
<1>2. CASE Build!JobFails \/ Build!ObserveEnds
  BY <1>2, EndsMove DEF Build!JobFails, Build!ObserveEnds
<1>3. CASE Build!EditSource
  <2>1. PICK s \in Sources : src' = s /\ callers' = [d \in MCCallers |->
               IF callers[d].st = "idle" THEN callers[d]
               ELSE [callers[d] EXCEPT !.seen = @ \cup {s}]]
    BY <1>3 DEF Build!EditSource
  <2> QED
    BY <2>1 DEF Moves, Ends, Continues, Asked, Build!Caller
<1>4. ASSUME NEW d \in MCCallers,
             Build!Call(d) \/ Build!ObserveNothing(d) \/ Build!ReuseCurrent(d) \/ Build!Rebuild(d) \/ Build!Cancel(d)
      PROVE  Moves(c)
  <2>1. UNCHANGED <<src, job>>
    BY <1>4 DEF Build!Call, Build!ObserveNothing, Build!ReuseCurrent, Build!Rebuild, Build!Cancel,
       Build!CallerSame, Build!disk, Build!work
  <2>2. CASE callers'[c] = callers[c]
    BY <2>1, <2>2 DEF Moves, Ends, Continues, Asked
  <2>3. CASE c = d /\ Build!Call(d)
    BY <2>1, <2>3 DEF Build!Call, Moves, Begins
  <2>4. CASE c = d /\ Build!ObserveNothing(d)
    <3>1. job' = "none" /\ callers[c].st = "asked"
      BY <2>1, <2>4 DEF Build!ObserveNothing, Build!Idle
    <3>2. callers'[c].seen = callers[c].seen /\ callers'[c].answer = callers[c].answer
      BY <2>4 DEF Build!ObserveNothing, Build!Caller
    <3> QED
      BY <2>1, <3>1, <3>2 DEF Moves, Continues, Asked
  <2>5. CASE c = d /\ Build!ReuseCurrent(d)
    <3>1. callers[c].st = "observed" /\ callers'[c].st = "idle" /\ callers'[c].answer = src
      BY <2>5 DEF Build!ReuseCurrent, Build!Answered, Build!Caller
    <3> QED
      BY <3>1 DEF Moves, Ends, Asked
  <2>6. CASE c = d /\ Build!Rebuild(d)
    <3>1. CASE callers' = Build!Answered(c, "aborted")
      BY <2>1, <3>1, SettledMoves
    <3>2. CASE callers' = [callers EXCEPT ![c].st = "waiting"]
      BY <2>1, <2>6, <3>2 DEF Build!Rebuild, Moves, Continues, Asked, Build!Caller
    <3> QED
      BY <2>6, <3>1, <3>2 DEF Build!Rebuild
  <2>7. CASE c = d /\ Build!Cancel(d)
    <3>1. CASE callers' = [callers EXCEPT ![c].cancelled = TRUE]
      BY <2>1, <2>7, <3>1 DEF Build!Cancel, Moves, Continues, Asked, Build!Caller
    <3>2. CASE callers' = [callers EXCEPT ![c].st = "idle", ![c].answer = "aborted", ![c].cancelled = TRUE]
      BY <3>2 DEF Moves, Ends, Build!Caller, Build!BuildAssumption
    <3> QED
      BY <2>7, <3>1, <3>2 DEF Build!Cancel
  <2>8. c # d => callers'[c] = callers[c]
    BY <1>4 DEF Build!Call, Build!ObserveNothing, Build!ReuseCurrent, Build!Rebuild, Build!Cancel,
       Build!Answered
  <2> QED
    BY <1>4, <2>2, <2>3, <2>4, <2>5, <2>6, <2>7, <2>8
<1>5. CASE Build!StartBuild
  <2>1. UNCHANGED src /\ (UNCHANGED callers \/ Build!Settled("aborted"))
    BY <1>5 DEF Build!StartBuild, Build!disk
  <2> QED
    BY <2>1, SettledMoves
<1>6. ASSUME NEW d \in MCCallers \cup {None}, Build!StartObserve(d) PROVE UNCHANGED <<src, callers>>
  BY <1>6 DEF Build!StartObserve, Build!disk
<1>7. Build!RecoverStage \/ Build!UndoLive \/ Build!RenameBack \/ Build!RemoveLeft \/ Build!Recovered
        => UNCHANGED <<src, callers>>
  BY DEF Build!RecoverStage, Build!UndoLive, Build!RenameBack, Build!RemoveLeft, Build!Recovered,
     Build!RecoverSame, Build!WorkSame
<1>8. Build!RecoverFails \/ Build!Fails \/ Build!RollbackFails => Build!JobFails
  BY DEF Build!RecoverFails, Build!Fails, Build!RollbackFails
<1>9. Build!Capture \/ Build!Portable \/ Build!Confirm \/ Build!CommitBuild => UNCHANGED <<src, callers>>
  BY DEF Build!Capture, Build!Portable, Build!Confirm, Build!CommitBuild, Build!BuildSame, Build!disk
<1>10. Build!FillStage \/ Build!MarkProjection \/ Build!MoveOld \/ Build!MoveNew \/ Build!Verify \/ Build!DropBackup \/ Build!Rollback
         \/ Build!RollbackMove => UNCHANGED <<src, callers>>
  BY DEF Build!FillStage, Build!MarkProjection, Build!MoveOld, Build!MoveNew, Build!Verify,
     Build!DropBackup, Build!Rollback, Build!RollbackMove,
         Build!ProjectSame, Build!BuildSame
<1>11. Build!CleanStage => UNCHANGED <<src, callers>> \/ Build!JobFails
  BY DEF Build!CleanStage, Build!BuildSame
<1>12. Build!ReadMarker \/ Build!RequireBuild => UNCHANGED <<src, callers>> \/ Build!ObserveEnds
  BY DEF Build!ReadMarker, Build!RequireBuild, Build!Judged
<1>13. Build!Validate("first", "second") \/ Build!Validate("second", "accept")
         => UNCHANGED <<src, callers>> \/ Build!ObserveEnds
  BY DEF Build!Validate, Build!Judged, Build!disk
<1>14. CASE Build!Accept /\ ~Build!ObserveEnds
  <2>1. buildPc = "accept" /\ job = "build" /\ UNCHANGED src /\ (Build!Settled(input) \/ Build!Settled("failed"))
    BY <1>14 DEF Build!Accept
  <2>2. CASE Build!Settled("failed")
    BY <2>1, <2>2, SettledMoves
  <2>3. CASE Build!Settled(input)
    <3>1. CASE callers[c].st = "waiting"
      <4>1. callers'[c].st = "idle" /\ callers'[c].answer = input
        BY <2>3, <3>1 DEF Build!Settled, Build!Caller
      <4>2. MCKind[c] = "ensure" => input \in callers[c].seen
        BY <2>1, <3>1 DEF Joined, Settling
      <4> QED
        BY <4>1, <4>2 DEF Moves, Ends
    <3>2. CASE callers[c].st # "waiting"
      <4>1. callers'[c] = callers[c]
        BY <2>3, <3>2 DEF Build!Settled
      <4>2. CASE callers[c].st = "idle"
        BY <4>1, <4>2 DEF Moves, Ends
      <4>3. CASE callers[c].st # "idle"
        BY <2>1, <4>1, <4>3 DEF Moves, Continues, Asked
      <4> QED
        BY <4>2, <4>3
    <3> QED
      BY <3>1, <3>2
  <2> QED
    BY <2>1, <2>2, <2>3
<1>15. Build!Stop \/ Build!Restart => UNCHANGED <<src, callers>>
  BY DEF Build!Stop, Build!Restart, Build!CallerSame, Build!disk
<1>16. CASE Build!Stopped \/ Build!Crash
  <2>1. callers'[c] = Build!Quiet
    BY <1>16 DEF Build!Stopped, Build!Crash, Build!Forget
  <2> QED
    BY <2>1 DEF Moves, Ends, Build!Quiet, Build!BuildAssumption
<1>17. CASE Build!Work
  <2>1. UNCHANGED <<src, callers>> \/ Build!JobFails \/ Build!ObserveEnds \/ Build!Accept
    BY <1>7, <1>8, <1>9, <1>10, <1>11, <1>12, <1>13, <1>17 DEF Build!Work
  <2> QED
    BY <1>1, <1>2, <1>14, <2>1
<1>18. CASE \E d \in MCCallers :
        Build!Call(d) \/ Build!ObserveNothing(d) \/ Build!ReuseCurrent(d) \/ Build!Rebuild(d) \/ Build!Cancel(d)
  BY <1>4, <1>18
<1> QED
  BY <1>1, <1>3, <1>5, <1>6, <1>15, <1>16, <1>17, <1>18 DEF Build!Next

\* A call knows every source that the draft has had since it began.
LEMMA AskedKept ==
  ASSUME Build!BuildAssumption, Scalars, Placed, callers \in [MCCallers -> Build!Caller], Served, Asked,
         Joined, Build!Next
  PROVE  Asked'
BY EveryoneMoves DEF Asked, Moves, Ends, Continues, Begins

\* A build is made from one source, the one it captured.
\* A build that has captured its source does not change it.
LEMMA OneInput ==
  ASSUME Placed, Build!Next, job' = "build", buildPc' \notin Settling \cup {"recover", "capture"}
  PROVE  /\ job = "build"
         /\ \/ buildPc \notin Settling \cup {"recover", "capture"} /\ UNCHANGED input
            \/ buildPc = "capture" /\ input' = src
<1> DEFINE OneSource == /\ job = "build"
                        /\ \/ buildPc \notin Settling \cup {"recover", "capture"} /\ UNCHANGED input
                           \/ buildPc = "capture" /\ input' = src
<1> SUFFICES OneSource
  OBVIOUS
<1> USE DEF Settling, StaysPut, Build!Go, Build!Now, Build!Then, Build!GiveUp, Build!Undo, Build!WorkSame,
Build!RecoverSame, Build!ProjectSame, Build!BuildSame
<1>1. CASE StaysPut
  BY <1>1 DEF Placed
<1>2. ASSUME NEW c \in MCCallers \cup {None}, Build!StartObserve(c) PROVE OneSource
  BY <1>2 DEF Build!StartObserve, Build!Idle, Build!disk, Build!entry, Placed
<1>3. CASE Build!StartBuild
  BY <1>3 DEF Build!StartBuild, Build!Idle, Build!disk, Placed
<1>4. CASE Build!RecoverStage
  BY <1>4 DEF Build!RecoverStage, Placed
<1>5. CASE Build!UndoLive
  BY <1>5 DEF Build!UndoLive, Placed
<1>6. CASE Build!RenameBack
  BY <1>6 DEF Build!RenameBack, Placed
<1>7. CASE Build!RemoveLeft
  BY <1>7 DEF Build!RemoveLeft, Placed
<1>8. CASE Build!Recovered
  BY <1>8 DEF Build!Recovered, Placed
<1>9. CASE Build!RecoverFails
  BY <1>9 DEF Build!RecoverFails, Build!JobFails, Build!EndWork, Placed
<1>10. CASE Build!Fails
  BY <1>10 DEF Build!Fails, Build!JobFails, Build!EndWork, Placed
<1>11. CASE Build!Capture
  BY <1>11 DEF Build!Capture, Build!disk, Placed
<1>12. CASE Build!Portable
  BY <1>12 DEF Build!Portable, Build!disk, Placed
<1>13. CASE Build!Confirm
  BY <1>13 DEF Build!Confirm, Placed
<1>14. CASE Build!FillStage
  BY <1>14 DEF Build!FillStage, Placed
<1>15. CASE Build!MarkProjection
  BY <1>15 DEF Build!MarkProjection, Placed
<1>16. CASE Build!MoveOld
  BY <1>16 DEF Build!MoveOld, Placed
<1>17. CASE Build!MoveNew
  BY <1>17 DEF Build!MoveNew, Placed
<1>18. CASE Build!Verify
  BY <1>18 DEF Build!Verify, Placed
<1>19. CASE Build!CommitBuild
  BY <1>19 DEF Build!CommitBuild, Placed
<1>20. CASE Build!DropBackup
  BY <1>20 DEF Build!DropBackup, Placed
<1>21. CASE Build!Rollback
  BY <1>21 DEF Build!Rollback, Build!Projected, Placed
<1>22. CASE Build!RollbackMove
  BY <1>22 DEF Build!RollbackMove, Placed
<1>23. CASE Build!RollbackFails
  BY <1>23 DEF Build!RollbackFails, Build!JobFails, Build!EndWork, Placed
<1>24. CASE Build!CleanStage
  BY <1>24 DEF Build!CleanStage, Build!JobFails, Build!EndWork, Placed
<1>25. CASE Build!ReadMarker
  BY <1>25 DEF Build!ReadMarker, Build!ObserveEnds, Build!EndWork, Placed
<1>26. CASE Build!Validate("first", "second") \/ Build!Validate("second", "accept")
  BY <1>26 DEF Build!Validate, Build!disk, Build!entry, Build!Judged, Build!ObserveEnds, Build!EndWork,
     Placed
<1>27. CASE Build!RequireBuild
  BY <1>27 DEF Build!RequireBuild, Build!Judged, Build!ObserveEnds, Build!EndWork, Placed
<1>28. CASE Build!Accept
  BY <1>28 DEF Build!Accept, Build!EndWork, Build!ObserveEnds, Placed
<1>29. CASE Build!Stopped
  BY <1>29 DEF Build!Stopped, Build!Idle, Build!Forget, Build!disk, Build!work, Placed
<1>30. CASE Build!Crash
  BY <1>30 DEF Build!Crash, Build!EndWork, Build!Forget, Placed
<1> QED
  BY <1>1, <1>2, <1>3, <1>4, <1>5, <1>6, <1>7, <1>8, <1>9, <1>10, <1>11, <1>12, <1>13, <1>14, <1>15,
     <1>16, <1>17, <1>18, <1>19, <1>20, <1>21, <1>22, <1>23, <1>24, <1>25, <1>26, <1>27, <1>28,
     <1>29, <1>30, Turns DEF Build!Work

\* Who may be answered by the running build has seen the source that it is made of.
LEMMA JoinedKept ==
  ASSUME Build!BuildAssumption, Scalars, Placed, callers \in [MCCallers -> Build!Caller], Served, Asked,
         Joined, Build!Next
  PROVE  Joined'
<1> SUFFICES ASSUME job' = "build", buildPc' \notin Settling \cup {"recover", "capture"},
                    NEW c \in MCCallers, MCKind[c] = "ensure", callers'[c].st \in {"observed", "waiting"}
             PROVE  input' \in callers'[c].seen
  BY DEF Joined
<1>1. Continues(c)
  BY EveryoneMoves DEF Moves, Ends, Begins
<1>2. input' \in callers[c].seen
  BY <1>1, OneInput DEF Continues, Joined, Asked
<1> QED
  BY <1>1, <1>2 DEF Continues

\* A widget begins with a good dist or none.
LEMMA InitHolds == ASSUME Build!BuildAssumption, Build!Init PROVE BuildInv
<1> USE DEF Build!Init
<1>1. live = None \/ live \in Build!Dist
  <2>1. [id |-> src, stamp |-> 0, whole |-> TRUE] \in Build!Dist
    BY Zero DEF Build!Dist
  <2> QED
    BY <2>1
<1>2. DiskTyped
  BY <1>1, NoneIsApart DEF DiskTyped
<1>3. Scalars /\ Flags
  BY Zero DEF Scalars, Flags
<1>4. callers \in [MCCallers -> Build!Caller]
  BY DEF Build!Quiet, Build!Caller
<1>5. counts \in Build!Counts
  BY DEF Build!Counts, Build!Stamps, Build!BuildAssumption
<1>6. Placed /\ StageIsThere /\ Projecting
  BY DEF Placed, StageIsThere, Projecting, Replaced, Projection, BeforeStage, Settling
<1>7. StagesSound
  BY DEF StagesSound
<1>8. LiveSound
  BY <1>1 DEF LiveSound, Good
<1>9. Untroubled
  BY DEF Untroubled, Replaced, Kept, Settling
<1>10. Fresh
  BY DEF Fresh, Served, Asked, Joined, Build!Quiet
<1> QED
  BY <1>2, <1>3, <1>4, <1>5, <1>6, <1>7, <1>8, <1>9, <1>10 DEF BuildInv, Typed

\* Every step of the builds keeps the invariant.
LEMMA NextKeeps == ASSUME Build!BuildAssumption, BuildInv, Build!Next PROVE BuildInv'
<1> USE DEF BuildInv, Typed
<1>1. Scalars' /\ Flags' /\ DiskTyped'
  BY ScalarsKept, FlagsKept, DiskKept
<1>2. callers' \in [MCCallers -> Build!Caller] /\ counts' \in Build!Counts'
  BY CallersKept, CountsKept DEF Build!Counts
<1>3. Placed' /\ StageIsThere' /\ Projecting'
  BY PlacedKept, StageKept, ProjectingKept
<1>4. StagesSound' /\ LiveSound'
  BY StagesSoundKept, LiveSoundKept
<1>5. NoFailure' => Untroubled'
  BY CountsKept, UntroubledKept
<1>6. Fresh'
  BY ServedKept, AskedKept, JoinedKept DEF Fresh
<1>7. Typed'
  BY <1>1, <1>2 DEF Build!Caller
<1> QED
  BY <1>3, <1>4, <1>5, <1>6, <1>7

LEMMA SameKeeps == ASSUME BuildInv, UNCHANGED Build!vars PROVE BuildInv'
<1> USE DEF Build!vars, Build!disk, Build!entry, Build!work
<1>1. Typed'
  BY DEF BuildInv, Typed, Scalars, Flags, DiskTyped
<1>2. Placed' /\ StageIsThere'
  BY DEF BuildInv, Placed, StageIsThere
<1>3. Projecting'
  BY DEF BuildInv, Projecting, Replaced, Good
<1>4. StagesSound'
  BY DEF BuildInv, StagesSound, SoundStage, Good
<1>5. LiveSound'
  BY DEF BuildInv, LiveSound, Good
<1>6. NoFailure' => Untroubled'
  BY DEF BuildInv, NoFailure, Untroubled, Replaced, Kept
<1>7. Fresh'
  BY DEF BuildInv, Fresh, Served, Asked, Joined
<1> QED
  BY <1>1, <1>2, <1>3, <1>4, <1>5, <1>6, <1>7 DEF BuildInv

LEMMA InvariantTypes == ASSUME Build!BuildAssumption, BuildInv PROVE Build!TypeOK
BY NoneIsApart DEF BuildInv, Typed, Scalars, Flags, DiskTyped, Build!TypeOK, Projection, BeforeStage,
   Settling

LEMMA InvariantVerifies == ASSUME BuildInv PROVE Build!LiveIsVerified
BY DEF BuildInv, LiveSound, Build!LiveIsVerified, Good, Build!AtRest, Build!Idle

LEMMA InvariantKeepsLastGood ==
  ASSUME BuildInv, counts.faults + counts.crashes = 0 PROVE Build!LastGoodIsKept /\ Build!AcceptedIsOnDisk
<1>1. Untroubled
  BY DEF BuildInv, NoFailure
<1>2. ASSUME Build!AtRest PROVE Kept = live /\ ~Replaced /\ buildPc \notin Projection
  BY <1>2 DEF Build!AtRest, Build!Idle, Kept, Replaced, Projection
<1> QED
  BY <1>1, <1>2 DEF Untroubled, Build!LastGoodIsKept, Build!AcceptedIsOnDisk, Build!Left

\* An answer that is a source is one the caller has seen.
LEMMA AnswersAreFresh ==
  ASSUME Build!BuildAssumption, BuildInv, Build!Next, NEW c \in MCCallers,
         MCKind[c] = "ensure", callers[c].st # "idle", callers'[c].answer \in Sources
  PROVE  callers'[c].answer \in callers[c].seen
<1>1. Moves(c)
  BY EveryoneMoves DEF BuildInv, Typed, Fresh
<1>2. callers[c].answer = "none" /\ "none" \notin Sources
  BY DEF BuildInv, Fresh, Asked, Build!BuildAssumption
<1> QED
  BY <1>1, <1>2 DEF Moves, Ends, Continues, Begins

-----------------------------------------------------------------------------
(* The behaviours of MCWidgets: the builds go on, or stay as they begin.    *)

BuildStep == Build!Next \/ UNCHANGED Build!vars

LEMMA OneStep == [Next]_vars => BuildStep
BY DEF Next, vars, buildVars, BuildStep, InPublication, InDeletion, InBuild,
       Build!vars, Build!disk, Build!entry, Build!work

LEMMA BuildBegins == Init => BuildInv
BY InitHolds, WidgetsAssumption DEF Init

LEMMA BuildGoesOn == BuildInv /\ [Next]_vars => BuildInv'
BY OneStep, NextKeeps, SameKeeps, WidgetsAssumption DEF BuildStep

\* For any callers' calls, edits, builds, failing file operations, stops and
\* crashes at any point of a projection or a recovery: at rest the dist is one
\* whose build was verified and committed; while nothing fails a committed dist
\* is never lost, no stage is left, and the accepted generation is the dist on
\* disk (WidgetBuildGenerationService).
THEOREM LiveStaysVerified == Spec => []LiveIsVerified
<1>1. BuildInv => LiveIsVerified
  BY InvariantTypes, InvariantVerifies, InvariantKeepsLastGood, WidgetsAssumption DEF LiveIsVerified
<1> QED
  BY <1>1, BuildBegins, BuildGoesOn, PTL DEF Spec

Answer ==
  \A c \in MCCallers :
      MCKind[c] = "ensure" /\ callers[c].st # "idle" /\ callers'[c].answer \in Sources
          => callers'[c].answer \in callers[c].seen

\* A caller of ensureCurrent is answered with the build of a source that the
\* draft had during its call, also when the build was begun by another caller
\* or the draft is edited while it runs (ensureCurrent, rebuild, runHostBuild).
THEOREM AnswersStayFresh == Spec => EnsureIsFresh
<1>1. BuildInv /\ [Next]_vars => [Answer]_Build!vars
  BY OneStep, AnswersAreFresh, WidgetsAssumption DEF BuildStep, Answer
<1>2. Spec => [][Answer]_Build!vars
  BY <1>1, BuildBegins, BuildGoesOn, PTL DEF Spec
<1> QED
  BY <1>2 DEF EnsureIsFresh, Build!EnsureIsFresh, Answer
==============================================================================
