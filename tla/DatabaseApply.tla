---------------------------- MODULE DatabaseApply ----------------------------
(***************************************************************************)
(* One database resource: its structure drafts, the runs that apply a      *)
(* draft to the live file or restore a backup, user writes, and the        *)
(* reconciliation of interrupted runs, at startup and when a client polls. *)
(* Three records that no transaction spans must agree: the files, the      *)
(* control rows (runs, drafts) and the catalog status.                     *)
(*                                                                         *)
(* A file is its content: what drafts, user writes and apply markers it    *)
(* holds.  A file that is missing or half copied is Broken: every health   *)
(* check of it fails.  Draining the functions that use the resource is     *)
(* one step that may time out.                                             *)
(***************************************************************************)
EXTENDS Integers, FiniteSets

CONSTANTS
  NRuns,      \* runs are numbered in the order they are created
  NDrafts,    \* drafts likewise
  MaxChanges, \* bound: changes of a draft
  MaxWrites,  \* bound: user writes
  MaxCrashes, \* bound: crashes of the process
  MaxFaults   \* bound: file operations and control writes that fail

BoundsAssumption ==
  {NRuns, NDrafts, MaxChanges, MaxWrites, MaxCrashes, MaxFaults} \subseteq Nat

VARIABLES
  live,      \* the live database file
  backup,    \* run -> the backup file made before it
  draft,     \* draft -> status, evidence in its file, changes in its rows
  run,       \* run -> status, draft, source, retained
  catalog,   \* the status of the resource in the catalog
  task,      \* run -> where its executeApply, executeRestore or reconcileApply is
  gate,      \* the run that holds the manager's gate, or 0
  blocked,   \* DbResource refuses new writes
  writer,    \* a user write: none, its status check read, admitted
  lane,      \* the draft operation in the coordinator's lane
  dropping,  \* a discarded draft whose status was read, or 0
  discarding,\* a backup being discarded, or 0
  boot,      \* where startup is
  written,   \* history: the user writes the live file owes
  discarded, \* history: runs whose backup the user discarded
  crashes, faults

files == <<live, backup>>
rows == <<draft, run, catalog>>
memory == <<task, gate, blocked, writer, lane, dropping, discarding, boot>>
ghosts == <<written, discarded>>
bounds == <<crashes, faults>>
vars == <<files, rows, memory, ghosts, bounds>>

Runs == 1..NRuns
Drafts == 1..NDrafts
Active == {"preparing", "applying"}

Broken == [ok |-> FALSE, changes |-> [d \in Drafts |-> 0], writes |-> 0, marks |-> {}]
File == [ok: BOOLEAN, changes: [Drafts -> 0..MaxChanges], writes: Nat, marks: SUBSET Runs]
Idle == [pc |-> "idle", out |-> "none", keep |-> FALSE]
NoLane == [op |-> "none", of |-> 0]

Init ==
  /\ live = [Broken EXCEPT !.ok = TRUE]
  /\ backup = [r \in Runs |-> Broken]
  /\ draft = [d \in Drafts |-> [status |-> "none", proof |-> -1, changes |-> 0]]
  /\ run = [r \in Runs |-> [status |-> "none", of |-> 0, source |-> 0, retained |-> FALSE]]
  /\ catalog = "ready"
  /\ task = [r \in Runs |-> Idle]
  /\ gate = 0 /\ blocked = FALSE /\ writer = "none"
  /\ lane = NoLane /\ dropping = 0 /\ discarding = 0 /\ boot = "done"
  /\ written = 0 /\ discarded = {}
  /\ crashes = 0 /\ faults = 0

NoActive == \A r \in Runs : run[r].status \notin Active
Open == boot = "done"
Fault == faults < MaxFaults /\ faults' = faults + 1 /\ UNCHANGED crashes
Fine == UNCHANGED bounds
At(r, pc) == task[r].pc = pc
To(r, pc) == task' = [task EXCEPT ![r].pc = pc]
ToWith(r, pc, out, keep) == task' = [task EXCEPT ![r] = [pc |-> pc, out |-> out, keep |-> keep]]
Leave(r) == task' = [task EXCEPT ![r] = Idle]

----------------------------------------------------------------------------
(* User writes.  The catalog status is read first, the block when the      *)
(* provider admits the write; the write runs later and is acknowledged     *)
(* when it commits.                                                        *)

WriteChecked ==
  /\ Open /\ writer = "none" /\ catalog = "ready"
  /\ written < MaxWrites
  /\ writer' = "checked"
  /\ UNCHANGED <<files, rows, task, gate, blocked, lane, dropping, discarding, boot, ghosts, bounds>>

WriteAdmitted ==
  /\ writer = "checked"
  /\ writer' = IF blocked THEN "none" ELSE "admitted"
  /\ UNCHANGED <<files, rows, task, gate, blocked, lane, dropping, discarding, boot, ghosts, bounds>>

WriteRuns ==
  /\ writer = "admitted"
  /\ writer' = "none"
  /\ IF live.ok
       THEN live' = [live EXCEPT !.writes = @ + 1] /\ written' = written + 1
       ELSE UNCHANGED <<live, written>>
  /\ UNCHANGED <<backup, rows, task, gate, blocked, lane, dropping, discarding, boot, discarded, bounds>>

----------------------------------------------------------------------------
(* Drafts.  Each operation touches the draft's file, then its row, in the  *)
(* coordinator's lane and inside the manager's gate.                       *)

LaneFree == Open /\ lane = NoLane
DraftTurn == LaneFree /\ gate = 0 /\ catalog = "ready"

CreateDraft(d) ==
  /\ DraftTurn /\ NoActive
  /\ \A e \in Drafts : draft[e].status \notin {"editing", "applying"}
  /\ draft[d].status = "none" /\ \A e \in 1..(d - 1) : draft[e].status # "none"
  /\ draft' = [draft EXCEPT ![d].status = "editing"]
  /\ lane' = [op |-> "create", of |-> d]
  /\ UNCHANGED <<files, run, catalog, task, gate, blocked, writer, dropping, discarding, boot, ghosts, bounds>>

ChangeDraft(d) ==
  /\ DraftTurn
  /\ draft[d].status = "editing" /\ draft[d].proof \in 0..(MaxChanges - 1)
  /\ draft' = [draft EXCEPT ![d].proof = @ + 1]
  /\ lane' = [op |-> "change", of |-> d]
  /\ UNCHANGED <<files, run, catalog, task, gate, blocked, writer, dropping, discarding, boot, ghosts, bounds>>

\* The status of a draft is read before its discard waits for gate and lane.
DiscardDraft(d) ==
  /\ Open /\ dropping = 0
  /\ draft[d].status \in {"editing", "error"}
  /\ dropping' = d
  /\ UNCHANGED <<files, rows, task, gate, blocked, writer, lane, discarding, boot, ghosts, bounds>>

DropFile ==
  /\ dropping # 0
  /\ DraftTurn
  /\ draft' = [draft EXCEPT ![dropping].proof = -1]
  /\ lane' = [op |-> "drop", of |-> dropping]
  /\ dropping' = 0
  /\ UNCHANGED <<files, run, catalog, task, gate, blocked, writer, discarding, boot, ghosts, bounds>>

\* The second half of the operation in the lane; a failure of it leaves the
\* file and the row apart, except that a failed creation marks the draft.
RowOf(d) ==
  CASE lane.op = "create" /\ live.ok -> [draft[d] EXCEPT !.proof = 0]
    [] lane.op = "create" /\ ~live.ok -> [draft[d] EXCEPT !.status = "error"]
    [] lane.op = "change" /\ draft[d].status = "editing" /\ draft[d].changes + 1 = draft[d].proof ->
         [draft[d] EXCEPT !.changes = @ + 1]
    [] lane.op = "drop" /\ draft[d].status \in {"editing", "error"} ->
         [draft[d] EXCEPT !.status = "discarded"]
    [] OTHER -> draft[d]

FinishDraftOperation ==
  /\ lane # NoLane
  /\ \/ Fine /\ draft' = [draft EXCEPT ![lane.of] = RowOf(lane.of)]
     \/ /\ Fault
        /\ draft' = IF lane.op = "create" THEN [draft EXCEPT ![lane.of].status = "error"] ELSE draft
  /\ lane' = NoLane
  /\ UNCHANGED <<files, run, catalog, task, gate, blocked, writer, dropping, discarding, boot, ghosts>>

----------------------------------------------------------------------------
(* Starting a run                                                          *)

Unused == {r \in Runs : run[r].status = "none" /\ \A q \in 1..(r - 1) : run[q].status # "none"}

ConfirmApply(d) ==
  /\ LaneFree /\ NoActive
  /\ draft[d].status = "editing" /\ catalog = "ready"
  /\ \E r \in Unused :
       /\ run' = [run EXCEPT ![r].status = "preparing", ![r].of = d]
       /\ To(r, "uses")
  /\ draft' = [draft EXCEPT ![d].status = "applying"]
  /\ UNCHANGED <<files, catalog, gate, blocked, writer, lane, dropping, discarding, boot, ghosts, bounds>>

Restore(s) ==
  /\ LaneFree /\ NoActive
  /\ catalog = "ready" /\ run[s].retained /\ backup[s].ok
  /\ \E r \in Unused :
       /\ run' = [run EXCEPT ![r].status = "preparing", ![r].source = s]
       /\ To(r, "uses")
  /\ UNCHANGED <<files, draft, catalog, gate, blocked, writer, lane, dropping, discarding, boot, ghosts, bounds>>

\* The backup's files go first, the row that says it is retained second.
DiscardBackup(r) ==
  /\ LaneFree /\ catalog = "ready" /\ discarding = 0
  /\ run[r].retained
  /\ backup' = [backup EXCEPT ![r] = Broken]
  /\ discarding' = r
  /\ discarded' = discarded \cup {r}
  /\ UNCHANGED <<live, rows, task, gate, blocked, writer, lane, dropping, boot, written, bounds>>

DiscardBackupRow ==
  /\ discarding # 0
  /\ \/ Fine /\ run' = [run EXCEPT ![discarding].retained = FALSE]
     \/ Fault /\ UNCHANGED run
  /\ discarding' = 0
  /\ UNCHANGED <<files, draft, catalog, task, gate, blocked, writer, lane, dropping, boot, ghosts>>

----------------------------------------------------------------------------
(* executeApply and executeRestore, up to the file operations              *)

DrainUses(r) ==
  /\ At(r, "uses")
  /\ \E pc \in {"mark", "fail"} : To(r, pc)
  /\ UNCHANGED <<files, rows, gate, blocked, writer, lane, dropping, discarding, boot, ghosts, bounds>>

MarkApplying(r) ==
  /\ At(r, "mark")
  /\ \/ Fine /\ run' = [run EXCEPT ![r].status = "applying"] /\ To(r, IF run[r].of # 0 THEN "check" ELSE "gate")
     \/ Fault /\ UNCHANGED run /\ To(r, "fail")
  /\ UNCHANGED <<files, draft, catalog, gate, blocked, writer, lane, dropping, discarding, boot, ghosts>>

\* What is applied are the rows of the draft; they must match the evidence
\* recorded in the draft's own file.
Validated(r) == draft[run[r].of].proof = draft[run[r].of].changes

CheckDraft(r) ==
  /\ At(r, "check")
  /\ To(r, IF Validated(r) THEN "gate" ELSE "fail")
  /\ UNCHANGED <<files, rows, gate, blocked, writer, lane, dropping, discarding, boot, ghosts, bounds>>

\* The manager's gate, then the catalog status.
EnterGate(r) ==
  /\ At(r, "gate") /\ gate = 0 /\ lane = NoLane
  /\ IF catalog = "ready"
       THEN gate' = r /\ To(r, "migrate")
       ELSE UNCHANGED gate /\ To(r, "fail")
  /\ UNCHANGED <<files, rows, blocked, writer, lane, dropping, discarding, boot, ghosts, bounds>>

MarkMigrating(r) ==
  /\ At(r, "migrate")
  /\ \/ Fine /\ catalog' = "migrating" /\ To(r, "block") /\ UNCHANGED gate
     \/ Fault /\ UNCHANGED catalog /\ To(r, "fail") /\ gate' = 0
  /\ UNCHANGED <<files, draft, run, blocked, writer, lane, dropping, discarding, boot, ghosts>>

Block(r) ==
  /\ At(r, "block")
  /\ blocked' = TRUE
  /\ To(r, "drain")
  /\ UNCHANGED <<files, rows, gate, writer, lane, dropping, discarding, boot, ghosts, bounds>>

Drained == writer # "admitted"

Drain(r) ==
  /\ At(r, "drain") /\ Drained
  /\ IF run[r].of # 0 THEN To(r, "backup")
     ELSE To(r, IF backup[run[r].source].ok THEN "overwrite" ELSE "thrown")
  /\ UNCHANGED <<files, rows, gate, blocked, writer, lane, dropping, discarding, boot, ghosts, bounds>>

----------------------------------------------------------------------------
(* applyDraft: back up, change in one transaction with the marker, verify; *)
(* undo from the backup when that fails.  A copy first removes its target. *)

\* Mutant of CopyBackup.
NoBackup(r) ==
  /\ At(r, "backup") /\ To(r, "change") /\ Fine
  /\ UNCHANGED <<files, rows, gate, blocked, writer, lane, dropping, discarding, boot, ghosts>>

\* A crash in the middle leaves half a copy: Broken, as before.
CopyBackup(r) ==
  /\ At(r, "backup")
  /\ \/ live.ok /\ Fine /\ backup' = [backup EXCEPT ![r] = live] /\ To(r, "change")
     \/ ~live.ok /\ Fine /\ To(r, "thrown") /\ UNCHANGED backup
     \/ Fault /\ To(r, "thrown") /\ UNCHANGED backup
  /\ UNCHANGED <<live, rows, gate, blocked, writer, lane, dropping, discarding, boot, ghosts>>

Changed(r) ==
  LET d == run[r].of IN
  [live EXCEPT !.changes[d] = draft[d].changes, !.marks = @ \cup {r}]

\* The transaction may always fail: the changes were tried on another copy.
ChangeLive(r) ==
  /\ At(r, "change")
  /\ \/ live' = Changed(r) /\ To(r, "verify")
     \/ UNCHANGED live /\ To(r, "undo")
  /\ UNCHANGED <<backup, rows, gate, blocked, writer, lane, dropping, discarding, boot, ghosts, bounds>>

VerifyLive(r) ==
  /\ At(r, "verify")
  /\ \/ ToWith(r, "reopen", "succeeded", TRUE)
     \/ To(r, "undo")
  /\ UNCHANGED <<files, rows, gate, blocked, writer, lane, dropping, discarding, boot, ghosts, bounds>>

UndoStarts(r) ==
  /\ At(r, "undo")
  /\ live' = Broken
  /\ To(r, "undone")
  /\ UNCHANGED <<backup, rows, gate, blocked, writer, lane, dropping, discarding, boot, ghosts, bounds>>

UndoEnds(r) ==
  /\ At(r, "undone")
  /\ \/ Fine /\ live' = backup[r] /\ ToWith(r, "reopen", "recovered", TRUE)
     \/ Fault /\ UNCHANGED live /\ To(r, "thrown")
  /\ UNCHANGED <<backup, rows, gate, blocked, writer, lane, dropping, discarding, boot, ghosts>>

(* restoreBackup: copy the backup over the live file, verify, stamp.       *)

OverwriteStarts(r) ==
  /\ At(r, "overwrite")
  /\ IF backup[run[r].source].ok
       THEN live' = Broken /\ To(r, "overwritten")
       ELSE UNCHANGED live /\ To(r, "thrown")
  /\ UNCHANGED <<backup, rows, gate, blocked, writer, lane, dropping, discarding, boot, ghosts, bounds>>

OverwriteEnds(r) ==
  LET source == backup[run[r].source] IN
  /\ At(r, "overwritten")
  /\ \/ source.ok /\ Fine /\ live' = source /\ written' = source.writes /\ To(r, "stamp")
     \/ ~source.ok /\ Fine /\ UNCHANGED <<live, written>> /\ To(r, "thrown")
     \/ Fault /\ UNCHANGED <<live, written>> /\ To(r, "thrown")
  /\ UNCHANGED <<backup, rows, gate, blocked, writer, lane, dropping, discarding, boot, discarded>>

StampLive(r) ==
  /\ At(r, "stamp")
  /\ \/ Fine /\ live' = [live EXCEPT !.marks = @ \cup {r}] /\ ToWith(r, "reopen", "succeeded", FALSE)
     \/ Fault /\ UNCHANGED live /\ To(r, "thrown")
  /\ UNCHANGED <<backup, rows, gate, blocked, writer, lane, dropping, discarding, boot, ghosts>>

----------------------------------------------------------------------------
(* Leaving the gate and settling the run                                   *)

\* An apply that threw before its backup was verified removes the backup.
MarkReady(r) ==
  /\ At(r, "reopen")
  /\ \/ Fine /\ catalog' = "ready" /\ gate' = 0 /\ To(r, "finish")
     \/ Fault /\ UNCHANGED <<catalog, gate>> /\ ToWith(r, "thrown", "none", FALSE)
  /\ blocked' = FALSE
  /\ UNCHANGED <<files, draft, run, writer, lane, dropping, discarding, boot, ghosts>>

\* The write that marks the error may fail too; its failure is swallowed.
MarkError(r) ==
  /\ At(r, "thrown")
  /\ \/ Fine /\ catalog' = "error"
     \/ Fault /\ UNCHANGED catalog
  /\ blocked' = FALSE /\ gate' = 0
  /\ To(r, "fail")
  /\ UNCHANGED <<files, draft, run, writer, lane, dropping, discarding, boot, ghosts>>

DraftAfter(out, other) ==
  CASE out = "succeeded" -> "applied" [] out = "recovered" -> "editing" [] OTHER -> other

\* The run and its draft, in one transaction.
Settled(r, out, keep, other) ==
  /\ run' = [run EXCEPT ![r].status = out, ![r].retained = keep]
  /\ draft' = IF run[r].of = 0 THEN draft
              ELSE [draft EXCEPT ![run[r].of].status = DraftAfter(out, other)]

Finish(r) ==
  /\ At(r, "finish")
  /\ \/ Fine /\ Settled(r, task[r].out, task[r].keep, "editing") /\ Leave(r)
     \/ Fault /\ UNCHANGED <<run, draft>> /\ To(r, "fail")
  /\ UNCHANGED <<files, catalog, gate, blocked, writer, lane, dropping, discarding, boot, ghosts>>

\* The catch branch: whatever was thrown, a run that is still open fails.
FailRun(r) ==
  /\ At(r, "fail")
  /\ \/ Fine /\ Settled(r, "failed", run[r].retained, "editing")
     \/ Fault /\ UNCHANGED <<run, draft>>
  /\ Leave(r)
  /\ UNCHANGED <<files, catalog, gate, blocked, writer, lane, dropping, discarding, boot, ghosts>>

----------------------------------------------------------------------------
(* Reconciliation of a run nobody executes: a client polls it after its    *)
(* grace period, or startup finds it.                                      *)

\* Mutant of Unowned.
UnownedApplying(r) == run[r].status = "applying" /\ task[r] = Idle

Unowned(r) == run[r].status \in Active /\ task[r] = Idle

PollStaleRun(r) ==
  /\ Open /\ Unowned(r)
  /\ To(r, "look")
  /\ UNCHANGED <<files, rows, gate, blocked, writer, lane, dropping, discarding, boot, ghosts, bounds>>

Baseline(r) == IF run[r].source # 0 THEN run[r].source ELSE r
\* Mutant of Marked.
MarkedAnyhow(r) == live.ok

Marked(r) == live.ok /\ r \in live.marks

\* Committed only with a healthy live file, the marker and a baseline.
Verdict(r) ==
  LET kept == backup[r].ok \/ backup[Baseline(r)].ok IN
  CASE Marked(r) /\ backup[Baseline(r)].ok -> [pc |-> "settle", out |-> "succeeded", keep |-> kept]
    [] ~(Marked(r) /\ backup[Baseline(r)].ok)
         /\ (run[r].source # 0 \/ ~live.ok \/ Marked(r)) /\ backup[Baseline(r)].ok ->
         [pc |-> "recopy", out |-> "recovered", keep |-> TRUE]
    [] OTHER -> [pc |-> "settle", out |-> "failed", keep |-> kept]

Look(r) ==
  /\ At(r, "look")
  /\ task' = [task EXCEPT ![r] = Verdict(r)]
  /\ blocked' = (Verdict(r).pc = "recopy")
  /\ UNCHANGED <<files, rows, gate, writer, lane, dropping, discarding, boot, ghosts, bounds>>

Unrecoverable(r) == ToWith(r, "settle", "failed", backup[r].ok \/ backup[Baseline(r)].ok) /\ blocked' = FALSE

RecopyStarts(r) ==
  /\ At(r, "recopy")
  /\ IF backup[Baseline(r)].ok
       THEN live' = Broken /\ To(r, "recopied") /\ UNCHANGED blocked
       ELSE UNCHANGED live /\ Unrecoverable(r)
  /\ UNCHANGED <<backup, rows, gate, writer, lane, dropping, discarding, boot, ghosts, bounds>>

RecopyEnds(r) ==
  LET source == backup[Baseline(r)] IN
  /\ At(r, "recopied")
  /\ \/ /\ source.ok /\ Fine
        /\ live' = source /\ written' = source.writes
        /\ IF run[r].source # 0
             THEN To(r, "restamp") /\ UNCHANGED blocked
             ELSE To(r, "settle") /\ blocked' = FALSE
     \/ ~source.ok /\ Fine /\ Unrecoverable(r) /\ UNCHANGED <<live, written>>
     \/ Fault /\ Unrecoverable(r) /\ UNCHANGED <<live, written>>
  /\ UNCHANGED <<backup, rows, gate, writer, lane, dropping, discarding, boot, discarded>>

Restamp(r) ==
  /\ At(r, "restamp")
  /\ \/ Fine /\ live' = [live EXCEPT !.marks = @ \cup {r}] /\ To(r, "settle") /\ blocked' = FALSE
     \/ Fault /\ UNCHANGED live /\ Unrecoverable(r)
  /\ UNCHANGED <<backup, rows, gate, writer, lane, dropping, discarding, boot, ghosts>>

\* At startup a failure here rejects the start, which is then made again.
Settle(r) ==
  /\ At(r, "settle")
  /\ \/ /\ Fine
        /\ Settled(r, task[r].out, task[r].keep, "error")
        /\ To(r, "release") /\ UNCHANGED boot
     \/ /\ Fault
        /\ Leave(r) /\ boot' = (IF Open THEN boot ELSE "files")
        /\ UNCHANGED <<run, draft>>
  /\ UNCHANGED <<files, catalog, gate, blocked, writer, lane, dropping, discarding, ghosts>>

\* Compare-and-set from migrating, inside the gate.
Release(r) ==
  /\ At(r, "release") /\ gate = 0
  /\ catalog' = IF catalog # "migrating" THEN catalog
                ELSE IF task[r].out = "failed" THEN "error" ELSE "ready"
  /\ Leave(r)
  /\ UNCHANGED <<files, draft, run, gate, blocked, writer, lane, dropping, discarding, boot, ghosts, bounds>>

----------------------------------------------------------------------------
(* Crash and startup                                                       *)

Crash ==
  /\ crashes < MaxCrashes /\ crashes' = crashes + 1
  /\ task' = [r \in Runs |-> Idle]
  /\ gate' = 0 /\ blocked' = FALSE /\ writer' = "none"
  /\ lane' = NoLane /\ dropping' = 0 /\ discarding' = 0
  /\ boot' = "files"
  /\ UNCHANGED <<files, rows, ghosts, faults>>

\* The store verifies a ready resource before the coordinator's turn.
BootFiles ==
  /\ boot = "files"
  /\ catalog' = IF catalog = "ready" /\ ~live.ok THEN "error" ELSE catalog
  /\ boot' = "runs"
  /\ UNCHANGED <<files, draft, run, task, gate, blocked, writer, lane, dropping, discarding, ghosts, bounds>>

BootRun(r) ==
  /\ boot = "runs" /\ Unowned(r) /\ \A q \in Runs : task[q] = Idle
  /\ To(r, "look")
  /\ UNCHANGED <<files, rows, gate, blocked, writer, lane, dropping, discarding, boot, ghosts, bounds>>

Orphaned(d) == draft[d].status = "applying" /\ \A r \in Runs : ~(run[r].of = d /\ run[r].status \in Active)

BootDone ==
  /\ boot = "runs" /\ NoActive /\ \A q \in Runs : task[q] = Idle
  /\ draft' = [d \in Drafts |-> IF Orphaned(d) THEN [draft[d] EXCEPT !.status = "error"] ELSE draft[d]]
  /\ catalog' = IF catalog = "migrating" THEN "ready" ELSE catalog
  /\ boot' = "done"
  /\ UNCHANGED <<files, run, task, gate, blocked, writer, lane, dropping, discarding, ghosts, bounds>>

----------------------------------------------------------------------------
Execute(r) ==
  \/ DrainUses(r) \/ MarkApplying(r) \/ CheckDraft(r) \/ EnterGate(r)
  \/ MarkMigrating(r) \/ Block(r) \/ Drain(r)
  \/ CopyBackup(r) \/ ChangeLive(r) \/ VerifyLive(r) \/ UndoStarts(r) \/ UndoEnds(r)
  \/ OverwriteStarts(r) \/ OverwriteEnds(r) \/ StampLive(r)
  \/ MarkReady(r) \/ MarkError(r) \/ Finish(r) \/ FailRun(r)

Reconcile(r) ==
  \/ Look(r) \/ RecopyStarts(r) \/ RecopyEnds(r) \/ Restamp(r) \/ Settle(r) \/ Release(r)

Next ==
  \/ WriteChecked \/ WriteAdmitted \/ WriteRuns
  \/ \E d \in Drafts : CreateDraft(d) \/ ChangeDraft(d) \/ DiscardDraft(d) \/ ConfirmApply(d)
  \/ DropFile \/ FinishDraftOperation
  \/ \E r \in Runs : Restore(r) \/ DiscardBackup(r) \/ PollStaleRun(r) \/ BootRun(r)
  \/ \E r \in Runs : Execute(r) \/ Reconcile(r)
  \/ DiscardBackupRow \/ BootFiles \/ BootDone \/ Crash

Spec == Init /\ [][Next]_vars

\* Promises settle, startup proceeds, and the page that shows a run polls it.
Fairness ==
  /\ WF_vars(WriteRuns) /\ WF_vars(FinishDraftOperation) /\ WF_vars(DiscardBackupRow)
  /\ WF_vars(BootFiles) /\ WF_vars(BootDone)
  /\ \A r \in Runs : WF_vars(Execute(r)) /\ WF_vars(Reconcile(r)) /\ WF_vars(PollStaleRun(r) \/ BootRun(r))

FairSpec == Spec /\ Fairness
----------------------------------------------------------------------------
(* Properties                                                              *)

TypeOK ==
  /\ live \in File /\ backup \in [Runs -> File]
  /\ draft \in [Drafts -> [status: {"none", "editing", "applying", "applied", "error", "discarded"},
                            proof: -1..MaxChanges, changes: 0..MaxChanges]]
  /\ run \in [Runs -> [status: Active \cup {"none", "succeeded", "failed", "recovered"},
                        of: Drafts \cup {0}, source: Runs \cup {0}, retained: BOOLEAN]]
  /\ catalog \in {"ready", "migrating", "error"}
  /\ gate \in Runs \cup {0} /\ blocked \in BOOLEAN /\ writer \in {"none", "checked", "admitted"}
  /\ dropping \in Drafts \cup {0} /\ discarding \in Runs \cup {0}
  /\ boot \in {"done", "files", "runs"}

\* A backup was discarded after a restore from it had begun.
PulledAway == \E r \in Runs : run[r].source \in discarded

\* Outside database work, a resource the catalog calls ready has a healthy
\* live file: startup and every way out of a run consult the files before
\* they settle the catalog (DbResourceCoordinator, ResourceManager).  Only a
\* user who discards the backup that is being restored can break that.
ReadyIsHealthy == Open /\ catalog = "ready" /\ ~blocked => live.ok \/ PulledAway

\* A run is reported succeeded only when the live file holds its marker, and
\* an apply is reported recovered only when the live file is healthy and has
\* none of it (executeApply, reconcileApply).
VerdictIsTrue ==
  [][\A r \in Runs : run[r].status \in Active =>
       /\ run'[r].status = "succeeded" => r \in live.marks
       /\ run'[r].status = "recovered" /\ run[r].of # 0 => live.ok /\ r \notin live.marks]_vars

\* When the terminal write of an apply is lost, its row stays open and
\* reconcilable; it is not settled against the verdict that was reached
\* (the outcome of a run that failed to finish is kept in its task).
LostVerdictStaysOpen ==
  [][\A r \in Runs : At(r, "fail") /\ task[r].out = "succeeded" => run'[r].status # "failed"]_vars

\* A write that was acknowledged survives applies, undone applies, crashes
\* and recoveries; only a restore takes the file back (DbResource block and
\* drain before the backup is made).
NoAcknowledgedWriteLost == live.ok => live.writes = written

\* While the live file is not healthy there is a verified backup to recover
\* from, unless the user discarded one (applyDraft, restoreBackup).
RecoverySource == ~live.ok => discarded # {} \/ \E r \in Runs : backup[r].ok

\* A backup is the database before its run, and an apply that says it
\* retained one has it until the user discards it.
BackupIsBefore ==
  \A r \in Runs :
    /\ r \notin backup[r].marks
    /\ run[r].of # 0 /\ run[r].retained => backup[r].ok \/ r \in discarded

\* A draft is applying exactly while a run of it is open, and there is one
\* open run and one active draft at most (the rows change together).
OneOpenRun ==
  /\ \A d \in Drafts : draft[d].status = "applying" <=> \E r \in Runs : run[r].of = d /\ run[r].status \in Active
  /\ Cardinality({r \in Runs : run[r].status \in Active}) <= 1
  /\ Cardinality({d \in Drafts : draft[d].status \in {"editing", "applying"}}) <= 1

\* An applied draft changed the live database by what its own file had been
\* changed by when it was reviewed, or its file is gone by now.
AppliedIsReviewed == \A d \in Drafts : draft[d].status = "applied" => draft[d].proof \in {-1, draft[d].changes}

\* The page says there is no retained backup only when there is none: while
\* the user discarded none, the newest run that claims one has it (getBackup).
OfferedBackup ==
  LET claims == {r \in Runs : run[r].retained /\ run[r].status \notin Active} IN
  discarded = {} => \A r \in claims : (\A q \in claims : q <= r) => backup[r].ok

\* Every run is settled, and the catalog does not stay at migrating.
EveryRunSettles == \A r \in Runs : run[r].status \in Active ~> run[r].status \notin Active
MigrationEnds == catalog = "migrating" ~> catalog # "migrating"

=============================================================================
