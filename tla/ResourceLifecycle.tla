------------------------- MODULE ResourceLifecycle -------------------------
(* The life of a resource in one process of the backend: its catalogue row, *)
(* its placement and its files, from the reservation to the deletion, with  *)
(* the calls that use it, the database migrations that block it, the stop   *)
(* that drains it, and the reconciliation of whatever a crash left, or a    *)
(* run whose last write to its row failed.                                  *)
(* src/apps/backend/src/shell: resources/local/ResourceStoreService,        *)
(* ResourceManager, resources/ResourceService, ResourceManagementProvider,  *)
(* database/ResourceControlStoreTurso.                                      *)
(*                                                                          *)
(* A provider (KvResource, SecretStoreResource, DbResource) is what the     *)
(* store uses of it: the files, the uses it tracks, the resources it blocks. *)
EXTENDS Naturals, Sequences, FiniteSets

CONSTANTS Resources,
          Ops,                     \* calls in the process, a slot each
          Boot,                    \* the reconciliation of ResourceService.start
          LostMarks,               \* whether the write of an error can fail too
          MaxFaults, MaxCrashes,   \* bounds: failed writes, crashes and stops
          None

LifecycleAssumption ==
    /\ IsFiniteSet(Resources) /\ IsFiniteSet(Ops) /\ Boot \notin Ops
    /\ None \notin Resources /\ None \notin Ops \cup {Boot}
    /\ LostMarks \in BOOLEAN /\ MaxFaults \in Nat /\ MaxCrashes \in Nat

Actors == Ops \cup {Boot}

VARIABLES \* durable
          status,     \* resource_catalog.status, absent and gone without a row
          placement,  \* resource_placements.status
          files,      \* the directory of the resource: none, partial, whole
          run,        \* the run whose row is preparing or applying: none, apply, restore
          marked,     \* resources whose database carries the marker of that run
          \* the process
          up,         \* down, starting, serving, quiesced, drained, closed
          todo,       \* what reconcile and then the coordinator still go through
          kind, res, pc,
          lane,       \* ResourceStoreService.#writeTails: the writes, in order
          gate,       \* ResourceManager.#resourceGateTails, in order
          blocked,    \* ResourceManager.#blockedResources
          fenced,     \* resources whose provider turns new uses away
          faults, crashes

durable == <<status, placement, files, run, marked>>
process == <<up, todo, kind, res, pc, lane, gate, blocked, fenced>>
vars == <<durable, process, faults, crashes>>

Kinds  == {"create", "read", "write", "apply", "delete"}
Writes == Kinds \ {"read"}
Runs   == {"apply", "restore"}

\* Inside the provider, for somebody the stop waits for; the part of an apply
\* that runs after its answer; and the reconciliation of a run, which ends with
\* the database sound or lost.
InProvider == {"using", "draining", "removing", "provisioning", "verifying", "swapping"}
Detached   == {"leasing", "admitting", "emptying", "swapping", "settling", "finishing"}
Recoveries == {"reconciling", "copying", "sound", "lost", "reopening", "condemning"}
Applying(o) == kind[o] = "apply" /\ pc[o] \in Detached \cup {"failing"}

TypeOK ==
    /\ status \in [Resources -> {"absent", "created", "provisioning", "ready",
                                 "migrating", "error", "deleting", "gone"}]
    /\ placement \in [Resources -> {"none", "reserved", "active"}]
    /\ files \in [Resources -> {"none", "partial", "whole"}]
    /\ run \in [Resources -> Runs \cup {"none"}]
    /\ marked \subseteq {r \in Resources : run[r] # "none" /\ files[r] = "whole"}
    /\ todo \subseteq Resources
    /\ up \in {"down", "starting", "settling", "serving", "quiesced", "drained", "closed"}
    /\ kind \in [Actors -> Kinds \cup {"poll", None}] /\ res \in [Actors -> Resources \cup {None}]
    /\ pc \in [Actors -> {"idle", "queued", "checked", "accepting", "gated", "failing", "activating",
                          "readying", "claiming", "forgetting"}
                         \cup InProvider \cup Detached \cup Recoveries]
    /\ \A r \in Resources : lane[r] \in Seq(Ops) /\ gate[r] \in Seq(Actors)
    /\ blocked \subseteq Resources /\ fenced \subseteq Resources
    /\ faults \in 0 .. MaxFaults /\ crashes \in 0 .. MaxCrashes

Init ==
    /\ status = [r \in Resources |-> "absent"] /\ placement = [r \in Resources |-> "none"]
    /\ files = [r \in Resources |-> "none"]
    /\ run = [r \in Resources |-> "none"] /\ marked = {} /\ todo = {} /\ up = "serving"
    /\ kind = [a \in Actors |-> None] /\ res = [a \in Actors |-> None]
    /\ pc = [a \in Actors |-> "idle"]
    /\ lane = [r \in Resources |-> <<>>] /\ gate = [r \in Resources |-> <<>>]
    /\ blocked = {} /\ fenced = {} /\ faults = 0 /\ crashes = 0

Row(r) == status[r] \notin {"absent", "gone"}
Uses(r) == {a \in Actors : pc[a] = "using" /\ res[a] = r}

At(a, p) == pc[a] = p
Go(a, p) == pc' = [pc EXCEPT ![a] = p]
SetStatus(r, s) == status' = [status EXCEPT ![r] = s]
SetFiles(r, f)  == files' = [files EXCEPT ![r] = f]

Open(r) == run[r] # "none"

Fault == faults < MaxFaults /\ faults' = faults + 1
NoFault == UNCHANGED <<faults, crashes>>

Without(q, a) == SelectSeq(q, LAMBDA o : o # a)
First(q, a) == q # <<>> /\ Head(q) = a

\* The end of a call: its promise settles and whatever it held is released.
Leave(a) ==
    /\ pc' = [pc EXCEPT ![a] = "idle"]
    /\ kind' = [kind EXCEPT ![a] = None] /\ res' = [res EXCEPT ![a] = None]
    /\ lane' = [lane EXCEPT ![res[a]] = Without(@, a)]
    /\ gate' = [gate EXCEPT ![res[a]] = Without(@, a)]

Held == UNCHANGED <<kind, res, lane, gate>>
Rest == UNCHANGED <<up, todo>>

-----------------------------------------------------------------------------
(* Calls                                                                    *)

\* A new call, admitted while the store is open.  A creation inserts the row
\* and the reserved placement in one transaction, at the head of a fresh lane.
Request(o, k, r) ==
    /\ up = "serving" /\ At(o, "idle")
    /\ (k = "create") <=> (status[r] = "absent")
    /\ kind' = [kind EXCEPT ![o] = k] /\ res' = [res EXCEPT ![o] = r]
    /\ IF k = "create"
       THEN /\ SetStatus(r, "created") /\ placement' = [placement EXCEPT ![r] = "reserved"]
            /\ Go(o, "claiming")
       ELSE Go(o, "queued") /\ UNCHANGED <<status, placement>>
    /\ lane' = IF k \in Writes THEN [lane EXCEPT ![r] = Append(@, o)] ELSE lane
    /\ UNCHANGED <<files, run, marked, gate, blocked, fenced>> /\ Rest /\ NoFault

\* #dispatchCall reads the row: a resource that is not ready refuses every call,
\* whatever the call asks for.
Callable(r) == status[r] = "ready"

Admit(o) ==
    /\ At(o, "queued") /\ (kind[o] \in Writes => First(lane[res[o]], o))
    /\ IF Callable(res[o]) THEN Go(o, "checked") /\ Held ELSE Leave(o)
    /\ UNCHANGED <<durable, blocked, fenced>> /\ Rest /\ NoFault

\* Then the placement, the capability and the permit are read, and the call is
\* handed to the provider, or to the manager when it is about the lifecycle.
Dispatch(o) ==
    LET r == res[o] IN
    /\ At(o, "checked")
    /\ \/ /\ placement[r] # "active" /\ Leave(o)
       \/ /\ placement[r] = "active" /\ kind[o] \in {"read", "write"}
          /\ IF r \in fenced \/ files[r] # "whole" THEN Leave(o) ELSE Go(o, "using") /\ Held
       \/ /\ placement[r] = "active" /\ kind[o] = "delete"
          /\ Go(o, "gated") /\ gate' = [gate EXCEPT ![r] = Append(@, o)]
          /\ UNCHANGED <<kind, res, lane>>
       \/ placement[r] = "active" /\ kind[o] = "apply" /\ Go(o, "accepting") /\ Held
    /\ UNCHANGED <<durable, blocked, fenced>> /\ Rest /\ NoFault

Finish(o) ==
    /\ At(o, "using") /\ Leave(o)
    /\ UNCHANGED <<durable, blocked, fenced>> /\ Rest /\ NoFault

-----------------------------------------------------------------------------
(* Creation, and the same steps from the reconciliation                     *)

\* created -> provisioning by compare-and-set, then provider.provision.
Claim(a) ==
    /\ At(a, "claiming")
    /\ \/ SetStatus(res[a], "provisioning") /\ Go(a, "provisioning") /\ NoFault
       \/ Fault /\ Go(a, "failing") /\ UNCHANGED <<status, crashes>>
    /\ UNCHANGED <<placement, files, run, marked, blocked, fenced>> /\ Held /\ Rest

\* The directory is made, then the database in it; a failure removes both.
Provision(a) ==
    LET r == res[a] IN
    /\ At(a, "provisioning")
    /\ \/ files[r] = "none" /\ SetFiles(r, "partial") /\ UNCHANGED pc /\ NoFault
       \/ files[r] = "partial" /\ SetFiles(r, "whole") /\ Go(a, "activating") /\ NoFault
       \/ Fault /\ SetFiles(r, "none") /\ Go(a, "failing") /\ UNCHANGED crashes
    /\ UNCHANGED <<status, placement, run, marked, blocked, fenced>> /\ Held /\ Rest

\* #activateReady: the placement first, then the row by compare-and-set.
Activate(a) ==
    /\ At(a, "activating")
    /\ \/ placement' = [placement EXCEPT ![res[a]] = "active"] /\ Go(a, "readying") /\ NoFault
       \/ Fault /\ Go(a, "failing") /\ UNCHANGED <<placement, crashes>>
    /\ UNCHANGED <<status, files, run, marked, blocked, fenced>> /\ Held /\ Rest

Ready(a) ==
    /\ At(a, "readying")
    /\ \/ SetStatus(res[a], "ready") /\ Leave(a) /\ NoFault
       \/ Fault /\ Go(a, "failing") /\ Held /\ UNCHANGED <<status, crashes>>
    /\ UNCHANGED <<placement, files, run, marked, blocked, fenced>> /\ Rest

\* #markError and #markResourceError: the row becomes error, or the write is
\* lost as well and the row keeps the status of the step that failed.
Fail(a) ==
    LET r == res[a] IN
    /\ At(a, "failing")
    /\ \/ SetStatus(r, "error") /\ NoFault
       \/ LostMarks /\ Fault /\ UNCHANGED <<status, crashes>>
    /\ IF kind[a] = "apply"
       THEN Go(a, "finishing") /\ Held /\ UNCHANGED blocked
       ELSE /\ Leave(a)
            /\ blocked' = IF First(gate[r], a) THEN blocked \ {r} ELSE blocked
    /\ UNCHANGED <<placement, files, run, marked, fenced>> /\ Rest

-----------------------------------------------------------------------------
(* Deletion                                                                 *)

\* ResourceManager.#deleteResource, in the write lane and then in the gate: no
\* lifecycle operation, no accepted apply, and the row says deleting before
\* the provider is asked.
Deletable(r) == r \notin blocked /\ ~Open(r)

BeginDelete(o) ==
    LET r == res[o] IN
    /\ At(o, "gated") /\ First(gate[r], o)
    /\ \/ ~Deletable(r) /\ Leave(o) /\ UNCHANGED <<status, blocked, fenced>> /\ NoFault
       \/ /\ Deletable(r) /\ SetStatus(r, "deleting")
          /\ blocked' = blocked \cup {r} /\ fenced' = fenced \cup {r}
          /\ Go(o, "draining") /\ Held /\ NoFault
       \/ Fault /\ Leave(o) /\ UNCHANGED <<status, blocked, fenced, crashes>>
    /\ UNCHANGED <<placement, files, run, marked>> /\ Rest

\* provider.delete waits for the uses it tracks.  Mutant: it does not.
DrainedAnyway(r) == TRUE
Drained(r) == Uses(r) = {}

DrainUses(a) ==
    /\ At(a, "draining") /\ Drained(res[a]) /\ Go(a, "removing")
    /\ UNCHANGED <<durable, blocked, fenced>> /\ Held /\ Rest /\ NoFault

Remove(a) ==
    LET r == res[a] IN
    /\ At(a, "removing")
    /\ \/ files[r] = "whole" /\ SetFiles(r, "partial") /\ UNCHANGED <<pc, fenced>> /\ NoFault
       \/ /\ files[r] # "whole" /\ SetFiles(r, "none") /\ Go(a, "forgetting")
          /\ fenced' = fenced \ {r} /\ NoFault
       \/ /\ Fault /\ Go(a, "failing") /\ fenced' = fenced \ {r}
          /\ UNCHANGED <<files, crashes>>
    /\ UNCHANGED <<status, placement, run, marked, blocked>> /\ Held /\ Rest

\* One transaction takes the row and, by reference, its placement.
Forget(a) ==
    LET r == res[a] IN
    /\ At(a, "forgetting")
    /\ \/ /\ SetStatus(r, "gone") /\ placement' = [placement EXCEPT ![r] = "none"]
          /\ blocked' = blocked \ {r} /\ Leave(a) /\ NoFault
       \/ /\ Fault /\ Go(a, "failing") /\ Held
          /\ UNCHANGED <<status, placement, blocked, crashes>>
    /\ UNCHANGED <<files, run, marked, fenced>> /\ Rest

-----------------------------------------------------------------------------
(* Migration: ResourceManager.#coordinateResourceMigration                  *)

\* First the consumers of the resource are drained, which may time out.
Lease(o) ==
    LET r == res[o] IN
    /\ At(o, "leasing")
    /\ \/ Go(o, "admitting") /\ gate' = [gate EXCEPT ![r] = Append(@, o)]
       \/ Go(o, "finishing") /\ UNCHANGED gate
    /\ UNCHANGED <<durable, kind, res, lane, blocked, fenced>> /\ Rest /\ NoFault

BeginMigration(o) ==
    LET r == res[o] IN
    /\ At(o, "admitting") /\ First(gate[r], o)
    /\ IF status[r] = "ready" /\ r \notin blocked
       THEN SetStatus(r, "migrating") /\ blocked' = blocked \cup {r}
            /\ fenced' = fenced \cup {r} /\ Go(o, "emptying")
       ELSE Go(o, "finishing") /\ UNCHANGED <<status, blocked, fenced>>
    /\ UNCHANGED <<placement, files, run, marked>> /\ Held /\ Rest /\ NoFault

StartSwap(o) ==
    /\ At(o, "emptying") /\ Drained(res[o])
    /\ Go(o, "swapping") /\ SetFiles(res[o], "partial")
    /\ UNCHANGED <<status, placement, run, marked, blocked, fenced>> /\ Held /\ Rest /\ NoFault

\* applyDraft or restoreBackup returns with a whole database, which carries the
\* marker unless an apply was undone with its backup, or throws.
EndSwap(o) ==
    LET r == res[o] IN
    /\ At(o, "swapping") /\ fenced' = fenced \ {r}
    /\ \/ /\ SetFiles(r, "whole") /\ Go(o, "settling") /\ NoFault
          /\ marked' \in {marked \cup {r}} \cup (IF run[r] = "apply" THEN {marked} ELSE {})
       \/ /\ Fault /\ files' \in {files, [files EXCEPT ![r] = "whole"]}
          /\ Go(o, "failing") /\ UNCHANGED <<marked, crashes>>
    /\ UNCHANGED <<status, placement, run, blocked>> /\ Held /\ Rest

\* The row returns to ready by compare-and-set, or is marked as failed.
Settle(o) ==
    LET r == res[o] IN
    /\ At(o, "settling")
    /\ \/ SetStatus(r, "ready") /\ Go(o, "finishing") /\ NoFault
       \/ Fault /\ Go(o, "failing") /\ UNCHANGED <<status, crashes>>
    /\ UNCHANGED <<placement, files, run, marked, blocked, fenced>> /\ Held /\ Rest

\* The row of the run gets its terminal status; a marker means nothing to the
\* runs that follow.
RunEnds(r) == run' = [run EXCEPT ![r] = "none"] /\ marked' = marked \ {r}

\* Out of the gate; if that write fails the run stays open and is nobody's.
EndApply(o) ==
    LET r == res[o] IN
    /\ At(o, "finishing") /\ Leave(o)
    /\ \/ RunEnds(r) /\ NoFault
       \/ Fault /\ UNCHANGED <<run, marked, crashes>>
    /\ blocked' = IF First(gate[r], o) THEN blocked \ {r} ELSE blocked
    /\ UNCHANGED <<status, placement, files, fenced>> /\ Rest

-----------------------------------------------------------------------------
(* Reconciliation of a run that nobody works on                             *)

Stale(r) ==
    Open(r) /\ \A a \in Actors : res[a] = r => ~Applying(a) /\ pc[a] \notin Recoveries

\* reconcileApply turns new calls away and waits for none.
Reconciles(a, r) ==
    /\ pc' = [pc EXCEPT ![a] = "reconciling"] /\ res' = [res EXCEPT ![a] = r]
    /\ fenced' = fenced \cup {r}

\* getApply and restoreStatus, asked by a client, reconcile a run that was left.
Poll(o, r) ==
    /\ up = "serving" /\ At(o, "idle") /\ Stale(r)
    /\ kind' = [kind EXCEPT ![o] = "poll"] /\ Reconciles(o, r)
    /\ UNCHANGED <<durable, lane, gate, blocked>> /\ Rest /\ NoFault

\* confirmApply and restore: a run that is open refuses another one, and one
\* that was left is reconciled first. They answer with the new row, and the
\* apply goes on alone.
Accept(o) ==
    LET r == res[o] IN
    /\ At(o, "accepting")
    /\ \/ Stale(r) /\ Reconciles(o, r) /\ UNCHANGED <<run, kind, lane, gate>>
       \/ Open(r) /\ Leave(o) /\ UNCHANGED <<run, fenced>>
       \/ /\ ~Open(r) /\ \E k \in Runs : run' = [run EXCEPT ![r] = k]
          /\ Go(o, "leasing") /\ lane' = [lane EXCEPT ![r] = Without(@, o)]
          /\ UNCHANGED <<kind, res, gate, fenced>>
    /\ UNCHANGED <<status, placement, files, marked, blocked>> /\ Rest /\ NoFault

\* A database that carries the marker is kept, and so is one that an apply left
\* as it was. Else the backup is copied over it, which removes it first; that of
\* a restore may have been discarded.
Reconcile(a) ==
    LET r == res[a] IN
    /\ At(a, "reconciling")
    /\ \/ /\ files[r] = "whole" /\ (r \in marked \/ run[r] = "apply")
          /\ Go(a, IF r \in marked THEN "sound" ELSE "lost") /\ fenced' = fenced \ {r}
          /\ UNCHANGED files
       \/ run[r] = "restore" /\ Go(a, "lost") /\ fenced' = fenced \ {r} /\ UNCHANGED files
       \/ /\ files[r] # "whole" \/ (run[r] = "restore" /\ r \notin marked)
          /\ SetFiles(r, "partial") /\ Go(a, "copying") /\ UNCHANGED fenced
    /\ UNCHANGED <<status, placement, run, marked, blocked>> /\ Held /\ Rest /\ NoFault

\* After the close the provider and the manager turn everything away.
Fails == (Fault /\ UNCHANGED crashes) \/ (up = "closed" /\ NoFault)

Recopy(a) ==
    LET r == res[a] IN
    /\ At(a, "copying") /\ fenced' = fenced \ {r}
    /\ \/ /\ SetFiles(r, "whole") /\ Go(a, "sound") /\ NoFault
          /\ marked' = IF run[r] = "restore" THEN marked \cup {r} ELSE marked
       \/ /\ Fails /\ files' \in {files, [files EXCEPT ![r] = "whole"]}
          /\ Go(a, "lost") /\ UNCHANGED marked
    /\ UNCHANGED <<status, placement, run, blocked>> /\ Held /\ Rest

\* A poll is answered, a confirmed apply looks at the rows again, and the start
\* goes on to the next run.
Reconciled(a) ==
    IF kind[a] = "apply"
    THEN /\ Go(a, "accepting") /\ gate' = [gate EXCEPT ![res[a]] = Without(@, a)]
         /\ UNCHANGED <<kind, res, lane>>
    ELSE Leave(a)

Cleared ==
    /\ kind' = [a \in Actors |-> None] /\ res' = [a \in Actors |-> None]
    /\ pc' = [a \in Actors |-> "idle"]
    /\ lane' = [r \in Resources |-> <<>>] /\ gate' = [r \in Resources |-> <<>>]
    /\ blocked' = {} /\ fenced' = {}

\* A write that throws leaves the run to the next poll; a start is rejected.
GivesUp(a) ==
    IF a = Boot THEN up' = "down" /\ todo' = {} /\ Cleared
    ELSE Reconciled(a) /\ UNCHANGED <<blocked, fenced>> /\ Rest

EndRun(a) ==
    LET r == res[a] IN
    /\ pc[a] \in {"sound", "lost"}
    /\ \/ /\ RunEnds(r) /\ gate' = [gate EXCEPT ![r] = Append(@, a)]
          /\ Go(a, IF At(a, "sound") THEN "reopening" ELSE "condemning")
          /\ UNCHANGED <<kind, res, lane, blocked, fenced>> /\ Rest /\ NoFault
       \/ Fault /\ GivesUp(a) /\ UNCHANGED <<run, marked, crashes>>
    /\ UNCHANGED <<status, placement, files>>

\* settleResourceMigration, in the gate: only a row that is migrating.
Settles(r, s) ==
    status' = IF status[r] = "migrating" THEN [status EXCEPT ![r] = s] ELSE status

SettleRow(a) ==
    /\ pc[a] \in {"reopening", "condemning"} /\ First(gate[res[a]], a)
    /\ \/ /\ Settles(res[a], IF At(a, "reopening") THEN "ready" ELSE "error")
          /\ Reconciled(a) /\ UNCHANGED <<blocked, fenced>> /\ Rest /\ NoFault
       \/ Fails /\ GivesUp(a) /\ UNCHANGED status
    /\ UNCHANGED <<placement, files, run, marked>>

-----------------------------------------------------------------------------
(* Stop, crash and start                                                    *)

StopSame == UNCHANGED <<durable, todo, kind, res, pc, lane, gate, blocked, fenced>>

\* #closeRuntime: quiesce, drain what was admitted, then the coordinator with
\* its detached applies, then the providers. Nobody waits for a poll.
Quiesce ==
    /\ up = "serving" /\ crashes < MaxCrashes /\ up' = "quiesced"
    /\ crashes' = crashes + 1 /\ UNCHANGED faults /\ StopSame

DrainStore ==
    /\ up = "quiesced" /\ \A o \in Ops : At(o, "idle") \/ Applying(o) \/ kind[o] = "poll"
    /\ up' = "drained" /\ StopSame /\ NoFault

AppliesDone == \A o \in Ops : ~Applying(o)

CloseProviders ==
    /\ up = "drained" /\ AppliesDone /\ up' = "closed" /\ StopSame /\ NoFault

Crash ==
    /\ up \notin {"down", "closed"} /\ crashes < MaxCrashes /\ crashes' = crashes + 1
    /\ up' = "down" /\ todo' = {} /\ Cleared /\ UNCHANGED <<durable, faults>>

Start ==
    /\ up \in {"down", "closed"} /\ up' = "starting"
    /\ todo' = {r \in Resources : Row(r)} /\ Cleared
    /\ UNCHANGED durable /\ NoFault

\* ResourceStoreService.#reconcile: one resource at a time, by its status.
\* Error is left as it is, and migrating is left to the coordinator.
Recovery(s) ==
    CASE s = "created" -> "claiming"
      [] s \in {"provisioning", "ready"} -> "verifying"
      [] s = "deleting" -> "draining"
      [] OTHER -> "idle"

Visit(r) ==
    /\ up = "starting" /\ At(Boot, "idle") /\ r \in todo /\ todo' = todo \ {r}
    /\ Go(Boot, Recovery(status[r]))
    /\ res' = [res EXCEPT ![Boot] = IF Recovery(status[r]) = "idle" THEN None ELSE r]
    /\ fenced' = IF status[r] = "deleting" THEN fenced \cup {r} ELSE fenced
    /\ UNCHANGED <<durable, up, kind, lane, gate, blocked>> /\ NoFault

\* provider.reconcile opens and checks the database.
Verify ==
    LET r == res[Boot] IN
    /\ At(Boot, "verifying")
    /\ \/ files[r] = "whole" /\ Go(Boot, "activating") /\ NoFault
       \/ files[r] # "whole" /\ Go(Boot, "failing") /\ NoFault
       \/ Fault /\ Go(Boot, "failing") /\ UNCHANGED crashes
    /\ UNCHANGED <<durable, blocked, fenced>> /\ Held /\ Rest

\* DbResourceCoordinator.reconcileStartup goes through the resources with an
\* active placement.
StoreReconciled ==
    /\ up = "starting" /\ At(Boot, "idle") /\ todo = {} /\ up' = "settling"
    /\ todo' = {r \in Resources : placement[r] = "active" /\ (status[r] = "migrating" \/ Open(r))}
    /\ UNCHANGED <<durable, kind, res, pc, lane, gate, blocked, fenced>> /\ NoFault

\* A run is reconciled; a row that is migrating without one is set to ready,
\* without a look at its database.
SettleRun(r) ==
    /\ up = "settling" /\ At(Boot, "idle") /\ r \in todo /\ Open(r)
    /\ todo' = todo \ {r} /\ Reconciles(Boot, r)
    /\ UNCHANGED <<durable, up, kind, lane, gate, blocked>> /\ NoFault

SettleLeftover(r) ==
    /\ up = "settling" /\ At(Boot, "idle") /\ r \in todo /\ ~Open(r)
    /\ \/ /\ Settles(r, "ready") /\ todo' = todo \ {r}
          /\ UNCHANGED <<up, kind, res, pc, lane, gate, blocked, fenced>> /\ NoFault
       \/ Fault /\ GivesUp(Boot) /\ UNCHANGED <<status, crashes>>
    /\ UNCHANGED <<placement, files, run, marked>>

Serve ==
    /\ up = "settling" /\ At(Boot, "idle") /\ todo = {} /\ up' = "serving" /\ StopSame /\ NoFault

-----------------------------------------------------------------------------
Lifecycle(a) ==
    Claim(a) \/ Provision(a) \/ Activate(a) \/ Ready(a) \/ Fail(a)
    \/ DrainUses(a) \/ Remove(a) \/ Forget(a)

Recovers(a) == Reconcile(a) \/ Recopy(a) \/ EndRun(a) \/ SettleRow(a)

OpStep(o) ==
    Admit(o) \/ Dispatch(o) \/ Accept(o) \/ Finish(o) \/ BeginDelete(o) \/ Lifecycle(o)
    \/ Recovers(o) \/ Lease(o) \/ BeginMigration(o) \/ StartSwap(o) \/ EndSwap(o) \/ Settle(o) \/ EndApply(o)

BootStep ==
    \/ Start \/ StoreReconciled \/ Serve \/ Verify \/ Lifecycle(Boot) \/ Recovers(Boot)
    \/ \E r \in Resources : Visit(r) \/ SettleRun(r) \/ SettleLeftover(r)

StopStep == DrainStore \/ CloseProviders

Next ==
    \/ \E o \in Ops : OpStep(o) \/ (\E r \in Resources : Poll(o, r) \/ \E k \in Kinds : Request(o, k, r))
    \/ BootStep \/ StopStep \/ Quiesce \/ Crash

Spec == Init /\ [][Next]_vars

\* Started calls go on, a stop goes on, and a process that is down is started.
Fairness == /\ \A o \in Ops : WF_vars(OpStep(o))
            /\ WF_vars(BootStep) /\ WF_vars(StopStep)

FairSpec == Spec /\ Fairness

-----------------------------------------------------------------------------
\* A ready row names a place for its files, through crashes, failed writes and
\* recovery: calls are admitted on the row alone.
ReadyIsPlaced == \A r \in Resources : status[r] = "ready" => placement[r] = "active"

\* A ready row stands for a whole database, and stops to do so in two ways only.
\* The interrupted restore of a resource that is ready is copied again, and may
\* fail half way: the settlement of the row then does nothing, as it is not
\* migrating (DbResourceCoordinator.#reconcileApply). Or a start finds a row
\* migrating, its error mark or the end of its reconciliation lost, and no run:
\* it is set to ready unseen (reconcileStartup).
ReadyBroken(r) == status[r] = "ready" /\ files[r] # "whole"

ReadyStaysWhole ==
    [][\A r \in Resources : ReadyBroken(r)' =>
          \/ ReadyBroken(r)
          \/ run[r] = "restore" /\ \E a \in Actors : res[a] = r /\ At(a, "reconciling")
          \/ up = "settling" /\ status[r] = "migrating" /\ ~Open(r)]_vars

\* Files are only ever found under a resource of the catalogue: no deletion
\* and no failed creation leaves a directory that nothing names.
NoOrphanFiles == \A r \in Resources : ~Row(r) => files[r] = "none"

\* An accepted apply still has its resource: a deletion does not start while
\* the apply waits for the gate outside the write lane.
ApplyKeepsResource ==
    \A r \in Resources : Open(r) => status[r] \notin {"deleting", "gone"}

\* A call that reached the provider keeps its files to its end: neither a
\* deletion nor a migration replaces them under it. Only the reconciliation of a
\* run that was left, which drains nobody, does (DbResource.reconcileApply).
UsesKeepFiles ==
    [][\A a \in Ops : pc[a] = "using" /\ pc'[a] = "using"
          => \/ files'[res[a]] = files[res[a]]
             \/ \E b \in Actors : res[b] = res[a] /\ pc[b] \in {"reconciling", "copying"}]_vars

\* Once the providers are closed nothing is inside them, detached applies
\* included; the reconciliation a poll began is the exception.
NothingAfterClose == up = "closed" => \A a \in Actors : pc[a] \notin InProvider

\* Every call is answered, every accepted apply and every stop ends.
CallsEnd == \A o \in Ops : pc[o] # "idle" ~> pc[o] = "idle"

\* A resource does not stay half made, half migrated or half deleted, as
\* long as the write of an error is not lost as well.
InterruptedWorkSettles ==
    \A r \in Resources :
        status[r] \in {"created", "provisioning", "migrating", "deleting"}
            ~> status[r] \in {"ready", "error", "gone"}

=============================================================================
