--------------------------- MODULE KeyValueHandles ---------------------------
(***************************************************************************)
(* The pool of open databases of the key-value store: calls take the       *)
(* handle of their resource from a cache, or wait in one admission queue   *)
(* for room to open it; idle handles are evicted for a newcomer or swept   *)
(* after a timeout; deletion, verification and shutdown close handles too. *)
(* Every await is a step boundary, so the steps of different calls         *)
(* interleave as the event loop can interleave them.                       *)
(*                                                                         *)
(* Which idle handle is evicted first (the least recently used) and when a *)
(* handle counts as expired are left open: any candidate may be chosen.    *)
(***************************************************************************)
EXTENDS Integers, Sequences, FiniteSets

CONSTANTS
  Resources,
  Calls,      \* the calls made, each once
  On,         \* call -> resource
  Writes,     \* the calls that write
  TwoPhase,   \* the writes that read their entry back, as set does
  Deleted,    \* resources that are deleted or verified at some time
  MaxOpen,    \* maxOpenHandles
  MaxFaults,  \* bound: opens and closes that fail
  MaxSweeps,  \* bound: sweeps of idle handles
  Shutdown    \* whether the store is closed at some time

PoolAssumption ==
  /\ On \in [Calls -> Resources] /\ TwoPhase \subseteq Writes /\ Writes \subseteq Calls
  /\ "sweep" \notin Calls /\ Deleted \subseteq Resources /\ MaxOpen \in Nat \ {0}
  /\ {MaxFaults, MaxSweeps} \subseteq Nat /\ Shutdown \in BOOLEAN

VARIABLES
  handle,    \* resource -> none, opening or open
  users,     \* resource -> the calls that hold its cached handle
  failed,    \* databases whose close failed
  call,      \* call -> where it is
  phase,     \* call -> phases of its write that are left
  tail,      \* resource -> its writes, in order
  admission, \* the queue of openings and sweeps
  door,      \* what the head of the queue waits for
  evicting,  \* the resource whose handle the head is closing
  sweep,     \* candidates of the running sweep that are left
  life,      \* resource -> where its deletion or verification is
  store,     \* where the shutdown is
  cut,       \* history: calls whose database was closed while they used it
  faults, sweeps

pool == <<handle, users, failed>>
queue == <<admission, door, evicting, sweep>>
bounds == <<faults, sweeps>>
vars == <<pool, call, phase, tail, queue, life, store, cut, bounds>>

Init ==
  /\ handle = [r \in Resources |-> "none"] /\ users = [r \in Resources |-> {}]
  /\ failed = 0
  /\ call = [c \in Calls |-> "new"] /\ phase = [c \in Calls |-> 0]
  /\ tail = [r \in Resources |-> <<>>]
  /\ admission = <<>> /\ door = "shut" /\ evicting = {} /\ sweep = {}
  /\ life = [r \in Resources |-> "none"] /\ store = "open"
  /\ cut = {} /\ faults = 0 /\ sweeps = 0

Fine == UNCHANGED bounds
Fault == faults < MaxFaults /\ faults' = faults + 1 /\ UNCHANGED sweeps
Goes(c, pc) == call' = [call EXCEPT ![c] = pc]

Cached(r) == handle[r] # "none"
Closing == Cardinality({r \in Resources : life[r] = "closing"}) + Cardinality(evicting)

OpenCount == Cardinality({r \in Resources : Cached(r)}) + failed + Closing

PendingWrites(r) == Len(tail[r])
Blocked(r) == life[r] \in {"drain", "closing", "work"}
InFlight(r) == {c \in Calls : On[c] = r /\ call[c] \notin {"new", "done", "failed", "refused"}}

\* Mutant of Notified: nobody is told.
NotNotified == door

\* Whoever waits for room looks again.
Notified == IF door = "parked" THEN "check" ELSE door

\* Mutant of Idle.
IdleToWritesOnly(r) == handle[r] = "open" /\ PendingWrites(r) = 0

Idle(r) == handle[r] = "open" /\ users[r] = {} /\ PendingWrites(r) = 0

\* A handle leaves the cache before its database is closed.
Drops(r) ==
  /\ handle' = [handle EXCEPT ![r] = "none"]
  /\ users' = [users EXCEPT ![r] = {}]
  /\ cut' = cut \cup users[r]

----------------------------------------------------------------------------
(* Calls                                                                   *)

\* withHandle: a cached handle is retained at once, another one is asked for.
Acquires(c) ==
  IF Cached(On[c])
    THEN /\ users' = [users EXCEPT ![On[c]] = @ \cup {c}]
         /\ Goes(c, "using") /\ UNCHANGED <<admission, door>>
    ELSE /\ admission' = Append(admission, c)
         /\ door' = IF admission = <<>> THEN "check" ELSE door
         /\ Goes(c, "admission") /\ UNCHANGED users

Read(c) ==
  /\ c \notin Writes /\ call[c] = "new"
  /\ IF store = "open" /\ ~Blocked(On[c])
       THEN Acquires(c)
       ELSE Goes(c, "refused") /\ UNCHANGED <<users, admission, door>>
  /\ UNCHANGED <<handle, failed, phase, tail, evicting, sweep, life, store, cut, bounds>>

\* scheduleWrite: the write counts as pending from here until it settled.
Write(c) ==
  /\ c \in Writes /\ call[c] = "new"
  /\ IF store = "open" /\ ~Blocked(On[c])
       THEN /\ tail' = [tail EXCEPT ![On[c]] = Append(@, c)]
            /\ phase' = [phase EXCEPT ![c] = IF c \in TwoPhase THEN 2 ELSE 1]
            /\ Goes(c, "queued")
       ELSE Goes(c, "refused") /\ UNCHANGED <<tail, phase>>
  /\ UNCHANGED <<pool, queue, life, store, cut, bounds>>

WriteTurn(c) ==
  /\ call[c] = "queued" /\ Head(tail[On[c]]) = c
  /\ Acquires(c)
  /\ UNCHANGED <<handle, failed, phase, tail, evicting, sweep, life, store, cut, bounds>>

\* The operation on the database ends, its handle is given back and failed
\* closes are tried again; a call that lost its database fails.
EndUse(c) ==
  /\ call[c] = "using" /\ (c \in cut \/ handle[On[c]] = "open")
  /\ users' = [users EXCEPT ![On[c]] = @ \ {c}]
  /\ door' = Notified
  /\ IF c \in Writes
       THEN phase' = [phase EXCEPT ![c] = IF c \in cut THEN 0 ELSE @ - 1] /\ Goes(c, "used")
       ELSE Goes(c, IF c \in cut THEN "failed" ELSE "done") /\ UNCHANGED phase
  /\ failed' \in {0, failed}
  /\ UNCHANGED <<handle, tail, admission, evicting, sweep, life, store, cut, bounds>>

\* Later the write reads its entry back, or it is no longer pending.
NextPhase(c) ==
  /\ call[c] = "used" /\ phase[c] > 0
  /\ Acquires(c)
  /\ UNCHANGED <<handle, failed, phase, tail, evicting, sweep, life, store, cut, bounds>>

WriteSettles(c) ==
  /\ call[c] = "used" /\ phase[c] = 0
  /\ tail' = [tail EXCEPT ![On[c]] = Tail(@)]
  /\ Goes(c, IF c \in cut THEN "failed" ELSE "done")
  /\ \/ UNCHANGED <<failed, door>>
     \/ failed > 0 /\ failed' = 0 /\ door' = Notified
  /\ UNCHANGED <<handle, users, phase, admission, evicting, sweep, life, store, cut, bounds>>

\* A rejected acquisition or opening rejects the call and lets the next write
\* of the resource start; only the first one asks for its handle.
Rejected(cs) ==
  /\ call' = [c \in Calls |-> IF c \in cs THEN "failed" ELSE call[c]]
  /\ tail' = [r \in Resources |->
               IF tail[r] # <<>> /\ Head(tail[r]) \in cs THEN Tail(tail[r]) ELSE tail[r]]

----------------------------------------------------------------------------
(* Admission, one at a time                                                *)

Leaves ==
  /\ admission' = Tail(admission)
  /\ door' = IF Len(admission) > 1 THEN "check" ELSE "shut"

AtDoor == admission # <<>> /\ admission[1] # "sweep" /\ door = "check"

\* Another call opened the handle meanwhile.
AdmitCached ==
  /\ AtDoor /\ Cached(On[admission[1]])
  /\ users' = [users EXCEPT ![On[admission[1]]] = @ \cup {admission[1]}]
  /\ Goes(admission[1], "using")
  /\ Leaves
  /\ UNCHANGED <<handle, failed, phase, tail, evicting, sweep, life, store, cut, bounds>>

AdmitOpening ==
  /\ AtDoor /\ ~Cached(On[admission[1]]) /\ OpenCount < MaxOpen
  /\ handle' = [handle EXCEPT ![On[admission[1]]] = "opening"]
  /\ users' = [users EXCEPT ![On[admission[1]]] = {admission[1]}]
  /\ Goes(admission[1], "using")
  /\ Leaves
  /\ UNCHANGED <<failed, phase, tail, evicting, sweep, life, store, cut, bounds>>

\* Failed closes are tried again before anything is evicted.
Full == AtDoor /\ ~Cached(On[admission[1]]) /\ OpenCount >= MaxOpen

RetryCloses ==
  /\ Full /\ failed > 0
  /\ \/ Fine /\ failed' = 0 /\ UNCHANGED door
     \/ Fault /\ UNCHANGED failed /\ door' = "evict"
  /\ UNCHANGED <<handle, users, call, phase, tail, admission, evicting, sweep, life, store, cut>>

Evict(r) ==
  /\ admission # <<>> /\ evicting = {}
  /\ (Full /\ failed = 0) \/ door = "evict"
  /\ Idle(r)
  /\ Drops(r)
  /\ evicting' = {r} /\ door' = "evicting"
  /\ UNCHANGED <<failed, call, phase, tail, admission, sweep, life, store, bounds>>

EvictEnds ==
  /\ door = "evicting"
  /\ evicting' = {}
  /\ \/ Fine /\ door' = "check" /\ UNCHANGED <<failed, call, tail, admission>>
     \/ Fault /\ failed' = failed + 1 /\ Rejected({admission[1]}) /\ Leaves
  /\ UNCHANGED <<handle, users, phase, sweep, life, store, cut>>

\* Nothing to evict: wait until something changes.
Park ==
  /\ admission # <<>>
  /\ (Full /\ failed = 0) \/ door = "evict"
  /\ \A r \in Resources : ~Idle(r)
  /\ door' = "parked"
  /\ UNCHANGED <<pool, call, phase, tail, admission, evicting, sweep, life, store, cut, bounds>>

OpeningEnds(r) ==
  /\ handle[r] = "opening"
  /\ \/ Fine /\ handle' = [handle EXCEPT ![r] = "open"] /\ UNCHANGED <<users, call, tail, door, failed>>
     \/ /\ Fault /\ handle' = [handle EXCEPT ![r] = "none"]
        /\ users' = [users EXCEPT ![r] = {}]
        /\ Rejected(users[r]) /\ door' = Notified
        /\ failed' \in {failed, failed + 1}
  /\ UNCHANGED <<phase, admission, evicting, sweep, life, store, cut>>

----------------------------------------------------------------------------
(* The sweep of idle handles takes its turn in the queue.                  *)

SweepDue ==
  /\ sweeps < MaxSweeps /\ sweeps' = sweeps + 1 /\ UNCHANGED faults
  /\ store = "open" /\ ~ \E i \in 1..Len(admission) : admission[i] = "sweep"
  /\ failed > 0 \/ \E r \in Resources : Cached(r)
  /\ admission' = Append(admission, "sweep")
  /\ door' = IF admission = <<>> THEN "check" ELSE door
  /\ UNCHANGED <<pool, call, phase, tail, evicting, sweep, life, store, cut>>

\* Failed closes are tried again, the expired handles are listed once, and
\* the first of them is closed in the same step.
SweepStarts ==
  /\ admission # <<>> /\ admission[1] = "sweep" /\ door = "check"
  /\ \E expired \in SUBSET {r \in Resources : Idle(r)} :
       \/ expired = {} /\ sweep' = {} /\ UNCHANGED <<handle, users, cut, evicting>>
       \/ \E r \in expired : sweep' = expired \ {r} /\ Drops(r) /\ evicting' = {r}
  /\ failed' \in {0, failed}
  /\ door' = "sweeping"
  /\ UNCHANGED <<call, phase, tail, admission, life, store, bounds>>

\* The others follow, one close after another.
SweepCloses(r) ==
  /\ door = "sweeping" /\ evicting = {} /\ r \in sweep
  /\ sweep' = sweep \ {r}
  /\ IF Cached(r) THEN Drops(r) /\ evicting' = {r} ELSE UNCHANGED <<handle, users, cut, evicting>>
  /\ UNCHANGED <<failed, call, phase, tail, admission, door, life, store, bounds>>

SweepClosed ==
  /\ door = "sweeping" /\ evicting # {}
  /\ evicting' = {}
  /\ \/ Fine /\ UNCHANGED failed
     \/ Fault /\ failed' = failed + 1
  /\ UNCHANGED <<handle, users, call, phase, tail, admission, door, sweep, life, store, cut>>

SweepEnds ==
  /\ door = "sweeping" /\ evicting = {} /\ sweep = {}
  /\ Leaves
  /\ UNCHANGED <<pool, call, phase, tail, evicting, sweep, life, store, cut, bounds>>

----------------------------------------------------------------------------
(* Deletion and verification of a resource                                 *)

Maintain(r) ==
  /\ r \in Deleted /\ life[r] = "none" /\ store = "open"
  /\ life' = [life EXCEPT ![r] = "drain"]
  /\ UNCHANGED <<pool, call, phase, tail, queue, store, cut, bounds>>

Drained(r) == InFlight(r) = {}

MaintainCloses(r) ==
  /\ life[r] = "drain" /\ Drained(r)
  /\ IF Cached(r)
       THEN Drops(r) /\ life' = [life EXCEPT ![r] = "closing"]
       ELSE life' = [life EXCEPT ![r] = "work"] /\ UNCHANGED <<handle, users, cut>>
  /\ UNCHANGED <<failed, call, phase, tail, queue, store, bounds>>

MaintainClosed(r) ==
  /\ life[r] = "closing"
  /\ \/ Fine /\ life' = [life EXCEPT ![r] = "work"] /\ UNCHANGED failed
     \/ Fault /\ life' = [life EXCEPT ![r] = "done"] /\ failed' = failed + 1
  /\ door' = Notified
  /\ UNCHANGED <<handle, users, call, phase, tail, admission, evicting, sweep, store, cut>>

MaintainEnds(r) ==
  /\ life[r] = "work"
  /\ life' = [life EXCEPT ![r] = "done"]
  /\ UNCHANGED <<pool, call, phase, tail, queue, store, cut, bounds>>

----------------------------------------------------------------------------
(* Shutdown: admission, lifecycle work, calls, then the handles.           *)

Close ==
  /\ Shutdown /\ store = "open"
  /\ store' = "closing"
  /\ UNCHANGED <<pool, call, phase, tail, queue, life, cut, bounds>>

Quiet == admission = <<>> /\ \A r \in Resources : ~Blocked(r) /\ InFlight(r) = {}

CloseHandles ==
  /\ store = "closing" /\ Quiet
  /\ handle' = [r \in Resources |-> "none"]
  /\ users' = [r \in Resources |-> {}]
  /\ cut' = cut \cup UNION {users[r] : r \in Resources}
  /\ \/ Fine /\ failed' = 0
     \/ Fault /\ failed' = failed + Cardinality({r \in Resources : Cached(r)})
  /\ store' = "closed"
  /\ UNCHANGED <<call, phase, tail, queue, life>>

----------------------------------------------------------------------------
Step(c) == Read(c) \/ Write(c) \/ WriteTurn(c) \/ EndUse(c) \/ NextPhase(c) \/ WriteSettles(c)
Door == AdmitCached \/ AdmitOpening \/ RetryCloses \/ (\E r \in Resources : Evict(r)) \/ EvictEnds \/ Park
        \/ SweepStarts \/ (\E r \in Resources : SweepCloses(r)) \/ SweepClosed \/ SweepEnds
Lifecycle(r) == MaintainCloses(r) \/ MaintainClosed(r) \/ MaintainEnds(r)

Next ==
  \/ \E c \in Calls : Step(c)
  \/ Door \/ SweepDue \/ Close \/ CloseHandles
  \/ \E r \in Resources : OpeningEnds(r) \/ Maintain(r) \/ Lifecycle(r)

Spec == Init /\ [][Next]_vars

\* Promises resume and databases answer; sweeps, deletions and the shutdown
\* need not come.
Fairness ==
  /\ \A c \in Calls : WF_vars(Step(c))
  /\ WF_vars(Door) /\ WF_vars(CloseHandles)
  /\ \A r \in Resources : WF_vars(OpeningEnds(r)) /\ WF_vars(Lifecycle(r))

FairSpec == Spec /\ Fairness
----------------------------------------------------------------------------
(* Properties                                                              *)

Settled == {"done", "failed", "refused"}

\* The types, and: the tail of a resource holds its writes that are under way.
TypeOK ==
  /\ handle \in [Resources -> {"none", "opening", "open"}]
  /\ users \in [Resources -> SUBSET Calls] /\ failed \in 0..(MaxFaults + MaxOpen)
  /\ call \in [Calls -> {"new", "queued", "admission", "using", "used"} \cup Settled]
  /\ phase \in [Calls -> 0..2] /\ tail \in [Resources -> Seq(Writes)]
  /\ admission \in Seq(Calls \cup {"sweep"}) /\ evicting \subseteq Resources /\ sweep \subseteq Resources
  /\ door \in {"shut", "check", "evict", "evicting", "parked", "sweeping"}
  /\ life \in [Resources -> {"none", "drain", "closing", "work", "done"}]
  /\ store \in {"open", "closing", "closed"} /\ cut \subseteq Calls
  /\ \A r \in Resources : {tail[r][i] : i \in 1..Len(tail[r])} = Writes \cap InFlight(r)

\* Never more databases open, half open or half closed than the limit,
\* whoever opens and closes them (openHandleCount).
HandlesBounded ==
  Cardinality({r \in Resources : Cached(r)}) + failed + Closing <= MaxOpen

\* A database is closed under a call in one case: the running sweep closes a
\* handle it had listed while it was idle, and since then, while another one was
\* closing, a call took it (closeExpiredIdleHandles). Eviction, deletion,
\* verification, the shutdown and the first close of a sweep find an idle handle
\* (makeHandleCapacity, deleteResource, close).
CutStep ==
  cut' # cut => door = "sweeping" /\ \E r \in sweep : r \notin sweep' /\ cut' = cut \cup users[r]

OnlyListedAreCut == [][CutStep]_vars

\* No database is closed under a call that uses it, whoever closes it. The sweep
\* of the code does not keep to this.
NobodyCut == cut = {}

\* The files of a resource are worked on only when no call to it is left.
MaintainedAlone == \A r \in Resources : life[r] = "work" => InFlight(r) = {}

\* A store that closed left no call behind, no handle and no work on files.
ClosedIsEmpty ==
  store = "closed" =>
    /\ \A r \in Resources : ~Cached(r) /\ ~Blocked(r)
    /\ \A c \in Calls : call[c] \in Settled \cup {"new"}

\* A newcomer waits although there is a handle to evict, that of a write which
\* settled: a write is pending until after it gave its handle back, and its end
\* tells nobody (withHandle, scheduleWrite). Or a failed close takes the room, and
\* is tried again only when another call ends (evictIdleHandles).
LeftBehind ==
  door = "parked" /\ (failed > 0 \/ \E c \in Writes : call[c] \in Settled /\ Idle(On[c]))

\* Every call is answered, also one that waits for room: unless it, or the head
\* of the queue it stands in, is left behind for ever.
EveryCallSettles ==
  \A c \in Calls : call[c] \notin Settled \cup {"new"} ~> (call[c] \in Settled \/ []LeftBehind)

\* A handle that became idle while a newcomer waits for room is evicted, or
\* used again; it is not left idle behind the newcomer.
IdleGivesWay ==
  \A r \in Resources : (Idle(r) /\ door = "parked") ~> ~(Idle(r) /\ door = "parked")
=============================================================================
