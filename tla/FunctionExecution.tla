------------------------- MODULE FunctionExecution -------------------------
(* A widget's server function: the executor that admits a call, the driver  *)
(* that owns the one child process of the call, and the writes the child    *)
(* asks the host for, each under a permit of its own.                       *)
(* src/apps/backend/src/shell/function-execution/local                      *)
(*                                                                          *)
(* A call's clock is one bit: whether its deadline has passed.  The child   *)
(* answers whenever it likes or never; writes it does not wait for go on    *)
(* when it is gone.                                                         *)
EXTENDS Naturals, Sequences, FiniteSets, SequencesExt

CONSTANTS Calls,          \* invocations; each id is used once
          Writes,         \* resource writes the children may ask for
          CallOf,         \* [Writes -> Calls]
          LaneOf,         \* [Writes -> resources]: the lane a write queues in
          MaxConcurrent,  \* calls the executor runs at a time
          MaxFaults       \* bound: spawns, removals, teardowns, providers failing

CallsAssumption ==
    /\ IsFiniteSet(Calls) /\ IsFiniteSet(Writes)
    /\ CallOf \in [Writes -> Calls]
    /\ MaxConcurrent \in Nat \ {0} /\ MaxFaults \in Nat

VARIABLES pc,        \* where the executor stands in each call
          answer,    \* what the caller was told, or will be once torn down
          asked,     \* the caller aborted: request.signal
          due,       \* the deadline of the call has passed
          activeCalls,
          child,     \* the process: none, alive, dead
          running,   \* handles the driver tracks (#running)
          destroyed, \* handles whose teardown has begun once
          teardown,  \* none, busy, failed
          cage,      \* the child's directory: none, kept, removed
          exec,      \* the active execution: none, open, settled
          cancelling,\* cancel was asked of the active execution
          overMemory,
          write,     \* the host's side of each write
          permit,    \* none, active, in_use, deleted
          lanes,     \* per resource, the writes waiting for their turn
          applied,   \* writes the provider has carried out
          told,      \* writes whose outcome reached the child
          faults

callVars  == <<pc, answer, asked, due, activeCalls>>
childVars == <<child, running, destroyed, teardown, cage, exec, cancelling, overMemory>>
writeVars == <<write, permit, lanes, applied, told>>
vars == <<callVars, childVars, writeVars, faults>>

Answers == {"none", "refused", "succeeded", "failed", "cancelled", "timed_out"}

TypeOK ==
    /\ pc \in [Calls -> {"idle", "prepared", "caging", "starting", "unwinding",
                         "gateway", "executing", "closing", "done"}]
    /\ answer \in [Calls -> Answers]
    /\ asked \in [Calls -> BOOLEAN] /\ due \in [Calls -> BOOLEAN]
    /\ activeCalls \in 0 .. MaxConcurrent
    /\ child \in [Calls -> {"none", "alive", "dead"}]
    /\ running \subseteq Calls /\ destroyed \subseteq Calls
    /\ teardown \in [Calls -> {"none", "busy", "failed"}]
    /\ cage \in [Calls -> {"none", "kept", "removed"}]
    /\ exec \in [Calls -> {"none", "open", "settled"}]
    /\ cancelling \subseteq Calls /\ overMemory \subseteq Calls
    /\ write \in [Writes -> {"none", "binding", "queued", "checking",
                             "dispatched", "ended"}]
    /\ permit \in [Writes -> {"none", "active", "in_use", "deleted"}]
    /\ \A l \in DOMAIN lanes : lanes[l] \in Seq(Writes)
    /\ applied \subseteq Writes /\ told \subseteq Writes
    /\ faults \in 0 .. MaxFaults

Init ==
    /\ pc = [c \in Calls |-> "idle"] /\ answer = [c \in Calls |-> "none"]
    /\ asked = [c \in Calls |-> FALSE] /\ due = [c \in Calls |-> FALSE]
    /\ activeCalls = 0
    /\ child = [c \in Calls |-> "none"] /\ running = {} /\ destroyed = {}
    /\ teardown = [c \in Calls |-> "none"] /\ cage = [c \in Calls |-> "none"]
    /\ exec = [c \in Calls |-> "none"] /\ cancelling = {} /\ overMemory = {}
    /\ write = [w \in Writes |-> "none"] /\ permit = [w \in Writes |-> "none"]
    /\ lanes = [l \in {LaneOf[w] : w \in Writes} |-> <<>>]
    /\ applied = {} /\ told = {} /\ faults = 0

Fault == faults < MaxFaults /\ faults' = faults + 1

-----------------------------------------------------------------------------
(* The driver's destroy and what it does at once; the termination itself    *)
(* ends in TeardownEnds.                                                    *)

Destroy(c) ==
    IF c \in running /\ teardown[c] # "busy"
    THEN /\ destroyed' = destroyed \cup {c}
         /\ teardown' = [teardown EXCEPT ![c] = "busy"]
    ELSE UNCHANGED <<destroyed, teardown>>

\* The executor goes into its finally with the answer it will give; destroy
\* settles an execution that is still open.
Closing(c, a) ==
    /\ answer' = [answer EXCEPT ![c] = a]
    /\ exec' = IF exec[c] = "open" THEN [exec EXCEPT ![c] = "settled"] ELSE exec
    /\ pc' = [pc EXCEPT ![c] = "closing"]
    /\ Destroy(c)

\* How the executor's catch names an error.
Caught(c, code) ==
    IF asked[c] THEN "cancelled"
    ELSE IF code = "FUNCTION_TIMED_OUT" THEN "timed_out" ELSE "failed"

Abort(c) ==
    /\ ~asked[c] /\ pc[c] # "done"
    /\ asked' = [asked EXCEPT ![c] = TRUE]
    /\ \/ /\ pc[c] = "starting" /\ Destroy(c)
          /\ pc' = [pc EXCEPT ![c] = "unwinding"]
          /\ UNCHANGED <<exec, cancelling>>
       \/ /\ pc[c] = "unwinding" /\ Destroy(c)
          /\ UNCHANGED <<pc, exec, cancelling>>
       \/ /\ pc[c] = "executing"
          \* the send to a child that is gone throws, and cancel gives up
          /\ \/ cancelling' = cancelling \cup {c}
             \/ child[c] = "dead" /\ UNCHANGED cancelling
          /\ UNCHANGED <<pc, exec, destroyed, teardown>>
       \/ /\ pc[c] \notin {"starting", "unwinding", "executing"}
          /\ UNCHANGED <<pc, exec, cancelling, destroyed, teardown>>
    /\ UNCHANGED <<answer, due, activeCalls, child, running, cage, overMemory,
                   writeVars, faults>>

DeadlinePasses(c) ==
    /\ pc[c] \notin {"idle", "done"} /\ ~due[c]
    /\ due' = [due EXCEPT ![c] = TRUE]
    /\ UNCHANGED <<pc, answer, asked, activeCalls, childVars, writeVars, faults>>

-----------------------------------------------------------------------------
(* DirectFunctionExecutor.invoke *)

Invoke(c) ==
    /\ pc[c] = "idle"
    /\ \/ /\ asked[c]
          /\ answer' = [answer EXCEPT ![c] = "cancelled"]
          /\ pc' = [pc EXCEPT ![c] = "done"] /\ UNCHANGED activeCalls
       \/ /\ ~asked[c] /\ activeCalls >= MaxConcurrent
          /\ answer' = [answer EXCEPT ![c] = "refused"]
          /\ pc' = [pc EXCEPT ![c] = "done"] /\ UNCHANGED activeCalls
       \/ /\ ~asked[c] /\ activeCalls < MaxConcurrent
          /\ activeCalls' = activeCalls + 1
          /\ pc' = [pc EXCEPT ![c] = "prepared"] /\ UNCHANGED answer
    /\ UNCHANGED <<asked, due, childVars, writeVars, faults>>

\* prepare found the module unfit, or the caller left meanwhile, or start begins.
Prepared(c) ==
    /\ pc[c] = "prepared"
    /\ \/ /\ asked[c] /\ Closing(c, "cancelled") /\ UNCHANGED faults
       \/ /\ ~asked[c] /\ due[c] /\ Closing(c, "timed_out") /\ UNCHANGED faults
       \/ /\ ~asked[c] /\ Fault /\ Closing(c, "failed")
       \/ /\ ~asked[c] /\ ~due[c] /\ pc' = [pc EXCEPT ![c] = "caging"]
          /\ UNCHANGED <<answer, exec, destroyed, teardown, faults>>
    /\ UNCHANGED <<asked, due, activeCalls, child, running, cage, cancelling,
                   overMemory, writeVars>>

\* createCage answers.  A cage that comes too late is removed before the
\* timeout is reported; a removal that fails turns the error into another one.
CageCreated(c) ==
    /\ pc[c] = "caging"
    /\ \/ /\ ~due[c]
          /\ cage' = [cage EXCEPT ![c] = "kept"]
          /\ child' = [child EXCEPT ![c] = "alive"] /\ running' = running \cup {c}
          /\ pc' = [pc EXCEPT ![c] = "starting"]
          /\ UNCHANGED <<answer, exec, destroyed, teardown, faults>>
       \/ /\ due[c] /\ cage' = [cage EXCEPT ![c] = "removed"]
          /\ Closing(c, Caught(c, "FUNCTION_TIMED_OUT")) /\ UNCHANGED <<child, running, faults>>
       \/ /\ Fault /\ cage' \in {[cage EXCEPT ![c] = s] : s \in {"none", "kept", "removed"}}
          /\ Closing(c, Caught(c, "other")) /\ UNCHANGED <<child, running>>
    /\ UNCHANGED <<asked, due, activeCalls, cancelling, overMemory, writeVars>>

\* ready and loaded both came in time.
Started(c) ==
    /\ pc[c] = "starting" /\ c \notin destroyed /\ child[c] = "alive"
    /\ ~due[c] /\ c \notin overMemory
    /\ \/ /\ ~asked[c] /\ pc' = [pc EXCEPT ![c] = "gateway"]
          /\ UNCHANGED <<answer, exec, destroyed, teardown>>
       \/ asked[c] /\ Closing(c, "cancelled")
    /\ UNCHANGED <<asked, due, activeCalls, child, running, cage, cancelling,
                   overMemory, writeVars, faults>>

\* The child died, refused the module, outgrew its memory, or time is up
\* (the call's own or the startup's): start tears the child down and throws.
StartFails(c) ==
    /\ pc[c] = "starting"
    /\ pc' = [pc EXCEPT ![c] = "unwinding"]
    /\ Destroy(c)
    /\ UNCHANGED <<answer, asked, due, activeCalls, child, running, cage, exec,
                   cancelling, overMemory, writeVars, faults>>

\* The teardown in start's catch has settled; its failure replaces the error.
\* The finally of the executor tries once more.
Unwound(c) ==
    /\ pc[c] = "unwinding" /\ teardown[c] # "busy"
    /\ \E code \in {"other"} \cup IF due[c] /\ teardown[c] # "failed"
                                  THEN {"FUNCTION_TIMED_OUT"} ELSE {} :
          Closing(c, Caught(c, code))
    /\ UNCHANGED <<asked, due, activeCalls, child, running, cage, cancelling,
                   overMemory, writeVars, faults>>

\* createResources has answered: the execution starts, or cannot any more.
Execute(c) ==
    /\ pc[c] = "gateway"
    /\ \/ asked[c] /\ Closing(c, "cancelled")
       \/ ~asked[c] /\ c \in overMemory /\ Closing(c, "failed")
       \/ ~asked[c] /\ c \notin overMemory /\ due[c] /\ Closing(c, "timed_out")
       \/ /\ ~asked[c] /\ c \notin overMemory /\ ~due[c]
          /\ pc' = [pc EXCEPT ![c] = "executing"]
          /\ exec' = [exec EXCEPT ![c] = "open"]
          /\ UNCHANGED <<answer, destroyed, teardown>>
       \* sending to a child that is gone may throw
       \/ ~asked[c] /\ ~due[c] /\ child[c] = "dead" /\ Closing(c, "failed")
    /\ UNCHANGED <<asked, due, activeCalls, child, running, cage, cancelling,
                   overMemory, writeVars, faults>>

-----------------------------------------------------------------------------
(* The execution: the first of these settles it, the others find it settled *)

Settles(c, a) ==
    /\ Closing(c, a)
    /\ UNCHANGED <<asked, due, activeCalls, running, cage, cancelling, writeVars, faults>>

\* A message of the child, while it is heeded: a result, which may break a
\* limit, or a failure.
Responds(c) ==
    /\ pc[c] = "executing" /\ child[c] = "alive" /\ c \notin overMemory
    /\ \E a \in {"succeeded", "failed"} \cup IF c \in cancelling THEN {"cancelled"} ELSE {} :
          Settles(c, a)
    /\ UNCHANGED <<child, overMemory>>

TimerFires(c) ==
    /\ pc[c] = "executing" /\ due[c]
    /\ Settles(c, "timed_out") /\ UNCHANGED <<child, overMemory>>

GraceEnds(c) ==
    /\ pc[c] = "executing" /\ c \in cancelling
    /\ Settles(c, "cancelled") /\ UNCHANGED <<child, overMemory>>

ChildExits(c) ==
    /\ child[c] = "alive" /\ c \notin destroyed
    /\ child' = [child EXCEPT ![c] = "dead"]
    /\ IF pc[c] = "executing"
       THEN Settles(c, "failed")
       ELSE UNCHANGED <<callVars, running, destroyed, teardown, cage, exec, cancelling,
                        writeVars, faults>>
    /\ UNCHANGED overMemory

\* A sample of the memory; without an execution the child is only killed.
MemoryExceeded(c) ==
    /\ child[c] = "alive" /\ c \notin destroyed /\ c \notin overMemory
    /\ overMemory' = overMemory \cup {c}
    /\ IF pc[c] = "executing"
       THEN Settles(c, "failed")
       ELSE UNCHANGED <<callVars, running, destroyed, teardown, cage, exec, cancelling,
                        writeVars, faults>>
    /\ UNCHANGED child

-----------------------------------------------------------------------------
(* The end of a call *)

\* terminateChild: the process group is gone and the cage removed, or the
\* handle stays tracked with its failure, its cage kept.
TeardownEnds(c) ==
    /\ teardown[c] = "busy"
    /\ \/ /\ child' = [child EXCEPT ![c] = "dead"]
          /\ cage' = [cage EXCEPT ![c] = "removed"]
          /\ running' = running \ {c}
          /\ teardown' = [teardown EXCEPT ![c] = "none"] /\ UNCHANGED faults
       \/ /\ Fault
          /\ child' \in {child, [child EXCEPT ![c] = "dead"]}
          /\ teardown' = [teardown EXCEPT ![c] = "failed"]
          /\ UNCHANGED <<cage, running>>
    /\ UNCHANGED <<callVars, destroyed, exec, cancelling, overMemory, writeVars>>

Finished(c) ==
    /\ pc[c] = "closing" /\ teardown[c] # "busy"
    /\ pc' = [pc EXCEPT ![c] = "done"]
    /\ activeCalls' = activeCalls - 1
    /\ UNCHANGED <<answer, asked, due, childVars, writeVars, faults>>

-----------------------------------------------------------------------------
(* Resource writes.  They belong to the host: nothing ties them to the      *)
(* execution that asked for them but the permit, which ends at its deadline.*)

Heeded(c) == exec[c] = "open" /\ c \notin overMemory

Ask(w) ==
    /\ write[w] = "none" /\ Heeded(CallOf[w]) /\ child[CallOf[w]] = "alive"
    /\ write' = [write EXCEPT ![w] = "binding"]
    /\ UNCHANGED <<callVars, childVars, permit, lanes, applied, told, faults>>

\* The gateway is done with the write and revokes what is left of its permit;
\* an execution that has been settled is not told.
Ends(w) ==
    /\ write' = [write EXCEPT ![w] = "ended"]
    /\ permit' = [permit EXCEPT ![w] = IF @ = "none" THEN @ ELSE "deleted"]
    /\ told' = IF exec[CallOf[w]] = "open" THEN told \cup {w} ELSE told

\* The binding is known: a permit until the deadline, and a place in the lane.
Issue(w) ==
    /\ write[w] = "binding"
    /\ \/ due[CallOf[w]] /\ Ends(w) /\ UNCHANGED lanes
       \/ /\ ~due[CallOf[w]]
          /\ permit' = [permit EXCEPT ![w] = "active"]
          /\ write' = [write EXCEPT ![w] = "queued"]
          /\ lanes' = [lanes EXCEPT ![LaneOf[w]] = Append(@, w)]
          /\ UNCHANGED told
    /\ UNCHANGED <<callVars, childVars, applied, faults>>

First(w) == Len(lanes[LaneOf[w]]) > 0 /\ Head(lanes[LaneOf[w]]) = w

\* dispatchCall reads the resource and its placement
TakesTurn(w) ==
    /\ write[w] = "queued" /\ First(w)
    /\ write' = [write EXCEPT ![w] = "checking"]
    /\ UNCHANGED <<callVars, childVars, permit, lanes, applied, told, faults>>

LeavesLane(w) == lanes' = [lanes EXCEPT ![LaneOf[w]] = Remove(@, w)]

\* Mutant: the deadline is looked at only when the permit is issued.
LiveForever(w) == permit[w] = "active"

Live(w) == permit[w] = "active" /\ ~due[CallOf[w]]

\* Verified, in use and guarded: the provider is given the write.
Dispatch(w) ==
    /\ write[w] = "checking"
    /\ \/ /\ Live(w)
          /\ permit' = [permit EXCEPT ![w] = "in_use"]
          /\ write' = [write EXCEPT ![w] = "dispatched"]
          /\ UNCHANGED <<lanes, told, faults>>
       \/ ~Live(w) /\ Ends(w) /\ LeavesLane(w) /\ UNCHANGED faults
       \* the resource is not ready, or not here
       \/ Fault /\ Ends(w) /\ LeavesLane(w)
    /\ UNCHANGED <<callVars, childVars, applied>>

Apply(w) ==
    /\ write[w] = "dispatched" /\ w \notin applied
    /\ applied' = applied \cup {w}
    /\ UNCHANGED <<callVars, childVars, write, permit, lanes, told, faults>>

Returns(w) ==
    /\ write[w] = "dispatched"
    /\ \/ w \in applied /\ UNCHANGED faults
       \/ Fault
    /\ Ends(w) /\ LeavesLane(w)
    /\ UNCHANGED <<callVars, childVars, applied>>

-----------------------------------------------------------------------------

Call(c) ==
    \/ Invoke(c) \/ Prepared(c) \/ CageCreated(c) \/ Started(c) \/ StartFails(c)
    \/ Unwound(c) \/ Execute(c) \/ Responds(c) \/ TimerFires(c) \/ GraceEnds(c)
    \/ ChildExits(c) \/ MemoryExceeded(c) \/ TeardownEnds(c) \/ Finished(c)

Write(w) ==
    \/ Ask(w) \/ Issue(w) \/ TakesTurn(w) \/ Dispatch(w) \/ Apply(w) \/ Returns(w)

Next ==
    \/ \E c \in Calls : Call(c) \/ Abort(c) \/ DeadlinePasses(c)
    \/ \E w \in Writes : Write(w)

Spec == Init /\ [][Next]_vars

\* What the host does of itself.
Host(c) == Prepared(c) \/ CageCreated(c) \/ Unwound(c) \/ Execute(c) \/ Finished(c)
GoesOn(w) == Issue(w) \/ TakesTurn(w) \/ Dispatch(w) \/ Apply(w) \/ Returns(w)

\* Time passes; the host's own timers, files and stores answer.  Nothing is
\* asked of the child: it may hang, and it need not exit when told.
Fairness ==
    /\ \A c \in Calls :
          /\ WF_vars(DeadlinePasses(c))
          /\ WF_vars(Host(c))
          /\ WF_vars(StartFails(c)) /\ WF_vars(TimerFires(c)) /\ WF_vars(TeardownEnds(c))
    /\ \A w \in Writes :
          WF_vars(GoesOn(w))

FairSpec == Spec /\ Fairness
-----------------------------------------------------------------------------
(* Properties *)

InFlight == {c \in Calls : pc[c] \notin {"idle", "done"}}

\* Whatever path a call took to its end, its slot came back exactly once, and
\* a child that is still alive then, or a directory it still has, is on the
\* driver's list of failed teardowns: nothing is left behind unseen.
NothingLeftUnseen ==
    /\ activeCalls = Cardinality(InFlight)
    /\ \A c \in Calls :
          (pc[c] = "done" /\ child[c] # "none" /\ (child[c] = "alive" \/ cage[c] = "kept"))
             => c \in running /\ teardown[c] = "failed"

\* A call says it was cancelled only if its caller asked for it, and that it
\* timed out only if its time was up, however the two, the child's own answer,
\* its death and its limits race.
AnswerExplained ==
    \A c \in Calls :
        /\ answer[c] = "cancelled" => asked[c]
        /\ answer[c] = "timed_out" => due[c]
        /\ pc[c] = "done" => answer[c] # "none"

\* A resource carries out one write at a time, whichever calls ask for them
\* and however long the earlier ones take.
OneWriterPerLane ==
    \A v, w \in Writes :
        (LaneOf[v] = LaneOf[w] /\ {write[v], write[w]} \subseteq {"checking", "dispatched"})
            => v = w

\* No permit outlives the write it was issued for, also when the write was
\* turned away before it could be used.
NoPermitLeftOver ==
    \A w \in Writes : permit[w] \in {"active", "in_use"}
                         <=> write[w] \in {"queued", "checking", "dispatched"}

\* Once a call is known to have timed out, none of its writes is handed to a
\* provider any more, although the writes know nothing of the execution and
\* may have waited in their lane for long.
BegunInTime ==
    \A w \in Writes : (write[w] # "dispatched" /\ write'[w] = "dispatched")
                         => answer[CallOf[w]] # "timed_out"

\* A result that reaches the child is that of a write of its own execution,
\* and what was carried out before it was told stays so.
ToldInTime ==
    \A w \in Writes : (w \notin told /\ w \in told')
                         => pc[CallOf[w]] = "executing" /\ CallOf[w] \notin destroyed

\* Every call the executor admits is answered and its writes end, with a
\* child that hangs, dies or ignores its cancellation.
EveryCallAnswered ==
    \A c \in Calls : pc[c] = "prepared" ~>
        pc[c] = "done" /\ \A w \in Writes : CallOf[w] = c => write[w] \in {"none", "ended"}

=============================================================================
