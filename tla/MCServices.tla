----------------------------- MODULE MCServices -----------------------------
(***************************************************************************)
(* The services between the backend and its clients, side by side for TLC: *)
(* event streams (EventStream), calls of widget functions                  *)
(* (FunctionExecution) and preview inspections (PreviewInspection). A      *)
(* behaviour is one of the view named by part; the variables of the others *)
(* stay as they begin. Calls and inspections have two views each: one of   *)
(* the admission of several of them, one of what a few of them do.         *)
(***************************************************************************)
EXTENDS Naturals, Sequences, FiniteSets, TLC

CONSTANTS
  Parts,  \* the views of a run
  Recovers, AfterReconnect, MaxEvents, MaxRestarts, StreamFaults, MayAbort,
  Calls, CallOf, MaxConcurrent, CallFaults,
  Actions, Timed, Concurrency, MaxLaunches, PageFaults,
  c1, c2, w1, w2, r, j1, j2, j3

VARIABLES
  part,
  logs, sub, request, wire, link, conn, client, delivered, breaks, restarts, streamFaults,
  pc, answer, aborted, due, activeCalls, child, running, destroyed, teardown, cage, exec,
  cancelling, overMemory, write, permit, lanes, applied, told, callFaults,
  at, todo, outcome, result, signal, asked, disposals, queue, slots, recent, preflight, handles,
  late, crashed, tainted, uses, browser, current, closing, stop, cancels, pageFaults

streamVars == <<logs, sub, request, wire, link, conn, client, delivered, breaks, restarts,
                streamFaults>>
callVars == <<pc, answer, aborted, due, activeCalls, child, running, destroyed, teardown, cage, exec,
              cancelling, overMemory, write, permit, lanes, applied, told, callFaults>>
jobVars == <<at, todo, outcome, result, signal, asked, disposals, queue, slots, recent, preflight,
             handles, late, crashed, tainted, uses, browser, current, closing, stop, cancels,
             pageFaults>>

Writes == {w1, w2}
\* Both writes are for one resource; they are of two calls or of one.
MCLaneOf == [w \in Writes |-> r]
PairCallOf == [w \in Writes |-> IF w = w1 THEN c1 ELSE c2]
OneCallOf == [w \in Writes |-> c1]

\* Of three jobs the first two have one owner and the last two one id.
AllJobs == {j1, j2, j3}
SomeOwner == [j \in AllJobs |-> IF j = j3 THEN "b" ELSE "a"]
SomeId == [j \in AllJobs |-> IF j = j1 THEN 1 ELSE 2]
\* The two jobs of the other view have nothing in common but the browser.
TwoJobs == {j1, j2}
Itself == [j \in TwoJobs |-> j]
OneAction == [j \in TwoJobs |-> IF j = j1 THEN 1 ELSE 0]
NoActions == [j \in TwoJobs |-> 0]

Stream == INSTANCE EventStream WITH
  MaxReplay <- 2, Capacity <- 1, Retries <- 1, WireRoom <- 1, MaxBreaks <- 2,
  MaxFaults <- StreamFaults, asked <- request, faults <- streamFaults
Admission == INSTANCE FunctionExecution WITH
  Calls <- {c1, c2}, Writes <- {}, CallOf <- <<>>, LaneOf <- <<>>, MaxConcurrent <- 1,
  MaxFaults <- 2, asked <- aborted, faults <- callFaults
Execution == INSTANCE FunctionExecution WITH
  LaneOf <- MCLaneOf, MaxFaults <- CallFaults, asked <- aborted, faults <- callFaults
Queue == INSTANCE PreviewInspection WITH
  Jobs <- AllJobs, Owner <- SomeOwner, Id <- SomeId, Actions <- [j \in AllJobs |-> 0],
  Timed <- {}, Concurrency <- 2, MaxQueue <- 1, MaxLaunches <- 1, MaxCancels <- 1, MaxFaults <- 0,
  Stops <- TRUE, running <- slots, faults <- pageFaults
Pages == INSTANCE PreviewInspection WITH
  Jobs <- TwoJobs, Owner <- Itself, Id <- Itself, MaxQueue <- 1, MaxCancels <- 0,
  MaxFaults <- PageFaults, Stops <- TRUE, running <- slots, faults <- pageFaults

ASSUME ServicesAssumption ==
  /\ Stream!StreamAssumption /\ Admission!CallsAssumption /\ Execution!CallsAssumption
  /\ Queue!InspectionAssumption /\ Pages!InspectionAssumption

Init ==
  /\ part \in Parts
  /\ Stream!Init
  /\ \/ part = "admission" /\ Admission!Init
     \/ part # "admission" /\ Execution!Init
  /\ \/ part = "queue" /\ Queue!Init
     \/ part # "queue" /\ Pages!Init

InStream(A) == part = "stream" /\ A
InAdmission(A) == part = "admission" /\ A
InExecution(A) == part = "execution" /\ A
InQueue(A) == part = "queue" /\ A
InPages(A) == part = "pages" /\ A

\* Bound of the view of the queue: a caller cancels or the service stops, not both.
CancelsOrStops == cancels' = 0 \/ stop' = "no"

Next ==
  \/ InStream(Stream!Next) /\ UNCHANGED <<part, callVars, jobVars>>
  \/ InAdmission(Admission!Next) /\ UNCHANGED <<part, streamVars, jobVars>>
  \/ InExecution(Execution!Next) /\ UNCHANGED <<part, streamVars, jobVars>>
  \/ InQueue(Queue!Next /\ CancelsOrStops) /\ UNCHANGED <<part, streamVars, callVars>>
  \/ InPages(Pages!Next) /\ UNCHANGED <<part, streamVars, callVars>>

vars == <<part, streamVars, callVars, jobVars>>

Spec == Init /\ [][Next]_vars

\* The fairness of the components, of their steps in the behaviours that are theirs.
Fairness ==
  /\ WF_streamVars(InStream(Stream!Subscribe)) /\ WF_streamVars(InStream(Stream!Pump))
  /\ WF_streamVars(InStream(Stream!Socket)) /\ WF_streamVars(InStream(Stream!Generator))
  /\ \A c \in Calls :
       /\ WF_callVars(InExecution(Execution!DeadlinePasses(c)))
       /\ WF_callVars(InExecution(Execution!Host(c)))
       /\ WF_callVars(InExecution(Execution!StartFails(c)))
       /\ WF_callVars(InExecution(Execution!TimerFires(c)))
       /\ WF_callVars(InExecution(Execution!TeardownEnds(c)))
  /\ \A w \in Writes : WF_callVars(InExecution(Execution!GoesOn(w)))
  /\ WF_jobVars(InPages(Pages!PreflightEnds))
  /\ WF_jobVars(InPages(Pages!StopBrowser \/ Pages!StopShell))
  /\ \A j \in TwoJobs :
       /\ WF_jobVars(InPages(Pages!HostGoesOn(j))) /\ WF_jobVars(InPages(Pages!Deadline(j)))
       /\ WF_jobVars(InPages(Pages!ClosePage(j)))
  /\ \A b \in 1..MaxLaunches :
       /\ WF_jobVars(InPages(Pages!BrowserComesUp(b))) /\ WF_jobVars(InPages(Pages!CloseBrowser(b)))

FairSpec == Spec /\ Fairness

-----------------------------------------------------------------------------
(* Properties: those of the components, one operator for each idea.        *)

\* A subscriber is given each event of its topic once, in order and without a
\* hole, over reconnections, overflow and a replay that was trimmed
\* (EventBus.subscribeRecords, resumableStream).
StreamIsWhole == part = "stream" =>
  /\ Stream!TypeOK /\ Stream!DeliveredOnce
  /\ restarts = 0 => Stream!NothingMissed

\* Every call has its slot while it runs, no child or directory is left behind
\* unseen, a cancellation or a timeout is reported only if it was one, and the
\* writes of all calls take turns at a resource, each under a permit of its
\* own; no write of a call that timed out is begun, and no outcome reaches a
\* child whose execution is over (DirectFunctionExecutor, fx.process-driver,
\* ResourceWriteGateway).
CallsAreSafe ==
  /\ [](part = "admission" =>
         Admission!TypeOK /\ Admission!NothingLeftUnseen /\ Admission!AnswerExplained)
  /\ [](part = "execution" =>
         /\ Execution!TypeOK /\ Execution!NothingLeftUnseen /\ Execution!AnswerExplained
         /\ Execution!OneWriterPerLane /\ Execution!NoPermitLeftOver)
  /\ [][part = "execution" => Execution!BegunInTime /\ Execution!ToldInTime]_callVars

\* The limits of the runner hold, every bridge is disposed once, what a job or
\* a launch leaves open is being closed, and once the service stops no job
\* starts and no browser is launched (PreviewInspectionBrowserService).
InspectionIsClean ==
  /\ [](part = "queue" => Queue!TypeOK /\ Queue!LimitsKept /\ Queue!BridgeDisposedOnce)
  /\ [](part = "pages" =>
         /\ Pages!TypeOK /\ Pages!BridgeDisposedOnce
         /\ Pages!NothingLeftOpen /\ Pages!NoOrphanBrowser)
  /\ [][stop # "no" => /\ part = "queue" => Queue!NothingStarts
                       /\ part = "pages" => Pages!NothingStarts]_jobVars

\* A subscription is never live in appearance only, and every event reaches the
\* consumer unless the stream ends with an error or the backend restarts.
StreamsGoOn == part = "stream" =>
  /\ Stream!NoDeadStream
  /\ Stream!CatchesUp

\* Calls and inspections are answered and writes end although a child or a page
\* may never answer; what an inspection opened is closed in the end, and with
\* the service every browser.
CallsEnd ==
  /\ part = "execution" => Execution!EveryCallAnswered
  /\ part = "pages" => Pages!CallsEnd /\ Pages!StopEndsBrowsers
=============================================================================
