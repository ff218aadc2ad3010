-------------------------- MODULE PreviewInspection --------------------------
(***************************************************************************)
(* The runner of preview inspections: calls pass a shared preflight and a   *)
(* bounded queue, and are executed a few at a time, one per owner, each     *)
(* with a lease of the shell server and a context and a page of one shared  *)
(* browser. A job ends by itself, by its caller, by its timer or because    *)
(* the service stops; what it opened is closed, also what arrives after it  *)
(* was given up, and the browser is retired when a job went wrong in it.    *)
(*                                                                          *)
(* What a page does is external: each operation on it may answer, fail or   *)
(* never answer. Operations are awaited together with the abort signal and  *)
(* an aborted one is always left at once, so it fulfils only while its      *)
(* signal is live. Timers that bound a wait are the choice not to wait.     *)
(***************************************************************************)
EXTENDS Integers, Sequences, FiniteSets, SequencesExt

CONSTANTS
  Jobs,         \* calls of run, each made once
  Owner,        \* job -> ownerKey
  Id,           \* job -> jobId
  Actions,      \* job -> number of actions it performs
  Timed,        \* jobs whose time limits may run out
  Concurrency,  \* maximumConcurrency
  MaxQueue,     \* maximumQueueLength
  MaxLaunches,  \* bound: browsers launched
  MaxCancels,   \* bound: callers that cancel
  MaxFaults,    \* bound: operations that fail and pages that crash
  Stops         \* whether the service is stopped at some time

InspectionAssumption ==
  /\ DOMAIN Owner = Jobs /\ DOMAIN Id = Jobs /\ Actions \in [Jobs -> Nat] /\ Timed \subseteq Jobs
  /\ {Concurrency, MaxLaunches} \subseteq Nat \ {0}
  /\ {MaxQueue, MaxCancels, MaxFaults} \subseteq Nat /\ Stops \in BOOLEAN

Browsers == 1..MaxLaunches
Kinds == {"lease", "context", "page"}

VARIABLES
  at,        \* job -> where it is
  todo,      \* job -> actions left
  outcome,   \* job -> what executeInBrowser ended with
  result,    \* job -> what the caller is told
  signal,    \* job -> its controller: live, or the reason of its abort
  asked,     \* jobs whose caller cancelled
  disposals, \* job -> times its function bridge was disposed
  queue,
  running,   \* jobs that take a slot and their owner's turn
  recent,    \* ids used
  preflight, \* whether the shared preflight runs
  handles,   \* <<kind, job>> that are open
  late,      \* <<operation, job>> given up but not answered
  crashed,   \* jobs whose page crashed
  tainted,   \* jobs that retire the browser at their end
  uses,      \* job -> the browser it got, or 0
  browser,   \* browser -> state of its process
  current,   \* the shared browser, or 0
  closing,   \* browsers being retired
  stop,
  cancels, faults

answers == <<outcome, result, disposals>>
control == <<signal, asked>>
admission == <<queue, running, recent, preflight>>
opened == <<handles, late>>
state == <<todo, crashed, tainted, uses>>
chromium == <<browser, current, closing>>
bounds == <<cancels, faults>>
vars == <<at, answers, control, admission, opened, state, chromium, stop, bounds>>

Init ==
  /\ at = [j \in Jobs |-> "new"] /\ todo = Actions
  /\ outcome = [j \in Jobs |-> "none"] /\ result = [j \in Jobs |-> "none"]
  /\ signal = [j \in Jobs |-> "live"] /\ asked = {}
  /\ disposals = [j \in Jobs |-> 0]
  /\ queue = <<>> /\ running = {} /\ recent = {} /\ preflight = FALSE
  /\ handles = {} /\ late = {} /\ crashed = {} /\ tainted = {}
  /\ uses = [j \in Jobs |-> 0]
  /\ browser = [b \in Browsers |-> "unborn"] /\ current = 0 /\ closing = {}
  /\ stop = "no" /\ cancels = 0 /\ faults = 0

Aborted(j) == signal[j] # "live"
Goes(j, pc) == at' = [at EXCEPT ![j] = pc]
Fine == UNCHANGED bounds
Fault == faults < MaxFaults /\ faults' = faults + 1 /\ UNCHANGED cancels
MayFail(forced) == IF forced THEN Fine ELSE Fault

\* The answer waits until the bridge is disposed.
Disposes(js, r) ==
  /\ result' = [j \in Jobs |-> IF j \in js THEN r ELSE result[j]]
  /\ disposals' = [j \in Jobs |-> IF j \in js THEN disposals[j] + 1 ELSE disposals[j]]
  /\ UNCHANGED outcome

Leaves(j, r) == Goes(j, "dispose") /\ Disposes({j}, r)

Admits(run, j) ==
  Cardinality(run) < Concurrency /\ \A i \in run : Owner[i] # Owner[j]

\* The oldest entries whose owner has no running job start.
Drained(places, q, run) ==
  LET Take(s, j) == IF Admits(s.run, j) THEN [s EXCEPT !.run = @ \cup {j}]
                    ELSE [s EXCEPT !.left = Append(@, j)]
      s == FoldLeft(Take, [run |-> run, left |-> <<>>], q)
  IN /\ queue' = s.left /\ running' = s.run
     /\ at' = [j \in Jobs |-> IF j \in s.run \ run THEN "lease" ELSE places[j]]

----------------------------------------------------------------------------
(* Admission                                                                *)

Run(j) ==
  /\ at[j] = "new"
  /\ IF stop # "no"
       THEN Leaves(j, "stopping") /\ UNCHANGED preflight
       ELSE Goes(j, "preflight") /\ preflight' = TRUE /\ UNCHANGED answers
  /\ UNCHANGED <<control, queue, running, recent, opened, state, chromium, stop, bounds>>

\* Every waiting call gets the answer of the one preflight.
PreflightEnds ==
  /\ preflight /\ preflight' = FALSE
  /\ \E ok \in BOOLEAN :
       /\ ok \/ stop # "no" \/ faults < MaxFaults
       /\ faults' = IF ok \/ stop # "no" THEN faults ELSE faults + 1
       /\ at' = [j \in Jobs |->
                  IF at[j] = "preflight" /\ j \notin asked
                  THEN IF ok THEN "checked" ELSE "denied" ELSE at[j]]
  /\ UNCHANGED <<answers, control, queue, running, recent, opened, state, chromium, stop, cancels>>

PreflightAborted(j) ==
  /\ at[j] = "preflight" /\ j \in asked
  /\ Leaves(j, "cancelled")
  /\ UNCHANGED <<control, admission, opened, state, chromium, stop, bounds>>

\* Mutant of Refusal.
RefusalBeforeStop(j) ==
  IF j \in asked THEN "cancelled"
  ELSE IF Id[j] \in recent THEN "duplicate"
  ELSE IF Len(queue) >= MaxQueue THEN "full" ELSE "none"

\* What run checks after the preflight, in this order.
Refusal(j) ==
  IF stop # "no" THEN "stopping"
  ELSE IF at[j] = "denied" THEN "failed"
  ELSE IF j \in asked THEN "cancelled"
  ELSE IF Id[j] \in recent THEN "duplicate"
  ELSE IF Len(queue) >= MaxQueue THEN "full" ELSE "none"

Enqueue(j) ==
  /\ at[j] \in {"checked", "denied"}
  /\ IF Refusal(j) # "none"
       THEN Leaves(j, Refusal(j)) /\ UNCHANGED <<queue, running, recent>>
       ELSE /\ recent' = recent \cup {Id[j]}
            /\ Drained([at EXCEPT ![j] = "queued"], Append(queue, j), running)
            /\ UNCHANGED answers
  /\ UNCHANGED <<control, preflight, opened, state, chromium, stop, bounds>>

\* A queued job leaves the queue; a running one is aborted.
Cancel(j) ==
  /\ j \notin asked /\ at[j] \notin {"new", "dispose", "done"}
  /\ cancels < MaxCancels /\ cancels' = cancels + 1
  /\ asked' = asked \cup {j}
  /\ IF at[j] = "queued"
       THEN queue' = Remove(queue, j) /\ Leaves(j, "cancelled")
       ELSE UNCHANGED <<queue, at, answers>>
  /\ signal' = IF j \in running /\ ~Aborted(j) THEN [signal EXCEPT ![j] = "caller"] ELSE signal
  /\ UNCHANGED <<running, recent, preflight, opened, state, chromium, stop, faults>>

\* Mutant of Deadline.
DeadlineInPage(j) ==
  /\ j \in running \cap Timed /\ at[j] \notin {"dispose", "done", "mount", "diagnose"} /\ ~Aborted(j)
  /\ signal' = [signal EXCEPT ![j] = "timeout"]
  /\ UNCHANGED <<at, answers, asked, admission, opened, state, chromium, stop, bounds>>

Deadline(j) ==
  /\ j \in running \cap Timed /\ at[j] \notin {"dispose", "done"} /\ ~Aborted(j)
  /\ signal' = [signal EXCEPT ![j] = "timeout"]
  /\ UNCHANGED <<at, answers, asked, admission, opened, state, chromium, stop, bounds>>

----------------------------------------------------------------------------
(* The browser                                                              *)

Dead(j) == uses[j] # 0 /\ browser[uses[j]] \notin {"launching", "up"}
PageAlive(j) == <<"page", j>> \in handles /\ j \notin crashed

\* retireBrowser: the shared browser, whichever it is now.
Retires ==
  /\ current' = 0
  /\ closing' = IF current = 0 THEN closing ELSE closing \cup {current}

Ends(b) ==
  /\ browser' = [browser EXCEPT ![b] = "gone"]
  /\ current' = IF current = b THEN 0 ELSE current
  /\ handles' = {h \in handles : h[1] = "lease" \/ uses[h[2]] # b}

LaunchAnswers(b) ==
  /\ browser[b] = "launching"
  /\ \/ Fine /\ browser' = [browser EXCEPT ![b] = "up"] /\ UNCHANGED <<current, handles>>
     \/ Fault /\ Ends(b)
  /\ UNCHANGED <<at, answers, control, admission, late, state, closing, stop>>

LaunchOverdue(b) ==
  /\ browser[b] = "launching" /\ browser' = [browser EXCEPT ![b] = "overdue"]
  /\ current' = IF current = b THEN 0 ELSE current
  /\ UNCHANGED <<at, answers, control, admission, opened, state, closing, stop, bounds>>

\* A browser that comes up too late is closed.
LateLaunch(b) ==
  /\ browser[b] = "overdue"
  /\ \/ browser' = [browser EXCEPT ![b] = "stray"] /\ closing' = closing \cup {b}
     \/ browser' = [browser EXCEPT ![b] = "gone"] /\ UNCHANGED closing
  /\ UNCHANGED <<at, answers, control, admission, opened, state, current, stop, bounds>>

CloseBrowser(b) ==
  /\ b \in closing /\ browser[b] \in {"up", "stray"} /\ Ends(b)
  /\ UNCHANGED <<at, answers, control, admission, late, state, closing, stop, bounds>>

Disconnect(b) ==
  /\ browser[b] = "up" /\ Fault /\ Ends(b)
  /\ UNCHANGED <<at, answers, control, admission, late, state, closing, stop>>

Crash(j) ==
  /\ PageAlive(j) /\ at[j] \in {"mount", "diagnose", "work", "guard"}
  /\ Fault /\ crashed' = crashed \cup {j}
  /\ UNCHANGED <<at, answers, control, admission, opened, todo, tainted, uses, chromium, stop>>

----------------------------------------------------------------------------
(* A job                                                                    *)

\* It goes to its cleanup, perhaps with the browser to be retired.
EndsBadly(j, taint) ==
  /\ Goes(j, "cleanup")
  /\ outcome' = [outcome EXCEPT ![j] = "failed"]
  /\ tainted' = IF taint THEN tainted \cup {j} ELSE tainted
  /\ UNCHANGED <<result, disposals, todo, crashed, uses>>

\* Moves on to pc.
Proceeds(j, pc) == Goes(j, pc) /\ UNCHANGED <<answers, todo, crashed, tainted, uses>>

\* With its directory and its lease the job joins the shared browser or launches one.
GetLease(j) ==
  /\ at[j] = "lease" /\ ~Aborted(j)
  /\ handles' = handles \cup {<<"lease", j>>}
  /\ Goes(j, "browser")
  /\ IF current # 0
       THEN uses' = [uses EXCEPT ![j] = current] /\ UNCHANGED <<browser, current>>
       ELSE \E b \in Browsers :
              /\ browser[b] = "unborn" /\ (b > 1 => browser[b - 1] # "unborn")
              /\ browser' = [browser EXCEPT ![b] = "launching"]
              /\ current' = b /\ uses' = [uses EXCEPT ![j] = b]
  /\ UNCHANGED <<answers, control, admission, late, todo, crashed, tainted, closing, stop, bounds>>

\* A context once the browser is up, and a page in it with its network policy.
Open(j) ==
  /\ at[j] \in {"browser", "page"} /\ ~Aborted(j) /\ browser[uses[j]] = "up"
  /\ handles' = handles \cup {<<IF at[j] = "browser" THEN "context" ELSE "page", j>>}
  /\ Proceeds(j, IF at[j] = "browser" THEN "page" ELSE "mount")
  /\ UNCHANGED <<control, admission, late, chromium, stop, bounds>>

Mount(j) ==
  /\ at[j] = "mount" /\ ~Aborted(j) /\ PageAlive(j) /\ Proceeds(j, "work")
  /\ UNCHANGED <<control, admission, opened, chromium, stop, bounds>>

\* An action passes, or fails: then the rest is skipped unless the job continues
\* on errors. Native input arms a guard and presses the key first.
Act(j) ==
  /\ at[j] = "work" /\ ~Aborted(j) /\ todo[j] > 0
  /\ \/ Fine /\ PageAlive(j) /\ todo' = [todo EXCEPT ![j] = @ - 1] /\ UNCHANGED at
     \/ Fine /\ PageAlive(j) /\ Goes(j, "guard") /\ UNCHANGED todo
     \/ /\ MayFail(~PageAlive(j)) /\ UNCHANGED at
        /\ \E n \in {0, todo[j] - 1} : todo' = [todo EXCEPT ![j] = n]
  /\ UNCHANGED <<answers, control, admission, opened, crashed, tainted, uses, chromium, stop>>

\* finishNativeKeyboardGuard, also after an abort: without a sound result the
\* browser is retired, unless the job was aborted.
FinishGuard(j) ==
  /\ at[j] = "guard"
  /\ \/ /\ Fine /\ PageAlive(j) /\ ~Aborted(j) /\ Goes(j, "work")
        /\ \E n \in {0, todo[j] - 1} : todo' = [todo EXCEPT ![j] = n]
        /\ UNCHANGED <<answers, crashed, tainted, uses>>
     \/ Fine /\ Aborted(j) /\ EndsBadly(j, FALSE)
     \/ ~Aborted(j) /\ MayFail(~PageAlive(j)) /\ EndsBadly(j, TRUE)
  /\ UNCHANGED <<control, admission, opened, chromium, stop>>

\* The screenshot and the last snapshot of the page.
Capture(j) ==
  /\ at[j] = "work" /\ todo[j] = 0 /\ ~Aborted(j) /\ PageAlive(j)
  /\ Goes(j, "cleanup") /\ outcome' = [outcome EXCEPT ![j] = "ok"]
  /\ UNCHANGED <<result, disposals, control, admission, opened, state, chromium, stop, bounds>>

\* An operation fails. A failed mount asks the page for evidence; an invalid
\* result or snapshot retires the browser.
Reject(j) ==
  /\ at[j] \in {"lease", "browser", "page", "mount", "work"} /\ ~Aborted(j)
  /\ MayFail(Dead(j) \/ (at[j] \in {"mount", "work"} /\ ~PageAlive(j)))
  /\ IF at[j] = "mount"
       THEN Proceeds(j, "diagnose")
       ELSE \E taint \in {FALSE, at[j] = "work"} : EndsBadly(j, taint)
  /\ UNCHANGED <<control, admission, opened, chromium, stop>>

\* The snapshot of a page that failed to mount is awaited without the signal:
\* it ends with an answer or when the page is closed or crashes.
Diagnosed(j) ==
  /\ at[j] = "diagnose" /\ EndsBadly(j, FALSE)
  /\ UNCHANGED <<control, admission, opened, chromium, stop, bounds>>

\* What the pending operation of a job would open, or leave armed.
Awaits(j) ==
  CASE at[j] \in {"lease", "page"} -> {<<at[j], j>>}
    [] at[j] = "browser" /\ browser[uses[j]] = "up" -> {<<"context", j>>}
    [] at[j] = "work" /\ todo[j] > 0 -> {<<"guard", j>>}
    [] OTHER -> {}

\* The signal, or the limit of one operation, ends the wait; the answer may
\* still come.
GiveUp(j) ==
  /\ \/ Aborted(j) /\ at[j] \in {"lease", "browser", "page", "mount", "work"}
     \/ /\ ~Aborted(j) /\ j \in Timed /\ at[j] \in {"lease", "browser", "page", "work"}
        /\ at[j] = "browser" => browser[uses[j]] = "up"
  /\ late' = late \cup Awaits(j)
  /\ EndsBadly(j, FALSE)
  /\ UNCHANGED <<handles, control, admission, chromium, stop, bounds>>

\* An abort closes the page under whatever still waits for it.
ClosePage(j) ==
  /\ Aborted(j) /\ at[j] \in {"diagnose", "guard"} /\ <<"page", j>> \in handles
  /\ handles' = handles \ {<<"page", j>>}
  /\ UNCHANGED <<at, answers, control, admission, late, state, chromium, stop, bounds>>

\* What arrives late is closed at once; a late guard that is not sound retires
\* the browser, and a late cleanup finishes.
LateAnswer(l) ==
  /\ l \in late /\ late' = late \ {l}
  /\ handles' = IF l[1] = "cleanup" THEN {h \in handles : h[2] # l[2]} ELSE handles
  /\ \/ Fine /\ UNCHANGED chromium
     \/ l[1] = "guard" /\ Fault /\ Retires /\ UNCHANGED browser
  /\ UNCHANGED <<at, answers, control, admission, state, stop>>

\* What executing a job comes to: an abort explains every failure.
Reported(j) ==
  IF outcome[j] = "ok" THEN "ok"
  ELSE IF signal[j] = "timeout" THEN "timeout"
  ELSE IF Aborted(j) THEN "cancelled" ELSE "failed"

\* The lease is released, the page and the context are closed; if that fails or
\* takes too long, or the job is tainted, the browser is retired.
Cleanup(j) ==
  /\ at[j] = "cleanup" /\ Leaves(j, Reported(j))
  /\ \E clean \in BOOLEAN :
       /\ handles' = {h \in handles : h[2] # j \/ (~clean /\ h[1] # "lease")}
       /\ late' = IF clean THEN late ELSE late \cup {<<"cleanup", j>>}
       /\ IF ~clean \/ j \in tainted \cup crashed
            THEN Retires /\ UNCHANGED browser ELSE UNCHANGED chromium
  /\ UNCHANGED <<control, admission, state, stop, bounds>>

\* The bridge is disposed, or took too long: the caller is answered and the
\* slot is free.
Answer(j) ==
  /\ at[j] = "dispose"
  /\ IF j \in running
       THEN Drained([at EXCEPT ![j] = "done"], queue, running \ {j})
       ELSE Goes(j, "done") /\ UNCHANGED <<queue, running>>
  /\ UNCHANGED <<answers, control, recent, preflight, opened, state, chromium, stop, bounds>>

----------------------------------------------------------------------------
(* Stop                                                                     *)

Active == {j \in running : at[j] # "dispose"}

Stop ==
  /\ Stops /\ stop = "no" /\ stop' = "begun"
  /\ LET queued == {queue[i] : i \in DOMAIN queue} IN
       /\ at' = [j \in Jobs |-> IF j \in queued THEN "dispose" ELSE at[j]]
       /\ Disposes(queued, "stopping")
  /\ queue' = <<>>
  /\ signal' = [j \in Jobs |-> IF j \in Active /\ ~Aborted(j) THEN "stop" ELSE signal[j]]
  /\ UNCHANGED <<asked, running, recent, preflight, opened, state, chromium, bounds>>

StopBrowser ==
  /\ stop = "begun" /\ stop' = "retired" /\ Retires
  /\ UNCHANGED <<at, answers, control, admission, opened, state, browser, bounds>>

\* After waiting a while for the jobs, the shell server forgets its leases.
StopShell ==
  /\ stop = "retired" /\ stop' = "done"
  /\ handles' = {h \in handles : h[1] # "lease"}
  /\ UNCHANGED <<at, answers, control, admission, late, state, chromium, bounds>>

----------------------------------------------------------------------------

Advances(j) == GetLease(j) \/ Open(j) \/ Mount(j) \/ Act(j) \/ Capture(j) \/ Reject(j)

Next ==
  \/ PreflightEnds \/ Stop \/ StopBrowser \/ StopShell
  \/ \E j \in Jobs :
       \/ Run(j) \/ PreflightAborted(j) \/ Enqueue(j) \/ Cancel(j) \/ Deadline(j)
       \/ Advances(j) \/ FinishGuard(j) \/ Diagnosed(j) \/ GiveUp(j) \/ ClosePage(j)
       \/ Cleanup(j) \/ Answer(j) \/ Crash(j)
  \/ \E b \in Browsers :
       LaunchAnswers(b) \/ LaunchOverdue(b) \/ LateLaunch(b) \/ CloseBrowser(b) \/ Disconnect(b)
  \/ \E l \in late : LateAnswer(l)

Spec == Init /\ [][Next]_vars

\* What the host does about a job, wherever the job stands.
HostGoesOn(j) ==
  \/ PreflightAborted(j) \/ Enqueue(j) \/ FinishGuard(j) \/ Cleanup(j) \/ Answer(j)
  \/ (Aborted(j) /\ GiveUp(j))
  \/ (~PageAlive(j) /\ Diagnosed(j))
BrowserComesUp(b) == LaunchAnswers(b) \/ LaunchOverdue(b) \/ LateLaunch(b)

\* The host goes on: its files are read, its timers fire, a launch comes to an
\* end, and closing a page or a browser does close it. Nothing is assumed of the
\* operations on a page.
Fairness ==
  /\ WF_vars(PreflightEnds) /\ WF_vars(StopBrowser \/ StopShell)
  /\ \A j \in Jobs : WF_vars(HostGoesOn(j)) /\ WF_vars(Deadline(j)) /\ WF_vars(ClosePage(j))
  /\ \A b \in Browsers : WF_vars(BrowserComesUp(b)) /\ WF_vars(CloseBrowser(b))

FairSpec == Spec /\ Fairness

----------------------------------------------------------------------------
(* Properties                                                               *)

\* Every variable has its type.
TypeOK ==
  /\ at \in [Jobs -> {"new", "preflight", "checked", "denied", "queued", "lease", "browser",
                      "page", "mount", "diagnose", "work", "guard", "cleanup", "dispose", "done"}]
  /\ todo \in [Jobs -> Nat] /\ outcome \in [Jobs -> {"none", "ok", "failed"}]
  /\ result \in [Jobs -> {"none", "ok", "failed", "cancelled", "timeout", "stopping",
                          "duplicate", "full"}]
  /\ signal \in [Jobs -> {"live", "caller", "timeout", "stop"}]
  /\ asked \subseteq Jobs /\ disposals \in [Jobs -> Nat]
  /\ queue \in Seq(Jobs) /\ running \subseteq Jobs /\ recent \subseteq {Id[j] : j \in Jobs}
  /\ preflight \in BOOLEAN /\ handles \subseteq Kinds \X Jobs
  /\ late \subseteq (Kinds \cup {"guard", "cleanup"}) \X Jobs
  /\ crashed \subseteq Jobs /\ tainted \subseteq Jobs /\ uses \in [Jobs -> 0..MaxLaunches]
  /\ browser \in [Browsers -> {"unborn", "launching", "up", "overdue", "stray", "gone"}]
  /\ current \in 0..MaxLaunches /\ closing \subseteq Browsers
  /\ stop \in {"no", "begun", "retired", "done"}
  /\ cancels \in 0..MaxCancels /\ faults \in 0..MaxFaults

\* No more jobs run or wait than allowed, an owner has one running at most, a
\* running job is counted until its caller is answered, and no two running jobs
\* share an id and with it a directory.
LimitsKept ==
  /\ Cardinality(running) <= Concurrency /\ Len(queue) <= MaxQueue
  /\ \A i, j \in running : i # j => Owner[i] # Owner[j] /\ Id[i] # Id[j]
  /\ \A j \in Jobs :
       at[j] \in {"lease", "browser", "page", "mount", "diagnose", "work", "guard", "cleanup"}
         => j \in running

\* The function bridge of a call is disposed once on every way out, before its
\* caller is answered.
BridgeDisposedOnce ==
  \A j \in Jobs :
    /\ disposals[j] <= 1
    /\ at[j] = "done" => disposals[j] = 1

\* A handle outlives its job only if its browser is being closed or the cleanup
\* that was given up still goes on.
NothingLeftOpen ==
  \A h \in handles : at[h[2]] \in {"dispose", "done"} =>
    /\ h[1] # "lease"
    /\ uses[h[2]] \in closing \/ <<"cleanup", h[2]>> \in late

\* Every browser process that runs is the shared one or is being closed.
NoOrphanBrowser ==
  \A b \in Browsers : browser[b] \in {"launching", "up", "stray"} => b = current \/ b \in closing

\* Once the service stops no job starts and no browser is launched.
NothingStarts ==
  /\ running' \subseteq running
  /\ \A b \in Browsers : browser[b] = "unborn" => browser'[b] = "unborn"

\* Every call is answered although the page may never answer, and in the end
\* nothing it opened is open.
CallsEnd ==
  \A j \in Jobs : at[j] # "new" ~> at[j] = "done" /\ \A h \in handles : h[2] # j

\* When the service has stopped, no browser process stays behind.
StopEndsBrowsers == stop # "no" ~> \A b \in Browsers : browser[b] \in {"unborn", "gone"}
=============================================================================
