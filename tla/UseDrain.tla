------------------------------- MODULE UseDrain -------------------------------
(***************************************************************************)
(* The coordinator of a resource's uses. A lifecycle operation drains the   *)
(* consumers attached to the coordinator one after the other, before a      *)
(* deadline, and gets one lease that stands for the lease of each of them;  *)
(* it releases that lease later, again as often as a consumer failed.       *)
(* Consumers answer at any time, too late included, or never.               *)
(*                                                                          *)
(* One resource: drains of different resources share no state but the       *)
(* number of the lease, which is the number of the drain here. Consumers    *)
(* are external: they keep their child lease until it is released to them   *)
(* or expires, and reject the release of one they do not hold.              *)
(***************************************************************************)
EXTENDS Integers, FiniteSets, FiniteSetsExt

CONSTANTS
  Consumers,
  NoOne,      \* no consumer is being asked
  Expiries,   \* times at which a consumer's lease may expire
  Timeouts,   \* timeouts of a drain
  MaxTime,    \* bound: the last instant, also of a deadline
  MaxDrains,  \* bound: drains asked for
  MaxMoves,   \* bound: consumers that attach or detach
  MaxFaults   \* bound: releases a consumer rejects though it holds the lease

Forever == MaxTime + 1  \* expires at no time, as Number.MAX_SAFE_INTEGER
Drains == 1..MaxDrains
Modes == {"resume", "hold"}

UseAssumption ==
  /\ NoOne \notin Consumers
  /\ Expiries \subseteq 0..Forever /\ Timeouts \subseteq Nat
  /\ {MaxTime, MaxDrains, MaxMoves, MaxFaults} \subseteq Nat

\* A consumer's lease; one that names another resource is not fit for use.
Children == [drain : Drains, of : Consumers, expires : Expiries, fit : BOOLEAN]

VARIABLES
  now,
  attached,  \* the consumers attached
  drain,     \* drain -> where it is and what it has got
  calls,     \* <<drain, consumer>>: calls a consumer has not answered
  held,      \* child leases that consumers hold
  sends,     \* releases that consumers have not answered
  active,    \* the drain whose lease is active, or 0
  leases,    \* drains whose lease the coordinator still knows
  release,   \* drain -> its lease: children left, mode and running release
  released,  \* history: <<child, mode>> released at the consumer
  given,     \* history: child leases given up after a rejected rollback
  moves, faults

bounds == <<moves, faults>>
vars == <<now, attached, drain, calls, held, sends, active, leases, release,
          released, given, bounds>>

Unborn == [at |-> "new", from |-> {}, rest |-> {}, asking |-> NoOne,
           deadline |-> 0, children |-> {}]
NoLease == [expires |-> 0, all |-> {}, children |-> {}, mode |-> "any", running |-> "no",
            failed |-> {}]

Init ==
  /\ now = 0 /\ attached = Consumers
  /\ drain = [d \in Drains |-> Unborn]
  /\ calls = {} /\ held = {} /\ sends = {}
  /\ active = 0 /\ leases = {}
  /\ release = [d \in Drains |-> NoLease]
  /\ released = {} /\ given = {} /\ moves = 0 /\ faults = 0

Running(d) == drain[d].at \in {"asking", "rolling", "inspecting"}
Overdue(d) == now >= drain[d].deadline
Expired(d) == now >= release[d].expires

----------------------------------------------------------------------------
(* Drain                                                                    *)

\* What refuses a drain: a running one, or a lease that has not expired.
Busy == (\E d \in Drains : Running(d)) \/ (active # 0 /\ ~Expired(active))

\* An expired lease is forgotten first, its children with it.
BeginDrain(d) ==
  /\ drain[d].at = "new" /\ (d > 1 => drain[d - 1].at # "new")
  /\ IF active # 0 /\ Expired(active)
       THEN active' = 0 /\ leases' = leases \ {active}
       ELSE UNCHANGED <<active, leases>>
  /\ IF Busy
       THEN drain' = [drain EXCEPT ![d].at = "refused"]
       ELSE \E t \in {x \in Timeouts : now + x <= MaxTime} :
              drain' = [drain EXCEPT ![d] =
                [Unborn EXCEPT !.at = "asking", !.from = attached, !.rest = attached,
                               !.deadline = now + t]]
  /\ UNCHANGED <<now, attached, calls, held, sends, release, released, given, bounds>>

\* Every child obtained so far is told to resume.
RolledBack(d, children) ==
  sends' = sends \cup
    {[child |-> ch, mode |-> "resume", by |-> "rollback"] : ch \in children}

Fails(d, children) ==
  /\ drain' = [drain EXCEPT ![d].at = "rolling", ![d].asking = NoOne,
                            ![d].children = children]
  /\ RolledBack(d, children)

Turn(d) == drain[d].at = "asking" /\ drain[d].asking = NoOne

AskNext(d) ==
  /\ Turn(d)
  /\ \E c \in drain[d].rest :
       IF Overdue(d)
         THEN Fails(d, drain[d].children) /\ UNCHANGED calls
         ELSE /\ drain' = [drain EXCEPT ![d].asking = c, ![d].rest = @ \ {c}]
              /\ calls' = calls \cup {<<d, c>>}
              /\ UNCHANGED sends
  /\ UNCHANGED <<now, attached, held, active, leases, release, released, given, bounds>>

Awaited(d, c) == drain[d].at = "asking" /\ drain[d].asking = c

\* A consumer that drained after the deadline is told to resume.
LateGrant(ch) ==
  sends' = sends \cup {[child |-> ch, mode |-> "resume", by |-> "late"]}

ConsumerGrants(d, c) ==
  /\ <<d, c>> \in calls /\ calls' = calls \ {<<d, c>>}
  /\ \E ch \in Children :
       /\ ch.drain = d /\ ch.of = c
       /\ held' = IF ch.expires > now THEN held \cup {ch} ELSE held
       /\ IF ~Awaited(d, c)
            THEN LateGrant(ch) /\ UNCHANGED drain
          ELSE IF ch.fit /\ ch.expires > now
            THEN /\ drain' = [drain EXCEPT ![d].asking = NoOne, ![d].children = @ \cup {ch}]
                 /\ UNCHANGED sends
            ELSE Fails(d, drain[d].children \cup {ch})
  /\ UNCHANGED <<now, attached, active, leases, release, released, given, bounds>>

\* It throws or finds uses it cannot drain.
ConsumerRefuses(d, c) ==
  /\ <<d, c>> \in calls /\ calls' = calls \ {<<d, c>>}
  /\ IF Awaited(d, c) THEN Fails(d, drain[d].children) ELSE UNCHANGED <<drain, sends>>
  /\ UNCHANGED <<now, attached, held, active, leases, release, released, given, bounds>>

\* Mutant of TimeOut.
NoTimeOut(d) == FALSE

TimeOut(d) ==
  /\ drain[d].at = "asking" /\ drain[d].asking # NoOne /\ Overdue(d)
  /\ Fails(d, drain[d].children)
  /\ UNCHANGED <<now, attached, calls, held, active, leases, release, released, given, bounds>>

LeaseExpiry(children) == Min({ch.expires : ch \in children} \cup {Forever})

Grant(d) ==
  /\ Turn(d) /\ drain[d].rest = {}
  /\ LET children == drain[d].children
         expires == LeaseExpiry(children)
     IN IF Overdue(d) \/ expires <= now
          THEN Fails(d, children) /\ UNCHANGED <<active, leases, release>>
          ELSE /\ drain' = [drain EXCEPT ![d].at = "granted"]
               /\ active' = d /\ leases' = leases \cup {d}
               /\ release' = [release EXCEPT ![d] =
                    [NoLease EXCEPT !.expires = expires, !.all = children, !.children = children]]
               /\ UNCHANGED sends
  /\ UNCHANGED <<now, attached, calls, held, released, given, bounds>>

\* The failed drain waits for its rollback, and for the consumers' account of
\* their uses, no longer than until its deadline.
RollbackSettles(d) ==
  /\ drain[d].at = "rolling"
  /\ Overdue(d) \/ \A s \in sends : s.by = "rollback" => s.child.drain # d
  /\ drain' = [drain EXCEPT ![d].at = "inspecting"]
  /\ UNCHANGED <<now, attached, calls, held, sends, active, leases, release, released, given, bounds>>

Inspected(d) ==
  /\ drain[d].at = "inspecting"
  /\ drain' = [drain EXCEPT ![d].at = "failed"]
  /\ UNCHANGED <<now, attached, calls, held, sends, active, leases, release, released, given, bounds>>

----------------------------------------------------------------------------
(* Release                                                                  *)

ModeFits(d, mode) == release[d].mode \in {"any", mode}

\* The lease is fenced: known, active and not expired, and one release at a
\* time. Any other release is refused and changes nothing.
BeginRelease(d, mode) ==
  /\ d \in leases /\ active = d /\ ~Expired(d)
  /\ release[d].running = "no" /\ ModeFits(d, mode)
  /\ release' = [release EXCEPT ![d].running = mode, ![d].failed = {}]
  /\ sends' = sends \cup
       {[child |-> ch, mode |-> mode, by |-> "release"] : ch \in release[d].children}
  /\ UNCHANGED <<now, attached, drain, calls, held, active, leases, released, given, bounds>>

\* The release of an expired lease is refused and the lease forgotten.
ReleaseExpired(d) ==
  /\ d \in leases /\ active = d /\ Expired(d)
  /\ active' = 0 /\ leases' = leases \ {d}
  /\ UNCHANGED <<now, attached, drain, calls, held, sends, release, released, given, bounds>>

ConsumerReleases(s) ==
  /\ s \in sends /\ s.child \in held
  /\ sends' = sends \ {s} /\ held' = held \ {s.child}
  /\ released' = released \cup {<<s.child, s.mode>>}
  /\ UNCHANGED <<now, attached, drain, calls, active, leases, release, given, bounds>>

\* It does not hold the lease any more, or fails.
ConsumerRejects(s) ==
  /\ s \in sends /\ sends' = sends \ {s}
  /\ IF s.child \in held
       THEN faults < MaxFaults /\ faults' = faults + 1 /\ UNCHANGED moves
       ELSE UNCHANGED bounds
  /\ IF s.by = "release"
       THEN release' = [release EXCEPT ![s.child.drain].failed = @ \cup {s.child}] /\ UNCHANGED given
       ELSE given' = given \cup {s.child} /\ UNCHANGED release
  /\ UNCHANGED <<now, attached, drain, calls, held, active, leases, released>>

\* Mutant of EndRelease.
EndReleaseKeepsAll(d) ==
  /\ release[d].running # "no" /\ \A s \in sends : s.by = "release" => s.child.drain # d
  /\ IF release[d].failed # {}
       THEN release' = [release EXCEPT ![d].running = "no", ![d].mode = release[d].running] /\ UNCHANGED <<active, leases>>
       ELSE /\ release' = [release EXCEPT ![d].running = "no", ![d].mode = "done", ![d].children = {}]
            /\ leases' = leases \ {d} /\ active' = IF active = d THEN 0 ELSE active
  /\ UNCHANGED <<now, attached, drain, calls, held, sends, released, given, bounds>>

\* A partial failure keeps the children that failed, and the mode. The lease is
\* entered again even if it expired and was forgotten meanwhile.
EndRelease(d) ==
  /\ release[d].running # "no"
  /\ \A s \in sends : s.by = "release" => s.child.drain # d
  /\ IF release[d].failed # {}
       THEN /\ release' = [release EXCEPT ![d].running = "no", ![d].mode = release[d].running,
                                          ![d].children = release[d].failed]
            /\ leases' = leases \cup {d} /\ UNCHANGED active
       ELSE /\ release' = [release EXCEPT ![d].running = "no", ![d].mode = "done", ![d].children = {}]
            /\ leases' = leases \ {d}
            /\ active' = IF active = d THEN 0 ELSE active
  /\ UNCHANGED <<now, attached, drain, calls, held, sends, released, given, bounds>>

----------------------------------------------------------------------------
(* Consumers and time                                                       *)

Attach(c) ==
  /\ moves < MaxMoves /\ moves' = moves + 1
  /\ attached' = IF c \in attached THEN attached \ {c} ELSE attached \cup {c}
  /\ UNCHANGED <<now, drain, calls, held, sends, active, leases, release, released, given, faults>>

\* A consumer resumes by itself when its lease expires.
Tick ==
  /\ now < MaxTime /\ now' = now + 1
  /\ held' = {ch \in held : ch.expires > now'}
  /\ UNCHANGED <<attached, drain, calls, sends, active, leases, release, released, given, bounds>>

Next ==
  \/ Tick
  \/ \E c \in Consumers : Attach(c)
  \/ \E d \in Drains :
       \/ BeginDrain(d) \/ AskNext(d) \/ TimeOut(d) \/ Grant(d)
       \/ RollbackSettles(d) \/ Inspected(d)
       \/ ReleaseExpired(d) \/ EndRelease(d)
       \/ \E mode \in Modes : BeginRelease(d, mode)
       \/ \E c \in Consumers : ConsumerGrants(d, c) \/ ConsumerRefuses(d, c)
  \/ \E s \in sends : ConsumerReleases(s) \/ ConsumerRejects(s)

Spec == Init /\ [][Next]_vars

\* Time passes and the coordinator goes on; a consumer need not answer a
\* drain, but handles each release it is sent.
Fairness ==
  /\ WF_vars(Tick)
  /\ \A d \in Drains :
       /\ WF_vars(AskNext(d)) /\ WF_vars(TimeOut(d)) /\ WF_vars(Grant(d))
       /\ WF_vars(RollbackSettles(d)) /\ WF_vars(Inspected(d) /\ Overdue(d))
  /\ WF_vars(\E s \in sends : ConsumerReleases(s) \/ ConsumerRejects(s))

FairSpec == Spec /\ Fairness

----------------------------------------------------------------------------
(* Properties                                                               *)

Sends == [child : Children, mode : Modes, by : {"rollback", "late", "release"}]

\* Every variable has its type.
TypeOK ==
  /\ now \in 0..MaxTime /\ attached \subseteq Consumers
  /\ drain \in [Drains -> [at : {"new", "refused", "asking", "rolling", "inspecting", "failed", "granted"},
                           from : SUBSET Consumers, rest : SUBSET Consumers,
                           asking : Consumers \cup {NoOne}, deadline : Nat,
                           children : SUBSET Children]]
  /\ calls \subseteq Drains \X Consumers /\ held \subseteq Children /\ sends \subseteq Sends
  /\ active \in 0..MaxDrains /\ leases \subseteq Drains
  /\ release \in [Drains -> [expires : 0..Forever, all : SUBSET Children, children : SUBSET Children,
                             mode : Modes \cup {"any", "done"}, running : Modes \cup {"no"},
                             failed : SUBSET Children]]
  /\ released \subseteq Children \X Modes /\ given \subseteq Children
  /\ moves \in 0..MaxMoves /\ faults \in 0..MaxFaults

Owns(d) == drain[d].at = "granted" /\ release[d].mode # "done" /\ ~Expired(d)

\* Two lifecycle operations never own the resource at once, however their
\* drains, their expiries and unfinished releases interleave.
OneLease == \A d, e \in Drains : Owns(d) /\ (Owns(e) \/ Running(e)) => d = e

\* As long as a lease that nobody began to release is valid, every consumer
\* that was attached when its drain began is drained under it.
LeaseHoldsEveryConsumer ==
  \A d \in Drains : Owns(d) /\ release[d].mode = "any" /\ release[d].running = "no" =>
    \A c \in drain[d].from : \E ch \in held : ch.drain = d /\ ch.of = c

\* A consumer stays drained only while somebody will release it: the running
\* drain, an active lease or a release on its way, unless it rejected the
\* rollback or the lease it belongs to expired.
NoConsumerForgotten ==
  \A ch \in held :
    LET d == ch.drain IN
    \/ Running(d) /\ ch \in drain[d].children
    \/ d \in leases /\ ch \in release[d].children
    \/ \E s \in sends : s.child = ch
    \/ ch \in given
    \/ drain[d].at = "granted" /\ Expired(d)

\* A lease counts as released once every one of its consumers was told, all of
\* them in the same mode, whatever failed in between.
ReleaseIsWhole ==
  \A d \in Drains :
    release[d].mode = "done" =>
      \E mode \in Modes : \A ch \in release[d].all :
        {m \in Modes : <<ch, m>> \in released} = {mode}

\* A consumer that carried out a release is not told again.
NotReleasedTwice ==
  [][\A s \in sends' \ sends : \A m \in Modes : <<s.child, m>> \notin released]_vars

\* A drain ends although its consumers never answer.
DrainsEnd == \A d \in Drains : Running(d) ~> ~Running(d)

\* A consumer that granted its lease to a drain that failed, in time or too
\* late, is not left drained.
FailedDrainsAreUndone ==
  \A d \in Drains :
    drain[d].at \in {"rolling", "failed"} /\ (\E ch \in held : ch.drain = d) ~>
      \A ch \in held : ch.drain # d
=============================================================================
