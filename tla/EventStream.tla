----------------------------- MODULE EventStream -----------------------------
(***************************************************************************)
(* The event streams between backend and frontend.  The backend's EventBus *)
(* numbers events, keeps the last of them and pushes them to bounded       *)
(* subscribers; the frontend's resumable stream reads one subscription     *)
(* over one socket, tells connections apart by generations and leases, and *)
(* subscribes again at its cursor after each of them.                      *)
(*                                                                         *)
(* The socket is external: it breaks, tells both ends apart in time, and   *)
(* connects again.  Its hook runs before the streams it carried fail.      *)
(***************************************************************************)
EXTENDS Integers, Sequences, FiniteSets

CONSTANTS
  MaxReplay,       \* maxReplayEvents
  Capacity,        \* subscriberCapacity
  Recovers,        \* whether the stream is given recoverAfterDomainError
  AfterReconnect,  \* whether it is given afterReconnect
  Retries,         \* retries of a recovery after a reconnection
  WireRoom,        \* bound: messages on the wire
  MaxEvents,       \* bound: events published
  MaxBreaks,       \* bound: breaks of the socket
  MaxRestarts,     \* bound: breaks that are restarts of the backend
  MaxFaults,       \* bound: recoveries that fail
  MayAbort         \* whether the caller may abort

StreamAssumption ==
  /\ {MaxReplay, Capacity, WireRoom} \subseteq Nat \ {0}
  /\ {Retries, MaxEvents, MaxBreaks, MaxRestarts, MaxFaults} \subseteq Nat
  /\ {Recovers, AfterReconnect, MayAbort} \subseteq BOOLEAN

VARIABLES
  logs,      \* of each run of the backend: the topics of its events, in order
  sub,       \* the subscriber at the bus
  asked,     \* the subscription under way: its cursor, or nothing
  wire,      \* from the backend to the client
  link,      \* whether the backend's end of the socket is there
  conn,      \* FrontendRpcConnectionGenerations
  client,    \* the generator of the resumable stream
  delivered, \* history: what the consumer was given
  breaks, restarts, faults

bus == <<logs, sub>>
bounds == <<breaks, restarts, faults>>
vars == <<bus, asked, wire, link, conn, client, delivered, bounds>>

Topics == {"mine", "other"}
Epoch == Len(logs)
Log == logs[Epoch]
NoSub == [state |-> "none", queue |-> <<>>, parked |-> FALSE, why |-> "none", from |-> 0]

Init ==
  /\ logs = <<<<>>>> /\ sub = NoSub /\ asked = <<>> /\ wire = <<>> /\ link = FALSE
  /\ conn = [connected |-> FALSE, generation |-> 0, lease |-> 0]
  /\ client = [pc |-> "open", cursor |-> 0, active |-> 0, lease |-> 0, why |-> "none",
               from |-> 0, expected |-> 0, tries |-> 0, upto |-> 0]
  /\ delivered = <<>> /\ breaks = 0 /\ restarts = 0 /\ faults = 0

----------------------------------------------------------------------------
(* The bus                                                                 *)

Earliest == IF Len(Log) > MaxReplay THEN Len(Log) - MaxReplay + 1 ELSE 1

Event(n) == [kind |-> "event", epoch |-> Epoch, seq |-> n, from |-> 0]

\* Mutant of Push.
PushDropping(n) ==
  IF sub.parked
    THEN wire' = Append(wire, Event(n)) /\ sub' = [sub EXCEPT !.parked = FALSE]
    ELSE /\ sub' = IF Len(sub.queue) >= Capacity THEN sub ELSE [sub EXCEPT !.queue = Append(@, n)]
         /\ UNCHANGED wire

\* An event goes to the parked consumer or to the queue; a queue that is full
\* is dropped and its subscriber fails.
Push(n) ==
  IF sub.parked
    THEN wire' = Append(wire, Event(n)) /\ sub' = [sub EXCEPT !.parked = FALSE]
    ELSE /\ sub' = IF Len(sub.queue) >= Capacity
                     THEN [NoSub EXCEPT !.state = "failed", !.why = "overflow"]
                     ELSE [sub EXCEPT !.queue = Append(@, n)]
         /\ UNCHANGED wire

Publish(topic) ==
  /\ Len(Log) < MaxEvents
  /\ logs' = [logs EXCEPT ![Epoch] = Append(@, topic)]
  /\ IF topic = "mine" /\ sub.state = "live" THEN Push(Len(Log) + 1) ELSE UNCHANGED <<sub, wire>>
  /\ UNCHANGED <<asked, link, conn, client, delivered, bounds>>

\* The sequence numbers S, ascending.
InOrder(S) ==
  CHOOSE q \in [1..Cardinality(S) -> S] :
    /\ \A i, j \in DOMAIN q : i < j => q[i] < q[j]
    /\ \A n \in S : \E i \in DOMAIN q : q[i] = n

\* subscribeRecords: a cursor of the future or before what is kept fails.
Subscribe ==
  /\ link /\ conn.connected /\ asked # <<>>
  /\ LET after == asked[1] IN
       sub' = IF after > Len(Log)
                THEN [NoSub EXCEPT !.state = "failed", !.why = "ahead"]
              ELSE IF after < Earliest - 1
                THEN [NoSub EXCEPT !.state = "failed", !.why = "gap", !.from = Earliest]
              ELSE [NoSub EXCEPT !.state = "live",
                      !.queue = InOrder({n \in (after + 1)..Len(Log) : Log[n] = "mine"})]
  /\ asked' = <<>>
  /\ UNCHANGED <<logs, wire, link, conn, client, delivered, bounds>>

\* next of the subscriber, as fast as the wire takes it.
Pump ==
  /\ link /\ ~sub.parked /\ Len(wire) < WireRoom
  /\ \/ /\ sub.state = "failed"
        /\ wire' = Append(wire, [kind |-> sub.why, epoch |-> Epoch, seq |-> 0, from |-> sub.from])
        /\ sub' = NoSub
     \/ /\ sub.state = "live" /\ sub.queue # <<>>
        /\ wire' = Append(wire, Event(Head(sub.queue)))
        /\ sub' = [sub EXCEPT !.queue = Tail(@)]
     \/ /\ sub.state = "live" /\ sub.queue = <<>>
        /\ sub' = [sub EXCEPT !.parked = TRUE] /\ UNCHANGED wire
  /\ UNCHANGED <<logs, asked, link, conn, client, delivered, bounds>>

----------------------------------------------------------------------------
(* The socket and its generations                                          *)

Break ==
  /\ link /\ breaks < MaxBreaks /\ breaks' = breaks + 1
  /\ link' = FALSE /\ sub' = NoSub
  /\ \/ UNCHANGED <<logs, restarts>>
     \/ restarts < MaxRestarts /\ restarts' = restarts + 1 /\ logs' = Append(logs, <<>>)
  /\ UNCHANGED <<asked, wire, conn, client, delivered, faults>>

\* Mutant of Retired.
RetiredLate == conn.lease

Retired == conn.lease + 1

Disconnected ==
  /\ ~link /\ conn.connected
  /\ conn' = [conn EXCEPT !.connected = FALSE, !.lease = Retired]
  /\ wire' = <<>>
  /\ UNCHANGED <<bus, asked, link, client, delivered, bounds>>

\* The first connection keeps the lease of what was asked before it.
Connected ==
  /\ ~conn.connected
  /\ link' = TRUE
  /\ conn' = [connected |-> TRUE, generation |-> conn.generation + 1,
              lease |-> IF conn.generation > 0 THEN Retired ELSE conn.lease]
  /\ UNCHANGED <<bus, asked, wire, client, delivered, bounds>>

----------------------------------------------------------------------------
(* The generator                                                           *)

At(pc) == client.pc = pc
Goes(pc) == client' = [client EXCEPT !.pc = pc]

\* The subscription at the other end ends with the stream.
Returned == asked' = <<>> /\ sub' = NoSub /\ wire' = <<>>

IsCurrent == conn.connected /\ conn.generation = client.active
Leased == client.lease = conn.lease

Open ==
  /\ At("open")
  /\ client' = [client EXCEPT !.pc = "next", !.active = conn.generation, !.lease = conn.lease]
  /\ asked' = <<client.cursor>>
  /\ UNCHANGED <<bus, wire, link, conn, delivered, bounds>>

IsDuplicate(m) == m.seq <= client.cursor

Later(n) == IF n > client.cursor THEN n ELSE client.cursor

Receive ==
  /\ At("next") /\ Leased /\ wire # <<>> /\ Head(wire).kind = "event"
  /\ LET m == Head(wire) IN
       /\ client' = [client EXCEPT !.cursor = Later(m.seq)]
       /\ delivered' = IF IsDuplicate(m) THEN delivered ELSE Append(delivered, m)
  /\ wire' = Tail(wire)
  /\ UNCHANGED <<bus, asked, link, conn, bounds>>

\* The stream fails: by its domain while the connection stands, ...
Fails ==
  /\ At("next") /\ Leased /\ wire # <<>> /\ Head(wire).kind # "event"
  /\ client' = [client EXCEPT !.pc = "failed", !.why = Head(wire).kind, !.from = Head(wire).from]
  /\ Returned
  /\ UNCHANGED <<logs, link, conn, delivered, bounds>>

\* ... or with its connection.
StreamRetired ==
  /\ At("next") /\ (~Leased \/ (~conn.connected /\ conn.generation > 0))
  /\ client' = [client EXCEPT !.pc = "failed", !.why = "retired"]
  /\ Returned
  /\ UNCHANGED <<logs, link, conn, delivered, bounds>>

Wait == client' = [client EXCEPT !.pc = "waiting", !.expected = client.active]

\* Only a gap in the replay is recovered from (fnAgentReplayCursorAfterGap).
Recoverable == Recovers /\ client.why = "gap"

DomainError ==
  /\ At("failed")
  /\ IF IsCurrent THEN Goes(IF Recoverable THEN "recovering" ELSE "dead") ELSE Wait
  /\ UNCHANGED <<bus, asked, wire, link, conn, delivered, bounds>>

\* recoverAfterDomainError reads the history of the chat, as of now.
RecoveryRead ==
  /\ At("recovering") /\ link /\ conn.connected
  /\ client' = [client EXCEPT !.pc = "recovered", !.upto = Len(Log)]
  /\ UNCHANGED <<bus, asked, wire, link, conn, delivered, bounds>>

RecoveryFails ==
  /\ At("recovering")
  /\ \/ ~IsCurrent /\ Wait /\ UNCHANGED faults
     \/ IsCurrent /\ faults < MaxFaults /\ faults' = faults + 1 /\ Goes("dead")
  /\ UNCHANGED <<bus, asked, wire, link, conn, delivered, breaks, restarts>>

History(upto) == [kind |-> "history", epoch |-> Epoch, seq |-> upto, from |-> 0]

\* The recovered history is given out and the stream goes on behind the gap.
RecoveryTaken ==
  /\ At("recovered")
  /\ IF IsCurrent
       THEN /\ client' = [client EXCEPT !.pc = "open", !.cursor = client.from - 1]
            /\ delivered' = Append(delivered, History(client.upto))
       ELSE Wait /\ UNCHANGED delivered
  /\ UNCHANGED <<bus, asked, wire, link, conn, bounds>>

\* waitForConnectionAfter
Reconnected ==
  /\ At("waiting") /\ conn.connected /\ conn.generation > client.expected
  /\ IF AfterReconnect
       THEN client' = [client EXCEPT !.pc = "restoring", !.expected = conn.generation, !.tries = 0]
       ELSE Goes("open")
  /\ UNCHANGED <<bus, asked, wire, link, conn, delivered, bounds>>

\* fxRecoverAfterReconnect, in the generation it was started for.
Expected == conn.connected /\ conn.generation = client.expected

Restored ==
  /\ At("restoring") /\ link /\ Expected
  /\ client' = [client EXCEPT !.pc = "open"]
  /\ delivered' = Append(delivered, History(Len(Log)))
  /\ UNCHANGED <<bus, asked, wire, link, conn, bounds>>

RestoreFails ==
  /\ At("restoring") /\ Expected
  /\ faults < MaxFaults /\ faults' = faults + 1
  /\ client' = IF client.tries < Retries
                 THEN [client EXCEPT !.tries = @ + 1]
                 ELSE [client EXCEPT !.pc = "dead"]
  /\ UNCHANGED <<bus, asked, wire, link, conn, delivered, breaks, restarts>>

GenerationChanged ==
  /\ At("restoring") /\ ~Expected
  /\ Goes("waiting")
  /\ UNCHANGED <<bus, asked, wire, link, conn, delivered, bounds>>

Abort ==
  /\ MayAbort /\ client.pc \notin {"dead", "aborted"}
  /\ Goes("aborted") /\ Returned
  /\ UNCHANGED <<logs, link, conn, delivered, bounds>>

----------------------------------------------------------------------------
Backend == Subscribe \/ Pump
Socket == Disconnected \/ Connected
Generator ==
  Open \/ Receive \/ Fails \/ StreamRetired \/ DomainError \/ RecoveryRead \/ RecoveryFails
  \/ RecoveryTaken \/ Reconnected \/ Restored \/ RestoreFails \/ GenerationChanged

Next == (\E topic \in Topics : Publish(topic)) \/ Backend \/ Break \/ Socket \/ Generator \/ Abort

Spec == Init /\ [][Next]_vars

\* The backend serves, a broken socket is noticed (the client pings) and
\* connected again, and the consumer reads on.
Fairness == WF_vars(Subscribe) /\ WF_vars(Pump) /\ WF_vars(Socket) /\ WF_vars(Generator)
FairSpec == Spec /\ Fairness
----------------------------------------------------------------------------
(* Properties                                                              *)

\* The types; and a subscriber is within its bound while nothing waits for it.
TypeOK ==
  /\ logs \in Seq(Seq(Topics))
  /\ sub.state \in {"none", "live", "failed"} /\ sub.queue \in Seq(Nat) /\ sub.parked \in BOOLEAN
  /\ sub.why \in {"none", "overflow", "ahead", "gap"} /\ sub.from \in Nat
  /\ asked \in Seq(Nat) /\ Len(asked) <= 1 /\ Len(wire) <= WireRoom + 1
  /\ {link, conn.connected, sub.parked} \subseteq BOOLEAN /\ {conn.generation, conn.lease} \subseteq Nat
  /\ client.pc \in {"open", "next", "failed", "recovering", "recovered", "waiting", "restoring",
                    "dead", "aborted"}
  /\ {client.cursor, client.active, client.lease, client.from, client.expected, client.tries,
      client.upto} \subseteq Nat
  /\ sub.parked => sub.state = "live" /\ sub.queue = <<>>
  /\ {breaks, restarts, faults} \subseteq Nat

Covers(d, epoch, n) ==
  /\ d.epoch = epoch
  /\ \/ d.kind = "event" /\ d.seq = n
     \/ d.kind = "history" /\ d.seq >= n

\* Whoever is given an event was given all events of its topic before it, or
\* a history that covers them: no reconnection, overflow or trimmed replay
\* leaves a hole (EventBus.subscribeRecords, resumableStream).
NothingMissed ==
  \A i \in 1..Len(delivered) : delivered[i].kind = "event" =>
    \A n \in 1..(delivered[i].seq - 1) :
      logs[delivered[i].epoch][n] = "mine" =>
        \E j \in 1..(i - 1) : Covers(delivered[j], delivered[i].epoch, n)

\* Events of one run of the backend are given out once and in order.
DeliveredOnce ==
  \A i, j \in 1..Len(delivered) :
    (/\ i < j /\ delivered[i].kind = "event" /\ delivered[j].kind = "event"
     /\ delivered[i].epoch = delivered[j].epoch)
    => delivered[i].seq < delivered[j].seq

Ended == client.pc \in {"dead", "aborted"}

\* Every event reaches the consumer, or the stream ends with an error that
\* the consumer sees, or the backend that numbered it is gone.
CatchesUp ==
  \A n \in 1..MaxEvents :
    n \in DOMAIN Log /\ Log[n] = "mine"
      ~> Ended \/ restarts > 0 \/ \E i \in 1..Len(delivered) : Covers(delivered[i], Epoch, n)

\* A stream that waits for events has a subscription at the backend, or is
\* about to get one or to fail: it is never live in appearance only.
NoDeadStream ==
  At("next") /\ sub.state = "none" ~> ~(At("next") /\ sub.state = "none")
=============================================================================
