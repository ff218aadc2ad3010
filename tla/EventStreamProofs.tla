--------------------------- MODULE EventStreamProofs ---------------------------
(***************************************************************************)
(* A consumer of a resumable stream is given every event of its topic      *)
(* once, in order and without a hole, for any bounds of the bus and any    *)
(* breaks, overflows, trimmed replays and recoveries.                      *)
(*                                                                         *)
(* The cursor of the client splits the log: what is behind it was given to *)
(* the consumer, or covered by a history (GivenInv); what is ahead of it   *)
(* is on the wire or queued at the bus as long as the subscriber lives     *)
(* (FlightInv), and what is on the wire is a part of the topic without a   *)
(* hole even when the subscriber is gone (WireInv).  A gap is ahead of the *)
(* cursor, so that going on behind it loses what the history covers only.  *)
(***************************************************************************)
EXTENDS EventStream, SequenceTheorems, FiniteSetTheorems, FunctionTheorems,
        WellFoundedInduction, TLAPS

Sub == [state : {"none", "live", "failed"}, queue : Seq(Nat), parked : BOOLEAN,
        why : {"none", "overflow", "ahead", "gap"}, from : Nat]
Message == [kind : {"event", "overflow", "ahead", "gap"}, epoch : Nat, seq : Nat, from : Nat]
Given == [kind : {"event", "history"}, epoch : Nat, seq : Nat, from : Nat]
Conn == [connected : BOOLEAN, generation : Nat, lease : Nat]
Client == [pc : {"open", "next", "failed", "recovering", "recovered", "waiting", "restoring",
                 "dead", "aborted"},
           cursor : Nat, active : Nat, lease : Nat,
           why : {"none", "overflow", "ahead", "gap", "retired"},
           from : Nat, expected : Nat, tries : Nat, upto : Nat]

StreamType ==
  /\ logs \in Seq(Seq(Topics)) /\ restarts \in Nat /\ Len(logs) = restarts + 1
  /\ sub \in Sub /\ asked \in Seq(Nat) /\ Len(asked) <= 1
  /\ wire \in Seq(Message) /\ link \in BOOLEAN /\ conn \in Conn /\ client \in Client
  /\ delivered \in Seq(Given)
  /\ breaks \in Nat /\ faults \in Nat

RoomInv ==
  /\ Len(wire) <= WireRoom
  /\ sub.parked => sub.state = "live" /\ sub.queue = <<>> /\ Len(wire) < WireRoom

\* Only a stream that waits for events has anything under way at the backend,
\* and what it has asked for is what follows its cursor.
AskInv ==
  /\ client.pc # "next" => asked = <<>> /\ sub = NoSub /\ wire = <<>>
  /\ asked # <<>> => asked[1] = client.cursor /\ sub = NoSub /\ wire = <<>>
  /\ ~link => sub = NoSub

\* A gap ends right before the first event that is kept: behind the cursor,
\* and not behind the end of the log while the backend runs.
Gap(from) == from > client.cursor /\ (restarts = 0 => from <= Len(Log) + 1)

IsEvent(k) == wire[k].kind = "event"

\* What is on the wire was logged and follows the cursor without a hole.
InLine(k) ==
  /\ wire[k].epoch \in 1..Epoch /\ wire[k].seq \in 1..Len(logs[wire[k].epoch])
  /\ wire[k].seq > client.cursor
  /\ \A n \in (client.cursor + 1)..(wire[k].seq - 1) :
       logs[wire[k].epoch][n] = "mine" => \E j \in 1..(k - 1) : wire[j].seq = n

WireInv ==
  /\ \A k \in 1..Len(wire) : IsEvent(k) => InLine(k)
  /\ \A j, k \in 1..Len(wire) : IsEvent(j) /\ IsEvent(k) /\ j < k => wire[j].seq < wire[k].seq
  /\ \A k \in 1..Len(wire) : wire[k].kind = "gap" => Len(wire) = 1 /\ Gap(wire[k].from)

FlightInv ==
  /\ sub.state # "none" => \A k \in 1..Len(wire) : IsEvent(k) /\ wire[k].epoch = Epoch
  /\ sub.state = "failed" => sub.why # "none"
  /\ sub.state = "failed" /\ sub.why = "gap" => wire = <<>> /\ Gap(sub.from)
  /\ sub.state = "live" =>
       /\ client.cursor <= Len(Log)
       /\ \A i \in 1..Len(sub.queue) :
            /\ sub.queue[i] \in (client.cursor + 1)..Len(Log)
            /\ \A k \in 1..Len(wire) : wire[k].seq < sub.queue[i]
       /\ \A i, j \in 1..Len(sub.queue) : i < j => sub.queue[i] < sub.queue[j]
       /\ \A n \in (client.cursor + 1)..Len(Log) : Log[n] = "mine" =>
            \/ \E k \in 1..Len(wire) : wire[k].seq = n
            \/ \E i \in 1..Len(sub.queue) : sub.queue[i] = n

ClientInv ==
  /\ client.pc \in {"recovering", "recovered"} => client.why = "gap"
  /\ client.pc \in {"failed", "recovering", "recovered"} /\ client.why = "gap" => Gap(client.from)
  /\ client.pc = "recovered" /\ restarts = 0 => client.from <= client.upto + 1

GivenInv ==
  /\ DeliveredOnce
  /\ \A i \in 1..Len(delivered) : delivered[i].kind = "event" =>
       /\ delivered[i].seq <= client.cursor
       /\ delivered[i].epoch \in 1..Epoch /\ delivered[i].seq \in 1..Len(logs[delivered[i].epoch])
  /\ restarts = 0 =>
       /\ NothingMissed
       /\ client.cursor <= Len(Log)
       /\ \A n \in 1..client.cursor : Log[n] = "mine" =>
            \E j \in 1..Len(delivered) : Covers(delivered[j], Epoch, n)

IInv == StreamType /\ RoomInv /\ AskInv /\ WireInv /\ FlightInv /\ ClientInv /\ GivenInv

-----------------------------------------------------------------------------
(***************************************************************************)
(* The queue of a new subscriber.                                          *)
(***************************************************************************)
LEMMA Least ==
  ASSUME NEW B \in SUBSET Nat, B # {} PROVE \E m \in B : \A k \in B : m <= k
<1>1. IsWellFoundedOn(OpToRel(<, Nat), Nat)
  BY NatLessThanWellFounded
<1>2. PICK m \in B : \A k \in B : ~(<<k, m>> \in OpToRel(<, Nat))
  BY <1>1, WFMin, Zenon
<1>3. \A k \in B : k \in Nat /\ m \in Nat /\ ~(k < m)
  <2>1. \A k \in B : <<k, m>> \in Nat \X Nat
    OBVIOUS
  <2> QED
    BY <1>2, <2>1 DEF OpToRel
<1> QED
  BY <1>3

Lists(k, q, S) ==
  /\ q \in [1..k -> S]
  /\ \A i, j \in 1..k : i < j => q[i] < q[j]
  /\ \A n \in S : \E i \in 1..k : q[i] = n

\* By the first m whose numbers up to m, or some of them, nothing lists.
LEMMA ListExists ==
  ASSUME NEW m \in Nat, NEW S \in SUBSET (1..m)
  PROVE  \E k \in Nat : \E q : Lists(k, q, S)
<1> DEFINE Good(n) == \A T \in SUBSET (1..n) : \E k \in Nat : \E q : Lists(k, q, T)
           B == {n \in Nat : ~Good(n)}
<1>1. SUFFICES B = {}
  BY <1>1
<1>2. SUFFICES ASSUME B # {} PROVE FALSE
  OBVIOUS
<1>3. PICK n \in B : \A k \in B : n <= k
  BY <1>2, Least
<1>4. n \in Nat /\ ~Good(n)
  BY <1>3
<1>5. PICK T \in SUBSET (1..n) : ~\E k \in Nat : \E q : Lists(k, q, T)
  BY <1>4
<1>6. n # 0
  <2>1. SUFFICES ASSUME n = 0 PROVE FALSE
    OBVIOUS
  <2>2. T = {} /\ 0 \in Nat
    BY <2>1
  <2>3. Lists(0, [i \in 1..0 |-> 0], T)
    BY <2>2 DEF Lists
  <2> QED
    BY <1>5, <2>2, <2>3
<1>7. Good(n - 1)
  <2>1. n - 1 \in Nat /\ ~(n <= n - 1)
    BY <1>4, <1>6
  <2> QED
    BY <1>3, <2>1
<1> DEFINE U == T \ {n}
<1>8. U \in SUBSET (1..(n - 1))
  BY <1>4, <1>6
<1>9. PICK k \in Nat : \E q : Lists(k, q, U)
  BY <1>7, <1>8
<1>10. PICK q : Lists(k, q, U)
  BY <1>9
<1>11. CASE n \notin T
  BY <1>5, <1>9, <1>10, <1>11
<1>12. CASE n \in T
  <2> DEFINE r == [i \in 1..(k + 1) |-> IF i = k + 1 THEN n ELSE q[i]]
  <2>1. \A i \in 1..k : q[i] \in U /\ q[i] \in 1..(n - 1)
    BY <1>8, <1>10 DEF Lists
  <2>2. \A i \in 1..(k + 1) : r[i] \in T
    BY <1>12, <2>1
  <2>3. \A i, j \in 1..(k + 1) : i < j => r[i] < r[j]
    <3>1. SUFFICES ASSUME NEW i \in 1..(k + 1), NEW j \in 1..(k + 1), i < j
                   PROVE  r[i] < r[j]
      OBVIOUS
    <3>2. i \in 1..k
      BY <3>1
    <3>3. CASE j = k + 1
      BY <1>4, <2>1, <3>1, <3>2, <3>3
    <3>4. CASE j # k + 1
      <4>1. j \in 1..k
        BY <3>1, <3>4
      <4> QED
        BY <1>10, <3>1, <3>2, <3>4, <4>1 DEF Lists
    <3> QED
      BY <3>3, <3>4
  <2>4. \A a \in T : \E i \in 1..(k + 1) : r[i] = a
    <3>1. SUFFICES ASSUME NEW a \in T PROVE \E i \in 1..(k + 1) : r[i] = a
      OBVIOUS
    <3>2. CASE a = n
      BY <3>2
    <3>3. CASE a # n
      <4>1. PICK i \in 1..k : q[i] = a
        BY <1>10, <3>3 DEF Lists
      <4>2. i \in 1..(k + 1) /\ i # k + 1
        BY <4>1
      <4> QED
        BY <4>1, <4>2
    <3> QED
      BY <3>2, <3>3
  <2>5. Lists(k + 1, r, T)
    BY <2>2, <2>3, <2>4 DEF Lists
  <2>6. k + 1 \in Nat
    OBVIOUS
  <2> HIDE DEF r
  <2> QED
    BY <1>5, <2>5, <2>6
<1> QED
  BY <1>11, <1>12

LEMMA InOrderLists ==
  ASSUME NEW m \in Nat, NEW S \in SUBSET (1..m)
  PROVE  /\ InOrder(S) \in Seq(Nat)
         /\ \A i \in 1..Len(InOrder(S)) : InOrder(S)[i] \in S
         /\ \A i, j \in 1..Len(InOrder(S)) : i < j => InOrder(S)[i] < InOrder(S)[j]
         /\ \A n \in S : \E i \in 1..Len(InOrder(S)) : InOrder(S)[i] = n
<1>0. S \subseteq Nat
  OBVIOUS
<1>1. PICK k \in Nat : \E q : Lists(k, q, S)
  BY ListExists
<1>2. PICK q : Lists(k, q, S)
  BY <1>1
<1>3. Cardinality(S) = k
  <2>1. q \in [1..k -> S]
    BY <1>2 DEF Lists
  <2>2. \A i, j \in 1..k : q[i] = q[j] => i = j
    <3>1. SUFFICES ASSUME NEW i \in 1..k, NEW j \in 1..k, q[i] = q[j], i # j PROVE FALSE
      OBVIOUS
    <3>2. q[i] < q[j] \/ q[j] < q[i]
      BY <1>2, <3>1 DEF Lists
    <3>3. q[i] \in Nat /\ q[j] \in Nat
      BY <1>0, <2>1
    <3> QED
      BY <3>1, <3>2, <3>3
  <2>3. q \in Bijection(1..k, S)
    BY <1>2, <2>1, <2>2 DEF Lists, Bijection, Injection, Surjection, IsInjective
  <2> QED
    BY <2>3, FS_CountingElements DEF ExistsBijection
<1> DEFINE Good(p) == /\ \A i, j \in DOMAIN p : i < j => p[i] < p[j]
                      /\ \A n \in S : \E i \in DOMAIN p : p[i] = n
<1>4. q \in [1..Cardinality(S) -> S] /\ Good(q)
  BY <1>2, <1>3 DEF Lists
<1>5. InOrder(S) = CHOOSE p \in [1..Cardinality(S) -> S] : Good(p)
  BY DEF InOrder
<1> HIDE DEF Good
<1>6. InOrder(S) \in [1..Cardinality(S) -> S] /\ Good(InOrder(S))
  BY <1>4, <1>5
<1>7. InOrder(S) \in [1..k -> S] /\ InOrder(S) \in [1..k -> Nat]
  <2>1. \A f \in [1..k -> S] : f \in [1..k -> Nat]
    BY <1>0
  <2> QED
    BY <1>3, <1>6, <2>1
<1>8. InOrder(S) \in Seq(Nat) /\ Len(InOrder(S)) = k /\ DOMAIN InOrder(S) = 1..k
  BY <1>7
<1> USE DEF Good
<1> QED
  BY <1>6, <1>7, <1>8

-----------------------------------------------------------------------------
(***************************************************************************)
(* The log only grows, and its run changes with a restart only.            *)
(***************************************************************************)
Grows ==
  /\ Epoch <= Epoch' /\ (restarts' = 0 => restarts = 0 /\ Epoch' = Epoch)
  /\ \A e \in 1..Epoch : /\ Len(logs[e]) <= Len(logs'[e])
                         /\ \A n \in 1..Len(logs[e]) : logs'[e][n] = logs[e][n]

Sound ==
  /\ Epoch \in Nat /\ Epoch >= 1 /\ Epoch \in 1..Epoch
  /\ Log \in Seq(Topics) /\ Len(Log) \in Nat
  /\ \A e \in 1..Epoch : logs[e] \in Seq(Topics) /\ Len(logs[e]) \in Nat
  /\ restarts = 0 => Epoch = 1
  /\ client.cursor \in Nat /\ client.from \in Nat /\ client.upto \in Nat
  /\ Len(wire) \in Nat
  /\ \A k \in 1..Len(wire) :
       wire[k] \in Message /\ wire[k].seq \in Nat /\ wire[k].epoch \in Nat /\ wire[k].from \in Nat
  /\ Len(delivered) \in Nat
  /\ \A i \in 1..Len(delivered) :
       delivered[i] \in Given /\ delivered[i].seq \in Nat /\ delivered[i].epoch \in Nat
  /\ sub.queue \in Seq(Nat) /\ Len(sub.queue) \in Nat
  /\ \A i \in 1..Len(sub.queue) : sub.queue[i] \in Nat

LEMMA Facts == StreamType => Sound
<1> SUFFICES ASSUME StreamType PROVE Sound
  OBVIOUS
<1>1. Epoch \in Nat /\ Epoch = restarts + 1 /\ restarts \in Nat
  BY DEF StreamType, Epoch
<1>2. \A e \in 1..Epoch : logs[e] \in Seq(Topics) /\ Len(logs[e]) \in Nat
  BY DEF StreamType, Epoch
<1>3. client.cursor \in Nat /\ client.from \in Nat /\ client.upto \in Nat
  BY DEF StreamType, Client
<1>4. Len(wire) \in Nat /\ \A k \in 1..Len(wire) : wire[k] \in Message
  BY DEF StreamType
<1>5. \A m \in Message : m.seq \in Nat /\ m.epoch \in Nat /\ m.from \in Nat
  BY DEF Message
<1>6. Len(delivered) \in Nat /\ \A i \in 1..Len(delivered) : delivered[i] \in Given
  BY DEF StreamType
<1>7. \A d \in Given : d.seq \in Nat /\ d.epoch \in Nat
  BY DEF Given
<1>8. sub.queue \in Seq(Nat)
  BY DEF StreamType, Sub
<1>9. Len(sub.queue) \in Nat /\ \A i \in 1..Len(sub.queue) : sub.queue[i] \in Nat
  BY <1>8
<1>10. Log \in Seq(Topics) /\ Len(Log) \in Nat /\ Epoch >= 1 /\ Epoch \in 1..Epoch
  BY <1>1, <1>2 DEF Log
<1> QED
  BY <1>1, <1>2, <1>3, <1>4, <1>5, <1>6, <1>7, <1>8, <1>9, <1>10 DEF Sound

LEMMA FactsNext == StreamType' => Sound'
BY Facts, PTL

LEMMA SameLogs ==
  ASSUME StreamType, UNCHANGED <<logs, restarts>> PROVE Grows /\ Epoch' = Epoch /\ Log' = Log
<1>1. Epoch' = Epoch /\ Log' = Log
  BY DEF Epoch, Log
<1>2. Epoch \in Nat /\ \A e \in 1..Epoch : Len(logs[e]) \in Nat
  BY Facts DEF Sound
<1> QED
  BY <1>1, <1>2 DEF Grows

\* What is before the cursor stays as it is while no backend restarts.
LEMMA GrowsLog ==
  ASSUME StreamType, StreamType', Grows, restarts' = 0
  PROVE  /\ restarts = 0 /\ Epoch' = Epoch /\ Len(Log) <= Len(Log')
         /\ \A n \in 1..Len(Log) : Log'[n] = Log[n]
<1>1. restarts = 0 /\ Epoch' = Epoch /\ Epoch \in 1..Epoch
  BY Facts DEF Grows, Sound
<1> QED
  BY <1>1 DEF Grows, Log

LEMMA GapKeeps ==
  ASSUME StreamType, StreamType', Grows, client'.cursor = client.cursor, NEW f \in Nat, Gap(f)
  PROVE  Gap(f)'
<1>1. Len(Log) \in Nat /\ Len(Log') \in Nat
  BY Facts, FactsNext DEF Sound
<1> QED
  BY <1>1, GrowsLog DEF Gap

LEMMA OldWire ==
  ASSUME StreamType, StreamType', WireInv, Grows, client'.cursor = client.cursor,
         NEW k \in 1..Len(wire), IsEvent(k)
  PROVE  /\ wire[k].epoch \in 1..Epoch' /\ wire[k].seq \in 1..Len(logs'[wire[k].epoch])
         /\ wire[k].seq > client.cursor
         /\ \A n \in (client.cursor + 1)..(wire[k].seq - 1) :
              logs'[wire[k].epoch][n] = "mine" => \E j \in 1..(k - 1) : wire[j].seq = n
<1> DEFINE e == wire[k].epoch
           m == wire[k].seq
<1>1. /\ e \in 1..Epoch /\ m \in 1..Len(logs[e]) /\ m > client.cursor
      /\ \A n \in (client.cursor + 1)..(m - 1) :
           logs[e][n] = "mine" => \E j \in 1..(k - 1) : wire[j].seq = n
  BY DEF WireInv, InLine
<1>2. Epoch \in Nat /\ Epoch' \in Nat /\ Epoch <= Epoch'
  <2>1. Sound /\ Sound'
    BY Facts, FactsNext
  <2> QED
    BY <2>1 DEF Grows, Sound
<1>3. Len(logs[e]) \in Nat /\ Len(logs[e]) <= Len(logs'[e])
      /\ \A n \in 1..Len(logs[e]) : logs'[e][n] = logs[e][n]
  BY <1>1, Facts DEF Grows, Sound
<1>4. Len(logs'[e]) \in Nat
  <2>1. Sound'
    BY FactsNext
  <2>2. e \in 1..Epoch'
    BY <1>1, <1>2
  <2> QED
    BY <2>1, <2>2 DEF Sound
<1>5. client.cursor \in Nat
  BY Facts DEF Sound
<1> HIDE DEF e, m
<1>6. e \in 1..Epoch' /\ m \in 1..Len(logs'[e])
  BY <1>1, <1>2, <1>3, <1>4
<1>7. \A n \in (client.cursor + 1)..(m - 1) : n \in 1..Len(logs[e])
  BY <1>1, <1>3, <1>5
<1> USE DEF e, m
<1> QED
  BY <1>1, <1>3, <1>6, <1>7

LEMMA WireKeeps ==
  ASSUME StreamType, StreamType', WireInv, Grows, wire' = wire, client'.cursor = client.cursor
  PROVE  WireInv'
<1>1. ASSUME NEW k \in 1..Len(wire), IsEvent(k)
      PROVE  /\ wire[k].epoch \in 1..Epoch' /\ wire[k].seq \in 1..Len(logs'[wire[k].epoch])
             /\ wire[k].seq > client.cursor
             /\ \A n \in (client.cursor + 1)..(wire[k].seq - 1) :
                  logs'[wire[k].epoch][n] = "mine" => \E j \in 1..(k - 1) : wire[j].seq = n
  BY <1>1, OldWire
<1>2. ASSUME NEW k \in 1..Len(wire), wire[k].kind = "gap" PROVE Len(wire) = 1 /\ Gap(wire[k].from)'
  <2>1. Len(wire) = 1 /\ Gap(wire[k].from)
    BY <1>2 DEF WireInv
  <2>2. wire[k].from \in Nat
    BY Facts DEF Sound
  <2>3. PICK f \in Nat : f = wire[k].from
    BY <2>2
  <2>4. Gap(f)'
    BY <2>1, <2>3, GapKeeps
  <2> QED
    BY <2>1, <2>3, <2>4 DEF Gap
<1>3. \A j, k \in 1..Len(wire) : IsEvent(j) /\ IsEvent(k) /\ j < k => wire[j].seq < wire[k].seq
  BY DEF WireInv
<1>4. \A k : IsEvent(k)' <=> IsEvent(k)
  BY DEF IsEvent
<1> QED
  BY <1>1, <1>2, <1>3, <1>4 DEF WireInv, InLine, Gap

LEMMA GivenKeeps ==
  ASSUME StreamType, StreamType', GivenInv, Grows, delivered' = delivered,
         client'.cursor = client.cursor
  PROVE  GivenInv'
<1>1. DeliveredOnce'
  BY DEF GivenInv, DeliveredOnce
<1>2. ASSUME NEW i \in 1..Len(delivered), delivered[i].kind = "event"
      PROVE  /\ delivered[i].seq <= client.cursor
             /\ delivered[i].epoch \in 1..Epoch'
             /\ delivered[i].seq \in 1..Len(logs'[delivered[i].epoch])
             /\ \A n \in 1..delivered[i].seq :
                  logs'[delivered[i].epoch][n] = logs[delivered[i].epoch][n]
  <2> DEFINE e == delivered[i].epoch
             m == delivered[i].seq
  <2>1. e \in 1..Epoch /\ m \in 1..Len(logs[e]) /\ m <= client.cursor
    BY <1>2 DEF GivenInv
  <2>2. Epoch \in Nat /\ Epoch' \in Nat /\ Epoch <= Epoch'
    <3>1. Sound /\ Sound'
      BY Facts, FactsNext
    <3> QED
      BY <3>1 DEF Grows, Sound
  <2>3. Len(logs[e]) \in Nat /\ Len(logs[e]) <= Len(logs'[e])
        /\ \A n \in 1..Len(logs[e]) : logs'[e][n] = logs[e][n]
    BY <2>1, Facts DEF Grows, Sound
  <2>4. Len(logs'[e]) \in Nat
    <3>1. Sound'
      BY FactsNext
    <3>2. e \in 1..Epoch'
      BY <2>1, <2>2
    <3> QED
      BY <3>1, <3>2 DEF Sound
  <2> HIDE DEF e, m
  <2>5. e \in 1..Epoch' /\ m \in 1..Len(logs'[e]) /\ \A n \in 1..m : logs'[e][n] = logs[e][n]
    BY <2>1, <2>2, <2>3, <2>4
  <2> USE DEF e, m
  <2> QED
    BY <2>1, <2>5
<1>3. ASSUME restarts' = 0
      PROVE  /\ NothingMissed'
             /\ client.cursor <= Len(Log')
             /\ \A n \in 1..client.cursor : Log'[n] = "mine" =>
                  \E j \in 1..Len(delivered) : Covers(delivered[j], Epoch', n)
  <2>1. restarts = 0 /\ Epoch' = Epoch /\ Len(Log) <= Len(Log')
        /\ \A n \in 1..Len(Log) : Log'[n] = Log[n]
    BY <1>3, GrowsLog
  <2>2. NothingMissed /\ client.cursor <= Len(Log)
        /\ \A n \in 1..client.cursor : Log[n] = "mine" =>
             \E j \in 1..Len(delivered) : Covers(delivered[j], Epoch, n)
    BY <2>1 DEF GivenInv
  <2>3. client.cursor \in Nat /\ Len(Log) \in Nat /\ Len(Log') \in Nat
    <3>1. Sound /\ Sound'
      BY Facts, FactsNext
    <3> QED
      BY <3>1 DEF Sound
  <2>4. NothingMissed'
    <3>1. SUFFICES ASSUME NEW i \in 1..Len(delivered), delivered[i].kind = "event",
                          NEW n \in 1..(delivered[i].seq - 1),
                          logs'[delivered[i].epoch][n] = "mine"
                   PROVE  \E j \in 1..(i - 1) : Covers(delivered[j], delivered[i].epoch, n)
      BY DEF NothingMissed, Covers
    <3>2. delivered[i].seq \in Nat
      BY Facts DEF Sound
    <3>3. n \in 1..delivered[i].seq
      BY <3>2
    <3>4. logs[delivered[i].epoch][n] = "mine"
      BY <1>2, <3>1, <3>3
    <3> QED
      BY <2>2, <3>1, <3>4 DEF NothingMissed
  <2>5. \A n \in 1..client.cursor : n \in 1..Len(Log)
    BY <2>2, <2>3
  <2> QED
    BY <2>1, <2>2, <2>3, <2>4, <2>5
<1> QED
  BY <1>1, <1>2, <1>3 DEF GivenInv, Covers

LEMMA NoSubType == NoSub \in Sub /\ NoSub.state = "none" /\ NoSub.parked = FALSE /\ NoSub.queue = <<>>
<1>1. <<>> \in Seq(Nat)
  OBVIOUS
<1> QED
  BY <1>1 DEF NoSub, Sub

\* A subscription that ended, or none that was begun.
LEMMA EmptyKeeps ==
  ASSUME StreamAssumption, StreamType', ClientInv', GivenInv', asked' = <<>>, sub' = NoSub,
         wire' = <<>>
  PROVE  IInv'
<1>1. Len(wire') = 0 /\ WireRoom \in Nat /\ NoSub' = NoSub
  BY DEF StreamAssumption, NoSub
<1>2. 1..0 = {}
  OBVIOUS
<1>3. sub'.state = "none" /\ sub'.parked = FALSE
  BY NoSubType
<1>4. RoomInv'
  BY <1>1, <1>3 DEF RoomInv
<1>5. AskInv'
  BY <1>1 DEF AskInv
<1>6. WireInv'
  BY <1>1, <1>2 DEF WireInv
<1>7. FlightInv'
  BY <1>3 DEF FlightInv
<1> QED
  BY <1>4, <1>5, <1>6, <1>7 DEF IInv

LEMMA AppendedWire ==
  ASSUME wire \in Seq(Message), NEW m \in Message, wire' = Append(wire, m)
  PROVE  /\ wire' \in Seq(Message) /\ Len(wire') = Len(wire) + 1 /\ Len(wire) \in Nat
         /\ wire'[Len(wire) + 1] = m /\ Len(wire) + 1 \in 1..Len(wire')
         /\ \A k \in 1..Len(wire) : k \in 1..Len(wire') /\ wire'[k] = wire[k]
         /\ \A k \in 1..Len(wire') : k \in 1..Len(wire) \/ k = Len(wire) + 1
BY AppendProperties

\* The subscriber sends the next event of its topic.
LEMMA SentKeepsWire ==
  ASSUME IInv, StreamType', Grows, Epoch' = Epoch, client'.cursor = client.cursor,
         sub.state = "live", NEW n \in Nat, wire' = Append(wire, Event(n)),
         n > client.cursor, n <= Len(Log'), \A k \in 1..Len(wire) : wire[k].seq < n,
         \A x \in (client.cursor + 1)..(n - 1) :
           Log'[x] = "mine" => \E k \in 1..Len(wire) : wire[k].seq = x
  PROVE  WireInv'
<1>1. Sound /\ Sound' /\ StreamType /\ WireInv /\ FlightInv
  BY Facts, FactsNext DEF IInv
<1>2. PICK m, last : m = Event(n) /\ last = Len(wire) + 1
  OBVIOUS
<1>3. m \in Message /\ m.kind = "event" /\ m.seq = n /\ m.epoch = Epoch
  BY <1>1, <1>2 DEF Event, Message, Sound
<1>4. /\ Len(wire') = last /\ wire'[last] = m /\ Len(wire) \in Nat
      /\ \A k \in 1..Len(wire) : k \in 1..Len(wire') /\ wire'[k] = wire[k]
      /\ \A k \in 1..Len(wire') : k \in 1..Len(wire) \/ k = last
  BY <1>1, <1>2, <1>3, AppendedWire DEF StreamType
<1>5. \A k \in 1..Len(wire) : IsEvent(k)
  BY <1>1 DEF FlightInv
<1>6. ASSUME NEW k \in 1..Len(wire) PROVE InLine(k)'
  <2>1. /\ wire[k].epoch \in 1..Epoch' /\ wire[k].seq \in 1..Len(logs'[wire[k].epoch])
        /\ wire[k].seq > client.cursor
        /\ \A x \in (client.cursor + 1)..(wire[k].seq - 1) :
             logs'[wire[k].epoch][x] = "mine" => \E j \in 1..(k - 1) : wire[j].seq = x
    BY <1>1, <1>5, OldWire
  <2>2. wire'[k] = wire[k] /\ \A j \in 1..(k - 1) : wire'[j] = wire[j]
    BY <1>4
  <2>3. \A x \in (client'.cursor + 1)..(wire'[k].seq - 1) :
          logs'[wire'[k].epoch][x] = "mine" => \E j \in 1..(k - 1) : wire'[j].seq = x
    <3>1. SUFFICES ASSUME NEW x \in (client.cursor + 1)..(wire[k].seq - 1),
                          logs'[wire[k].epoch][x] = "mine"
                   PROVE  \E j \in 1..(k - 1) : wire'[j].seq = x
      BY <2>2
    <3>2. PICK j \in 1..(k - 1) : wire[j].seq = x
      BY <2>1, <3>1
    <3> QED
      BY <2>2, <3>2
  <2> QED
    BY <2>1, <2>2, <2>3 DEF InLine
<1>7. InLine(last)'
  <2>1. Epoch \in 1..Epoch' /\ n \in 1..Len(Log') /\ Log' = logs'[Epoch]
    <3>1. Log' = logs'[Epoch']
      BY DEF Log
    <3> QED
      BY <1>1, <3>1 DEF Sound
  <2>2. \A k \in 1..Len(wire) : k \in 1..(last - 1) /\ wire'[k].seq = wire[k].seq
    BY <1>2, <1>4
  <2>3. \A x \in (client.cursor + 1)..(n - 1) :
          Log'[x] = "mine" => \E j \in 1..(last - 1) : wire'[j].seq = x
    BY <2>2
  <2>4. wire'[last].epoch = Epoch /\ wire'[last].seq = n
    BY <1>3, <1>4
  <2> QED
    BY <2>1, <2>3, <2>4 DEF InLine
<1>8. ASSUME NEW j \in 1..Len(wire'), NEW k \in 1..Len(wire'), j < k
      PROVE  wire'[j].seq < wire'[k].seq
  <2>1. j \in 1..Len(wire) /\ wire'[j] = wire[j]
    BY <1>2, <1>4, <1>8
  <2>2. CASE k = last
    BY <1>3, <1>4, <2>1, <2>2
  <2>3. CASE k \in 1..Len(wire)
    BY <1>1, <1>4, <1>5, <1>8, <2>1, <2>3 DEF WireInv
  <2> QED
    BY <1>4, <2>2, <2>3
<1>9. \A k \in 1..Len(wire') : wire'[k].kind = "event"
  BY <1>3, <1>4, <1>5 DEF IsEvent
<1>10. ASSUME NEW k \in 1..Len(wire') PROVE InLine(k)'
  <2>1. CASE k = last
    BY <1>7, <2>1
  <2>2. CASE k \in 1..Len(wire)
    BY <1>6, <2>2
  <2> QED
    BY <1>4, <2>1, <2>2
<1> QED
  BY <1>8, <1>9, <1>10 DEF WireInv

-----------------------------------------------------------------------------
(***************************************************************************)
(* The bus publishes.                                                      *)
(***************************************************************************)
LEMMA PublishLog ==
  ASSUME IInv, NEW topic \in Topics, Publish(topic)
  PROVE  /\ Grows /\ Epoch' = Epoch /\ Len(Log') = Len(Log) + 1 /\ Log'[Len(Log) + 1] = topic
         /\ \A n \in 1..Len(Log) : Log'[n] = Log[n]
         /\ logs' \in Seq(Seq(Topics)) /\ Len(logs') = Len(logs)
<1>1. StreamType /\ Sound
  BY Facts DEF IInv
<1>2. logs' = [logs EXCEPT ![Epoch] = Append(Log, topic)] /\ restarts' = restarts
  BY DEF Publish, Log, bounds
<1>3. /\ Append(Log, topic) \in Seq(Topics) /\ Len(Append(Log, topic)) = Len(Log) + 1
      /\ \A n \in 1..Len(Log) : Append(Log, topic)[n] = Log[n]
      /\ Append(Log, topic)[Len(Log) + 1] = topic
  BY <1>1, AppendProperties DEF Sound
<1>4. logs \in Seq(Seq(Topics)) /\ Epoch \in 1..Len(logs) /\ Len(logs) \in Nat
  BY <1>1 DEF StreamType, Sound, Epoch
<1> DEFINE more == Append(Log, topic)
<1> HIDE DEF more
<1>5. /\ logs' \in Seq(Seq(Topics)) /\ Len(logs') = Len(logs) /\ logs'[Epoch] = more
      /\ \A e \in 1..Len(logs) : e # Epoch => logs'[e] = logs[e]
  <2>1. more \in Seq(Topics) /\ logs' = [logs EXCEPT ![Epoch] = more]
    BY <1>2, <1>3 DEF more
  <2> QED
    BY <1>4, <2>1
<1>6. Epoch' = Epoch /\ Log' = more /\ Epoch = Len(logs)
  <2>1. Epoch' = Len(logs') /\ Epoch = Len(logs) /\ Log' = logs'[Epoch']
    BY DEF Epoch, Log
  <2> QED
    BY <1>5, <2>1
<1>7. \A e \in 1..Epoch : Len(logs[e]) \in Nat
  BY <1>1 DEF Sound
<1>8. Grows
  <2>1. ASSUME NEW e \in 1..Epoch
        PROVE  Len(logs[e]) <= Len(logs'[e]) /\ \A n \in 1..Len(logs[e]) : logs'[e][n] = logs[e][n]
    <3>1. CASE e = Epoch
      <4>1. logs[e] = Log /\ logs'[e] = more /\ Len(Log) \in Nat
        BY <1>1, <1>5, <3>1 DEF Log, Sound
      <4> QED
        BY <1>3, <4>1 DEF more
    <3>2. CASE e # Epoch
      BY <1>5, <1>6, <1>7, <3>2
    <3> QED
      BY <3>1, <3>2
  <2> QED
    BY <1>1, <1>2, <1>6, <2>1 DEF Grows, Sound
<1> QED
  BY <1>3, <1>5, <1>6, <1>8 DEF more

LEMMA ClientKeeps ==
  ASSUME StreamType, StreamType', ClientInv, Grows, client' = client PROVE ClientInv'
<1>1. client.from \in Nat
  BY Facts DEF Sound
<1>2. client.pc \in {"failed", "recovering", "recovered"} /\ client.why = "gap" => Gap(client.from)'
  <2>1. SUFFICES ASSUME client.pc \in {"failed", "recovering", "recovered"}, client.why = "gap"
                 PROVE  Gap(client.from)'
    OBVIOUS
  <2>2. PICK f \in Nat : f = client.from
    BY <1>1
  <2>3. Gap(f)
    BY <2>1, <2>2 DEF ClientInv
  <2>4. Gap(f)'
    BY <2>3, GapKeeps
  <2> QED
    BY <2>2, <2>4 DEF Gap
<1>3. restarts' = 0 => restarts = 0
  BY DEF Grows
<1> QED
  BY <1>2, <1>3 DEF ClientInv, Gap

\* Everything of the bus that an event to come finds in order.
LEMMA OnWire ==
  ASSUME IInv, sub.state # "none", NEW k \in 1..Len(wire)
  PROVE  wire[k].seq \in 1..Len(Log) /\ wire[k].kind = "event" /\ wire[k].epoch = Epoch
<1>1. IsEvent(k) /\ wire[k].epoch = Epoch
  BY DEF IInv, FlightInv
<1>2. InLine(k)
  BY <1>1 DEF IInv, WireInv
<1> QED
  BY <1>1, <1>2 DEF InLine, IsEvent, Log

LEMMA PublishType ==
  ASSUME StreamAssumption, IInv, NEW topic \in Topics, Publish(topic) PROVE StreamType'
<1>1. StreamType /\ Sound
  BY Facts DEF IInv
<1>2. logs' \in Seq(Seq(Topics)) /\ Len(logs') = Len(logs) /\ restarts' = restarts
  BY PublishLog DEF Publish, bounds
<1>3. sub' \in Sub /\ wire' \in Seq(Message)
  <2>1. CASE topic = "mine" /\ sub.state = "live"
    <3>1. Push(Len(Log) + 1)
      BY <2>1 DEF Publish
    <3>2. PICK n \in Nat : n = Len(Log) + 1
      BY <1>1 DEF Sound
    <3>3. Event(n) \in Message
      BY <1>1 DEF Event, Message, Sound
    <3>4. Append(sub.queue, n) \in Seq(Nat)
      BY <1>1 DEF Sound
    <3>5. CASE sub.parked
      <4>1. wire' = Append(wire, Event(n)) /\ sub' = [sub EXCEPT !.parked = FALSE]
        BY <3>1, <3>2, <3>5 DEF Push
      <4>2. wire' \in Seq(Message)
        BY <1>1, <3>3, <4>1 DEF StreamType
      <4>3. sub' \in Sub
        BY <1>1, <4>1 DEF StreamType, Sub
      <4> QED
        BY <4>2, <4>3
    <3>6. CASE ~sub.parked
      <4>1. wire' = wire /\ (\/ sub' = [NoSub EXCEPT !.state = "failed", !.why = "overflow"]
                             \/ sub' = [sub EXCEPT !.queue = Append(@, n)])
        BY <3>1, <3>2, <3>6 DEF Push
      <4>2. [NoSub EXCEPT !.state = "failed", !.why = "overflow"] \in Sub
        BY NoSubType DEF Sub, NoSub
      <4>3. [sub EXCEPT !.queue = Append(@, n)] \in Sub
        BY <1>1, <3>4 DEF StreamType, Sub
      <4> QED
        BY <1>1, <4>1, <4>2, <4>3 DEF StreamType
    <3> QED
      BY <3>5, <3>6
  <2>2. CASE ~(topic = "mine" /\ sub.state = "live")
    BY <1>1, <2>2 DEF Publish, StreamType
  <2> QED
    BY <2>1, <2>2
<1> QED
  BY <1>1, <1>2, <1>3 DEF StreamType, Publish, bounds

LEMMA PublishKeeps ==
  ASSUME StreamAssumption, IInv, NEW topic \in Topics, Publish(topic) PROVE IInv'
<1> DEFINE N == Len(Log) + 1
<1>1. /\ StreamType /\ Sound /\ RoomInv /\ AskInv /\ WireInv /\ FlightInv /\ ClientInv /\ GivenInv
      /\ StreamType' /\ Sound'
  <2>1. StreamType'
    BY PublishType
  <2> QED
    BY <2>1, Facts, FactsNext DEF IInv
<1>2. /\ Grows /\ Epoch' = Epoch /\ Len(Log') = N /\ Log'[N] = topic
      /\ \A n \in 1..Len(Log) : Log'[n] = Log[n]
  BY PublishLog
<1>3. client' = client /\ asked' = asked /\ link' = link /\ delivered' = delivered
      /\ N \in Nat /\ Len(Log) \in Nat /\ client.cursor \in Nat /\ Capacity \in Nat /\ WireRoom \in Nat
  BY <1>1 DEF Publish, Sound, StreamAssumption
<1>4. ClientInv' /\ GivenInv'
  BY <1>1, <1>2, <1>3, ClientKeeps, GivenKeeps
<1>5. CASE ~(topic = "mine" /\ sub.state = "live")
  <2>1. sub' = sub /\ wire' = wire
    BY <1>5 DEF Publish
  <2>2. WireInv'
    BY <1>1, <1>2, <1>3, <2>1, WireKeeps
  <2>3. FlightInv'
    <3>1. CASE sub.state = "live"
      <4>1. topic # "mine"
        BY <1>5, <3>1
      <4>2. \A i \in 1..Len(sub.queue) : sub.queue[i] \in (client.cursor + 1)..N
        BY <1>1, <1>3, <3>1 DEF FlightInv
      <4>3. \A n \in (client.cursor + 1)..N : Log'[n] = "mine" =>
              \/ \E k \in 1..Len(wire) : wire[k].seq = n
              \/ \E i \in 1..Len(sub.queue) : sub.queue[i] = n
        <5>1. SUFFICES ASSUME NEW n \in (client.cursor + 1)..N, Log'[n] = "mine"
                       PROVE  \/ \E k \in 1..Len(wire) : wire[k].seq = n
                              \/ \E i \in 1..Len(sub.queue) : sub.queue[i] = n
          OBVIOUS
        <5>2. n # N
          BY <1>2, <4>1, <5>1
        <5>3. n \in (client.cursor + 1)..Len(Log) /\ n \in 1..Len(Log)
          BY <1>3, <5>1, <5>2
        <5>4. Log[n] = "mine"
          BY <1>2, <5>1, <5>3
        <5> QED
          BY <1>1, <3>1, <5>3, <5>4 DEF FlightInv
      <4>4. client.cursor <= N
        BY <1>1, <1>3, <3>1 DEF FlightInv
      <4> QED
        BY <1>1, <1>2, <1>3, <2>1, <3>1, <4>2, <4>3, <4>4 DEF FlightInv, IsEvent
    <3>2. CASE sub.state # "live"
      <4>1. sub.state = "failed" /\ sub.why = "gap" => Gap(sub.from)'
        <5>1. SUFFICES ASSUME sub.state = "failed", sub.why = "gap" PROVE Gap(sub.from)'
          OBVIOUS
        <5>2. PICK f \in Nat : f = sub.from
          BY <1>1 DEF StreamType, Sub
        <5>3. Gap(f)
          BY <1>1, <5>1, <5>2 DEF FlightInv
        <5>4. Gap(f)'
          BY <1>1, <1>2, <1>3, <5>3, GapKeeps
        <5> QED
          BY <2>1, <5>2, <5>4 DEF Gap
      <4> QED
        BY <1>1, <1>2, <2>1, <3>2, <4>1 DEF FlightInv, IsEvent, Gap
    <3> QED
      BY <3>1, <3>2
  <2>4. RoomInv' /\ AskInv'
    BY <1>1, <1>3, <2>1 DEF RoomInv, AskInv, NoSub
  <2> QED
    BY <1>1, <1>4, <2>2, <2>3, <2>4 DEF IInv
<1>6. CASE topic = "mine" /\ sub.state = "live"
  <2>1. Push(N)
    BY <1>6 DEF Publish
  <2>2. \A k \in 1..Len(wire) : wire[k].seq \in 1..Len(Log) /\ wire[k].kind = "event" /\ wire[k].epoch = Epoch
    BY <1>6, OnWire
  <2>3. client.cursor <= Len(Log)
    BY <1>1, <1>6 DEF FlightInv
  <2>4. asked = <<>> /\ client.pc = "next" /\ link
    <3>1. sub # NoSub
      BY <1>6, NoSubType
    <3> QED
      BY <1>1, <3>1 DEF AskInv
  <2>5. ASSUME NEW n \in (client.cursor + 1)..N, Log'[n] = "mine", n # N
        PROVE  \/ \E k \in 1..Len(wire) : wire[k].seq = n
               \/ \E i \in 1..Len(sub.queue) : sub.queue[i] = n
    <3>1. n \in (client.cursor + 1)..Len(Log) /\ n \in 1..Len(Log)
      BY <1>3, <2>5
    <3>2. Log[n] = "mine"
      BY <1>2, <2>5, <3>1
    <3> QED
      BY <1>1, <1>6, <3>1, <3>2 DEF FlightInv
  <2>6. CASE sub.parked
    <3>1. wire' = Append(wire, Event(N)) /\ sub' = [sub EXCEPT !.parked = FALSE]
          /\ sub.queue = <<>> /\ Len(wire) < WireRoom
      BY <1>1, <2>1, <2>6 DEF Push, RoomInv
    <3>2. WireInv'
      <4>1. \A k \in 1..Len(wire) : wire[k].seq < N
        BY <1>3, <2>2
      <4>2. \A x \in (client.cursor + 1)..(N - 1) :
              Log'[x] = "mine" => \E k \in 1..Len(wire) : wire[k].seq = x
        <5>1. SUFFICES ASSUME NEW x \in (client.cursor + 1)..(N - 1), Log'[x] = "mine"
                       PROVE  \E k \in 1..Len(wire) : wire[k].seq = x
          OBVIOUS
        <5>2. x \in (client.cursor + 1)..N /\ x # N
          BY <1>3, <5>1
        <5>3. Len(sub.queue) = 0
          BY <3>1
        <5> QED
          BY <2>5, <5>1, <5>2, <5>3
      <4>3. N > client.cursor /\ N <= Len(Log')
        BY <1>2, <1>3, <2>3
      <4> QED
        BY <1>1, <1>2, <1>3, <1>6, <3>1, <4>1, <4>2, <4>3, SentKeepsWire
    <3>3. PICK m : m = Event(N)
      OBVIOUS
    <3>4. m \in Message /\ m.kind = "event" /\ m.seq = N /\ m.epoch = Epoch
      BY <1>1, <1>3, <3>3 DEF Event, Message, Sound
    <3>5. /\ Len(wire') = Len(wire) + 1 /\ wire'[Len(wire) + 1] = m /\ Len(wire) \in Nat
          /\ Len(wire) + 1 \in 1..Len(wire')
          /\ \A k \in 1..Len(wire) : k \in 1..Len(wire') /\ wire'[k] = wire[k]
          /\ \A k \in 1..Len(wire') : k \in 1..Len(wire) \/ k = Len(wire) + 1
      BY <1>1, <3>1, <3>3, <3>4, AppendedWire DEF StreamType
    <3>6. sub'.state = "live" /\ sub'.queue = <<>> /\ ~sub'.parked /\ Len(sub'.queue) = 0
      BY <1>1, <1>6, <3>1 DEF StreamType, Sub
    <3>7. FlightInv'
      <4>1. \A k \in 1..Len(wire') : wire'[k].kind = "event" /\ wire'[k].epoch = Epoch'
        BY <1>2, <2>2, <3>4, <3>5
      <4>2. ASSUME NEW n \in (client'.cursor + 1)..Len(Log'), Log'[n] = "mine"
            PROVE  \E k \in 1..Len(wire') : wire'[k].seq = n
        <5>1. CASE n = N
          BY <3>4, <3>5, <5>1
        <5>2. CASE n # N
          <6>1. Len(sub.queue) = 0 /\ n \in (client.cursor + 1)..N
            BY <1>2, <1>3, <3>1, <4>2
          <6>2. PICK k \in 1..Len(wire) : wire[k].seq = n
            BY <2>5, <4>2, <5>2, <6>1
          <6> QED
            BY <3>5, <6>2
        <5> QED
          BY <5>1, <5>2
      <4>3. client'.cursor <= Len(Log')
        BY <1>2, <1>3, <2>3
      <4> QED
        BY <3>6, <4>1, <4>2, <4>3 DEF FlightInv, IsEvent
    <3>8. RoomInv' /\ AskInv'
      <4>1. Len(wire') <= WireRoom
        BY <1>3, <3>1, <3>5
      <4> QED
        BY <1>3, <2>4, <3>6, <4>1 DEF RoomInv, AskInv
    <3> QED
      BY <1>1, <1>4, <3>2, <3>7, <3>8 DEF IInv
  <2>7. CASE ~sub.parked
    <3>1. wire' = wire
      BY <2>1, <2>7 DEF Push
    <3>2. WireInv'
      BY <1>1, <1>2, <1>3, <3>1, WireKeeps
    <3>3. \A k \in 1..Len(wire') : wire'[k].kind = "event" /\ wire'[k].epoch = Epoch'
      BY <1>2, <2>2, <3>1
    <3>4. CASE Len(sub.queue) >= Capacity
      <4>1. sub' = [NoSub EXCEPT !.state = "failed", !.why = "overflow"]
        BY <2>1, <2>7, <3>4 DEF Push
      <4>2. sub'.state = "failed" /\ sub'.why = "overflow" /\ sub'.parked = FALSE
        BY <4>1 DEF NoSub
      <4>3. FlightInv'
        BY <3>3, <4>2 DEF FlightInv, IsEvent
      <4>4. RoomInv' /\ AskInv'
        BY <1>1, <1>3, <2>4, <3>1, <4>2 DEF RoomInv, AskInv
      <4> QED
        BY <1>1, <1>4, <3>2, <4>3, <4>4 DEF IInv
    <3>5. CASE ~(Len(sub.queue) >= Capacity)
      <4>1. sub' = [sub EXCEPT !.queue = Append(@, N)]
        BY <2>1, <2>7, <3>5 DEF Push
      <4>2. PICK q : q = sub.queue
        OBVIOUS
      <4>3. sub'.state = "live" /\ sub'.parked = FALSE /\ sub'.queue = Append(q, N)
        BY <1>1, <1>6, <2>7, <4>1, <4>2 DEF StreamType, Sub
      <4>4. q \in Seq(Nat) /\ Len(q) \in Nat
        BY <1>1, <4>2 DEF Sound
      <4>5. PICK r : r = Append(q, N)
        OBVIOUS
      <4>6. /\ Len(r) = Len(q) + 1 /\ r[Len(q) + 1] = N
            /\ \A i \in 1..Len(q) : r[i] = q[i] /\ i \in 1..Len(r)
            /\ \A i \in 1..Len(r) : i \in 1..Len(q) \/ i = Len(q) + 1
            /\ Len(q) + 1 \in 1..Len(r)
        BY <1>3, <4>4, <4>5, AppendProperties
      <4>7. \A i \in 1..Len(q) :
              q[i] \in (client.cursor + 1)..Len(Log) /\ \A k \in 1..Len(wire) : wire[k].seq < q[i]
        BY <1>1, <1>6, <4>2 DEF FlightInv
      <4>8. \A i, j \in 1..Len(q) : i < j => q[i] < q[j]
        BY <1>1, <1>6, <4>2 DEF FlightInv
      <4>9. ASSUME NEW i \in 1..Len(r)
            PROVE  r[i] \in (client.cursor + 1)..N /\ \A k \in 1..Len(wire) : wire[k].seq < r[i]
        <5>1. CASE i \in 1..Len(q)
          BY <1>3, <4>6, <4>7, <5>1
        <5>2. CASE i = Len(q) + 1
          BY <1>3, <2>2, <2>3, <4>6, <5>2
        <5> QED
          BY <4>6, <5>1, <5>2
      <4>10. ASSUME NEW i \in 1..Len(r), NEW j \in 1..Len(r), i < j PROVE r[i] < r[j]
        <5>1. i \in 1..Len(q) /\ q[i] \in (client.cursor + 1)..Len(Log) /\ r[i] = q[i]
          <6>1. i \in 1..Len(q)
            BY <4>4, <4>6, <4>10
          <6> QED
            BY <4>6, <4>7, <6>1
        <5>2. CASE j \in 1..Len(q)
          BY <4>6, <4>8, <4>10, <5>1, <5>2
        <5>3. CASE j = Len(q) + 1
          BY <1>3, <4>6, <5>1, <5>3
        <5> QED
          BY <4>6, <5>2, <5>3
      <4>11. ASSUME NEW n \in (client.cursor + 1)..N, Log'[n] = "mine"
             PROVE  \/ \E k \in 1..Len(wire) : wire[k].seq = n
                    \/ \E i \in 1..Len(r) : r[i] = n
        <5>1. CASE n = N
          BY <4>6, <5>1
        <5>2. CASE n # N
          BY <2>5, <4>2, <4>6, <4>11, <5>2
        <5> QED
          BY <5>1, <5>2
      <4>12. client.cursor <= N
        BY <1>3, <2>3
      <4>13. sub'.queue = r
        BY <4>3, <4>5
      <4>14. FlightInv'
        <5> HIDE DEF N
        <5> QED
          BY <1>2, <1>3, <3>1, <3>3, <4>3, <4>9, <4>10, <4>11, <4>12, <4>13 DEF FlightInv, IsEvent
      <4>15. RoomInv' /\ AskInv'
        BY <1>1, <1>3, <2>4, <3>1, <4>3 DEF RoomInv, AskInv
      <4> QED
        BY <1>1, <1>4, <3>2, <4>14, <4>15 DEF IInv
    <3> QED
      BY <3>4, <3>5
  <2> QED
    BY <2>6, <2>7
<1> QED
  BY <1>5, <1>6

-----------------------------------------------------------------------------
(***************************************************************************)
(* The bus serves its subscriber.                                          *)
(***************************************************************************)
LEMMA EarliestInLog ==
  ASSUME StreamAssumption, Len(Log) \in Nat
  PROVE  Earliest \in Nat /\ Earliest >= 1 /\ Earliest <= Len(Log) + 1
BY DEF Earliest, StreamAssumption

SubscribedWith(after) ==
  IF after > Len(Log)
    THEN [NoSub EXCEPT !.state = "failed", !.why = "ahead"]
  ELSE IF after < Earliest - 1
    THEN [NoSub EXCEPT !.state = "failed", !.why = "gap", !.from = Earliest]
  ELSE [NoSub EXCEPT !.state = "live",
          !.queue = InOrder({n \in (after + 1)..Len(Log) : Log[n] = "mine"})]

LEMMA SubscribeKeeps ==
  ASSUME StreamAssumption, IInv, Subscribe PROVE IInv'
<1>1. StreamType /\ Sound /\ RoomInv /\ AskInv /\ WireInv /\ FlightInv /\ ClientInv /\ GivenInv
  BY Facts DEF IInv
<1>2. /\ logs' = logs /\ restarts' = restarts /\ client' = client /\ asked' = <<>> /\ link' = link
      /\ wire' = wire /\ delivered' = delivered /\ asked # <<>> /\ link
      /\ UNCHANGED <<conn, breaks, faults>>
  BY DEF Subscribe, bounds
<1>3. asked[1] = client.cursor /\ wire = <<>> /\ Len(wire) = 0 /\ client.pc = "next"
  BY <1>1, <1>2 DEF AskInv
<1>4. sub' = SubscribedWith(client.cursor)
  BY <1>3 DEF Subscribe, SubscribedWith
<1>5. Len(Log) \in Nat /\ client.cursor \in Nat /\ WireRoom \in Nat \ {0}
  BY <1>1 DEF Sound, StreamAssumption
<1>6. Earliest \in Nat /\ Earliest >= 1 /\ Earliest <= Len(Log) + 1
  BY <1>5, EarliestInLog
<1>7. Epoch' = Epoch /\ Log' = Log /\ Grows
  BY <1>1, <1>2, SameLogs
<1> DEFINE S == {n \in (client.cursor + 1)..Len(Log) : Log[n] = "mine"}
<1>8. /\ InOrder(S) \in Seq(Nat)
      /\ \A i \in 1..Len(InOrder(S)) : InOrder(S)[i] \in S
      /\ \A i, j \in 1..Len(InOrder(S)) : i < j => InOrder(S)[i] < InOrder(S)[j]
      /\ \A n \in S : \E i \in 1..Len(InOrder(S)) : InOrder(S)[i] = n
  <2>1. S \in SUBSET (1..Len(Log))
    BY <1>5
  <2> HIDE DEF S
  <2> QED
    BY <1>5, <2>1, InOrderLists
<1>9. asked' \in Seq(Nat) /\ Len(asked') <= 1
  BY <1>2
<1>10. \/ sub' = [NoSub EXCEPT !.state = "failed", !.why = "ahead"]
       \/ /\ sub' = [NoSub EXCEPT !.state = "failed", !.why = "gap", !.from = Earliest]
          /\ client.cursor < Earliest - 1
       \/ /\ sub' = [NoSub EXCEPT !.state = "live", !.queue = InOrder(S)]
          /\ client.cursor <= Len(Log)
  BY <1>4, <1>5 DEF SubscribedWith
<1>11. sub' \in Sub /\ sub'.parked = FALSE
  <2> HIDE DEF S
  <2>1. [NoSub EXCEPT !.state = "failed", !.why = "ahead"] \in Sub
    BY NoSubType DEF Sub, NoSub
  <2>2. [NoSub EXCEPT !.state = "failed", !.why = "gap", !.from = Earliest] \in Sub
    BY <1>6, NoSubType DEF Sub, NoSub
  <2>3. [NoSub EXCEPT !.state = "live", !.queue = InOrder(S)] \in Sub
    BY <1>8, NoSubType DEF Sub, NoSub
  <2>4. sub' \in Sub
    BY <1>10, <2>1, <2>2, <2>3
  <2>5. sub'.parked = FALSE
    BY <1>10 DEF NoSub
  <2> QED
    BY <2>4, <2>5
<1>12. StreamType'
  BY <1>1, <1>2, <1>9, <1>11 DEF StreamType
<1>13. ClientInv' /\ GivenInv' /\ WireInv'
  BY <1>1, <1>2, <1>7, <1>12, ClientKeeps, GivenKeeps, WireKeeps
<1>14. RoomInv' /\ AskInv'
  BY <1>2, <1>3, <1>5, <1>11 DEF RoomInv, AskInv
<1>15. 1..Len(wire') = {}
  BY <1>2, <1>3
<1>16. FlightInv'
  <2>1. CASE sub' = [NoSub EXCEPT !.state = "failed", !.why = "ahead"]
    <3>1. sub'.state = "failed" /\ sub'.why = "ahead"
      BY <2>1 DEF NoSub
    <3> QED
      BY <1>15, <3>1 DEF FlightInv
  <2>2. CASE /\ sub' = [NoSub EXCEPT !.state = "failed", !.why = "gap", !.from = Earliest]
             /\ client.cursor < Earliest - 1
    <3>1. sub'.state = "failed" /\ sub'.why = "gap" /\ sub'.from = Earliest
      BY <2>2 DEF NoSub
    <3>2. PICK f \in Nat : f = Earliest
      BY <1>6
    <3>3. Gap(f)'
      BY <1>2, <1>5, <1>6, <1>7, <2>2, <3>2 DEF Gap
    <3>4. wire' = <<>> /\ sub'.from = f
      BY <1>2, <1>3, <3>1, <3>2
    <3> QED
      BY <1>15, <3>1, <3>3, <3>4 DEF FlightInv, Gap
  <2>3. CASE /\ sub' = [NoSub EXCEPT !.state = "live", !.queue = InOrder(S)]
             /\ client.cursor <= Len(Log)
    <3>1. PICK q : q = InOrder(S)
      OBVIOUS
    <3>2. sub'.state = "live" /\ sub'.queue = q
      <4> HIDE DEF S
      <4> QED
        BY <2>3, <3>1 DEF NoSub
    <3>3. \A i \in 1..Len(q) : q[i] \in (client.cursor + 1)..Len(Log)
      BY <1>8, <3>1
    <3>4. \A i, j \in 1..Len(q) : i < j => q[i] < q[j]
      <4> HIDE DEF S
      <4> QED
        BY <1>8, <3>1
    <3>5. \A n \in (client.cursor + 1)..Len(Log) : Log[n] = "mine" =>
            \E i \in 1..Len(q) : q[i] = n
      BY <1>8, <3>1
    <3> HIDE DEF S
    <3> QED
      BY <1>2, <1>7, <1>15, <2>3, <3>2, <3>3, <3>4, <3>5 DEF FlightInv
  <2> HIDE DEF S
  <2> QED
    BY <1>10, <2>1, <2>2, <2>3
<1> QED
  BY <1>12, <1>13, <1>14, <1>16 DEF IInv

LEMMA PumpFails ==
  ASSUME StreamAssumption, IInv, Pump, sub.state = "failed" PROVE IInv'
<1> DEFINE m == [kind |-> sub.why, epoch |-> Epoch, seq |-> 0, from |-> sub.from]
<1>1. StreamType /\ Sound /\ RoomInv /\ AskInv /\ WireInv /\ FlightInv /\ ClientInv /\ GivenInv
  BY Facts DEF IInv
<1>2. /\ logs' = logs /\ restarts' = restarts /\ client' = client /\ asked' = asked /\ link' = link
      /\ delivered' = delivered /\ link /\ Len(wire) < WireRoom
      /\ UNCHANGED <<conn, breaks, faults>>
      /\ wire' = Append(wire, m) /\ sub' = NoSub
  BY DEF Pump, bounds
<1>3. m \in Message /\ m.kind # "event" /\ m.from = sub.from /\ m.kind = sub.why
  BY <1>1 DEF Message, Sound, FlightInv, StreamType, Sub
<1> HIDE DEF m
<1>4. /\ wire' \in Seq(Message) /\ Len(wire') = Len(wire) + 1 /\ wire'[Len(wire) + 1] = m
      /\ Len(wire) \in Nat
      /\ \A k \in 1..Len(wire) : k \in 1..Len(wire') /\ wire'[k] = wire[k]
      /\ \A k \in 1..Len(wire') : k \in 1..Len(wire) \/ k = Len(wire) + 1
  BY <1>1, <1>2, <1>3, AppendedWire DEF StreamType
<1>5. asked = <<>> /\ client.pc = "next"
  <2>1. sub # NoSub
    BY NoSubType
  <2> QED
    BY <1>1, <2>1 DEF AskInv
<1>6. Epoch' = Epoch /\ Log' = Log /\ Grows
  BY <1>1, <1>2, SameLogs
<1>7. sub' \in Sub /\ sub'.parked = FALSE /\ sub'.state = "none"
  BY <1>2, NoSubType
<1>8. StreamType'
  BY <1>1, <1>2, <1>4, <1>7 DEF StreamType
<1>9. ClientInv' /\ GivenInv'
  BY <1>1, <1>2, <1>6, <1>8, ClientKeeps, GivenKeeps
<1>10. RoomInv' /\ AskInv'
  <2>1. WireRoom \in Nat /\ Len(wire') <= WireRoom
    BY <1>2, <1>4 DEF StreamAssumption
  <2> QED
    BY <1>2, <1>5, <1>7, <2>1 DEF RoomInv, AskInv
<1>11. FlightInv'
  BY <1>7 DEF FlightInv
<1>12. WireInv'
  <2>1. ASSUME NEW k \in 1..Len(wire'), wire'[k].kind = "event"
        PROVE  k \in 1..Len(wire) /\ wire'[k] = wire[k] /\ IsEvent(k)
    <3>1. k \in 1..Len(wire)
      BY <1>3, <1>4, <2>1
    <3> QED
      BY <1>4, <2>1, <3>1 DEF IsEvent
  <2>2. ASSUME NEW k \in 1..Len(wire'), IsEvent(k)' PROVE InLine(k)'
    <3>1. k \in 1..Len(wire) /\ wire'[k] = wire[k] /\ InLine(k)
      BY <1>1, <2>1, <2>2 DEF IsEvent, WireInv
    <3>2. \A j \in 1..(k - 1) : wire'[j] = wire[j]
      BY <1>4, <3>1
    <3> QED
      BY <1>2, <1>6, <3>1, <3>2 DEF InLine
  <2>3. ASSUME NEW j \in 1..Len(wire'), NEW k \in 1..Len(wire'), IsEvent(j)', IsEvent(k)', j < k
        PROVE  wire'[j].seq < wire'[k].seq
    BY <1>1, <2>1, <2>3 DEF IsEvent, WireInv
  <2>4. ASSUME NEW k \in 1..Len(wire'), wire'[k].kind = "gap"
        PROVE  Len(wire') = 1 /\ \E f \in Nat : f = wire'[k].from /\ Gap(f)'
    <3>1. \A i \in 1..Len(wire) : IsEvent(i)
      BY <1>1 DEF FlightInv
    <3>2. k = Len(wire) + 1
      BY <1>4, <2>4, <3>1 DEF IsEvent
    <3>3. sub.why = "gap" /\ wire'[k].from = sub.from
      BY <1>3, <1>4, <2>4, <3>2
    <3>4. wire = <<>> /\ Gap(sub.from)
      BY <1>1, <3>3 DEF FlightInv
    <3>5. PICK f \in Nat : f = sub.from
      BY <1>1 DEF StreamType, Sub
    <3>6. Gap(f)'
      BY <1>2, <1>6, <3>4, <3>5 DEF Gap
    <3> QED
      BY <1>4, <3>3, <3>4, <3>5, <3>6
  <2> QED
    BY <2>2, <2>3, <2>4 DEF WireInv, Gap
<1> QED
  BY <1>8, <1>9, <1>10, <1>11, <1>12 DEF IInv

LEMMA PumpSends ==
  ASSUME StreamAssumption, IInv, Pump, sub.state = "live", sub.queue # <<>> PROVE IInv'
<1>1. StreamType /\ Sound /\ RoomInv /\ AskInv /\ WireInv /\ FlightInv /\ ClientInv /\ GivenInv
  BY Facts DEF IInv
<1>2. PICK q, n : q = sub.queue /\ n = Head(q)
  OBVIOUS
<1>3. /\ logs' = logs /\ restarts' = restarts /\ client' = client /\ asked' = asked /\ link' = link
      /\ delivered' = delivered /\ link /\ Len(wire) < WireRoom /\ sub.parked = FALSE
      /\ UNCHANGED <<conn, breaks, faults>>
      /\ wire' = Append(wire, Event(n)) /\ sub' = [sub EXCEPT !.queue = Tail(q)]
  BY <1>1, <1>2 DEF Pump, bounds, StreamType, Sub
<1>4. q \in Seq(Nat) /\ Len(q) \in Nat /\ Len(q) >= 1 /\ n = q[1] /\ n \in Nat /\ 1 \in 1..Len(q)
      /\ Tail(q) \in Seq(Nat) /\ Len(Tail(q)) = Len(q) - 1
      /\ \A i \in 1..Len(Tail(q)) : Tail(q)[i] = q[i + 1] /\ i + 1 \in 1..Len(q)
  BY <1>1, <1>2 DEF Sound
<1>5. Epoch' = Epoch /\ Log' = Log /\ Grows
  BY <1>1, <1>3, SameLogs
<1>6. /\ client.cursor \in Nat /\ client.cursor <= Len(Log) /\ Len(Log) \in Nat
      /\ \A i \in 1..Len(q) :
           q[i] \in (client.cursor + 1)..Len(Log) /\ \A k \in 1..Len(wire) : wire[k].seq < q[i]
      /\ \A i, j \in 1..Len(q) : i < j => q[i] < q[j]
      /\ \A x \in (client.cursor + 1)..Len(Log) : Log[x] = "mine" =>
            \/ \E k \in 1..Len(wire) : wire[k].seq = x
            \/ \E i \in 1..Len(q) : q[i] = x
  BY <1>1, <1>2 DEF FlightInv, Sound
<1>7. PICK m : m = Event(n)
  OBVIOUS
<1>8. m \in Message /\ m.kind = "event" /\ m.seq = n /\ m.epoch = Epoch
  BY <1>1, <1>4, <1>7 DEF Event, Message, Sound
<1>9. /\ wire' \in Seq(Message) /\ Len(wire') = Len(wire) + 1 /\ wire'[Len(wire) + 1] = m
      /\ Len(wire) \in Nat /\ Len(wire) + 1 \in 1..Len(wire')
      /\ \A k \in 1..Len(wire) : k \in 1..Len(wire') /\ wire'[k] = wire[k]
      /\ \A k \in 1..Len(wire') : k \in 1..Len(wire) \/ k = Len(wire) + 1
  BY <1>1, <1>3, <1>7, <1>8, AppendedWire DEF StreamType
<1>10. PICK r : r = Tail(q)
  OBVIOUS
<1>11. sub' \in Sub /\ sub'.parked = FALSE /\ sub'.state = "live" /\ sub'.queue = r
  <2>1. r \in Seq(Nat)
    BY <1>4, <1>10
  <2> QED
    BY <1>1, <1>3, <1>10, <2>1 DEF StreamType, Sub
<1>12. StreamType'
  BY <1>1, <1>3, <1>9, <1>11 DEF StreamType
<1>13. ClientInv' /\ GivenInv'
  BY <1>1, <1>3, <1>5, <1>12, ClientKeeps, GivenKeeps
<1>14. asked = <<>> /\ client.pc = "next"
  <2>1. sub # NoSub
    BY NoSubType
  <2> QED
    BY <1>1, <2>1 DEF AskInv
<1>15. RoomInv' /\ AskInv'
  <2>1. WireRoom \in Nat /\ Len(wire') <= WireRoom
    BY <1>3, <1>9 DEF StreamAssumption
  <2> QED
    BY <1>3, <1>11, <1>14, <2>1 DEF RoomInv, AskInv
<1>16. WireInv'
  <2>1. \A x \in (client.cursor + 1)..(n - 1) :
          Log'[x] = "mine" => \E k \in 1..Len(wire) : wire[k].seq = x
    <3>1. SUFFICES ASSUME NEW x \in (client.cursor + 1)..(n - 1), Log[x] = "mine"
                   PROVE  \E k \in 1..Len(wire) : wire[k].seq = x
      BY <1>5
    <3>2. x \in (client.cursor + 1)..Len(Log) /\ x < n
      BY <1>4, <1>6, <3>1
    <3>3. ASSUME NEW i \in 1..Len(q), q[i] = x PROVE FALSE
      <4>1. CASE i = 1
        BY <1>4, <3>2, <3>3, <4>1
      <4>2. CASE i # 1
        <5>1. 1 < i
          BY <4>2
        <5>2. q[1] < q[i]
          BY <1>4, <1>6, <5>1
        <5> QED
          BY <1>4, <3>2, <3>3, <5>2
      <4> QED
        BY <4>1, <4>2
    <3> QED
      BY <1>6, <3>1, <3>2, <3>3
  <2>2. n > client.cursor /\ n <= Len(Log') /\ \A k \in 1..Len(wire) : wire[k].seq < n
    BY <1>4, <1>5, <1>6
  <2> QED
    BY <1>3, <1>4, <1>5, <1>12, <2>1, <2>2, SentKeepsWire
<1>17. FlightInv'
  <2>1. \A k \in 1..Len(wire') : wire'[k].kind = "event" /\ wire'[k].epoch = Epoch
    <3>1. \A k \in 1..Len(wire) : wire[k].kind = "event" /\ wire[k].epoch = Epoch
      BY <1>1 DEF FlightInv, IsEvent
    <3> QED
      BY <1>8, <1>9, <3>1
  <2>2. ASSUME NEW i \in 1..Len(r)
        PROVE  r[i] = q[i + 1] /\ i + 1 \in 1..Len(q) /\ r[i] \in (client.cursor + 1)..Len(Log)
               /\ \A k \in 1..Len(wire') : wire'[k].seq < r[i]
    <3>1. r[i] = q[i + 1] /\ i + 1 \in 1..Len(q) /\ 1 < i + 1
      BY <1>4, <1>10
    <3>2. n < r[i] /\ r[i] \in (client.cursor + 1)..Len(Log)
          /\ \A k \in 1..Len(wire) : wire[k].seq < r[i]
      BY <1>4, <1>6, <3>1
    <3> QED
      BY <1>8, <1>9, <3>1, <3>2
  <2>3. ASSUME NEW i \in 1..Len(r), NEW j \in 1..Len(r), i < j PROVE r[i] < r[j]
    <3>1. i + 1 < j + 1 /\ i + 1 \in 1..Len(q) /\ j + 1 \in 1..Len(q)
      BY <2>2, <2>3
    <3> QED
      BY <1>6, <2>2, <3>1
  <2>4. ASSUME NEW x \in (client.cursor + 1)..Len(Log), Log[x] = "mine"
        PROVE  \/ \E k \in 1..Len(wire') : wire'[k].seq = x
               \/ \E i \in 1..Len(r) : r[i] = x
    <3>1. CASE \E k \in 1..Len(wire) : wire[k].seq = x
      BY <1>9, <3>1
    <3>2. CASE \E i \in 1..Len(q) : q[i] = x
      <4>1. PICK i \in 1..Len(q) : q[i] = x
        BY <3>2
      <4>2. CASE i = 1
        BY <1>4, <1>8, <1>9, <4>1, <4>2
      <4>3. CASE i # 1
        <5>1. i - 1 \in 1..Len(r) /\ (i - 1) + 1 = i
          BY <1>4, <1>10, <4>3
        <5>2. r[i - 1] = q[i]
          BY <2>2, <5>1
        <5> QED
          BY <4>1, <5>1, <5>2
      <4> QED
        BY <4>2, <4>3
    <3> QED
      BY <1>6, <2>4, <3>1, <3>2
  <2> QED
    BY <1>3, <1>5, <1>6, <1>11, <2>1, <2>2, <2>3, <2>4 DEF FlightInv, IsEvent
<1> QED
  BY <1>12, <1>13, <1>15, <1>16, <1>17 DEF IInv

LEMMA PumpParks ==
  ASSUME StreamAssumption, IInv, Pump, sub.state = "live", sub.queue = <<>> PROVE IInv'
<1>1. StreamType /\ Sound /\ RoomInv /\ AskInv /\ WireInv /\ FlightInv /\ ClientInv /\ GivenInv
  BY Facts DEF IInv
<1>2. /\ logs' = logs /\ restarts' = restarts /\ client' = client /\ asked' = asked /\ link' = link
      /\ delivered' = delivered /\ link /\ Len(wire) < WireRoom
      /\ UNCHANGED <<conn, breaks, faults>>
      /\ wire' = wire /\ sub' = [sub EXCEPT !.parked = TRUE]
  BY DEF Pump, bounds
<1>3. sub' \in Sub /\ sub'.state = "live" /\ sub'.queue = sub.queue
  BY <1>1, <1>2 DEF StreamType, Sub
<1>4. StreamType'
  BY <1>1, <1>2, <1>3 DEF StreamType
<1>5. Epoch' = Epoch /\ Log' = Log /\ Grows
  BY <1>1, <1>2, SameLogs
<1>6. ClientInv' /\ GivenInv' /\ WireInv'
  BY <1>1, <1>2, <1>4, <1>5, ClientKeeps, GivenKeeps, WireKeeps
<1>7. asked = <<>> /\ client.pc = "next"
  <2>1. sub # NoSub
    BY NoSubType
  <2> QED
    BY <1>1, <2>1 DEF AskInv
<1>8. RoomInv' /\ AskInv'
  BY <1>1, <1>2, <1>3, <1>7 DEF RoomInv, AskInv
<1>9. FlightInv'
  BY <1>1, <1>2, <1>3, <1>5 DEF FlightInv, IsEvent
<1> QED
  BY <1>4, <1>6, <1>8, <1>9 DEF IInv

LEMMA PumpKeeps ==
  ASSUME StreamAssumption, IInv, Pump PROVE IInv'
<1>1. \/ sub.state = "failed"
      \/ (sub.state = "live" /\ sub.queue # <<>>)
      \/ (sub.state = "live" /\ sub.queue = <<>>)
  BY DEF Pump
<1> QED
  BY <1>1, PumpFails, PumpSends, PumpParks

-----------------------------------------------------------------------------
(***************************************************************************)
(* The socket.                                                             *)
(***************************************************************************)
LEMMA BreakKeeps ==
  ASSUME StreamAssumption, IInv, Break PROVE IInv'
<1>1. StreamType /\ Sound /\ RoomInv /\ AskInv /\ WireInv /\ FlightInv /\ ClientInv /\ GivenInv
  BY Facts DEF IInv
<1>2. /\ client' = client /\ asked' = asked /\ link' = FALSE /\ wire' = wire
      /\ delivered' = delivered /\ sub' = NoSub /\ breaks' = breaks + 1
      /\ UNCHANGED <<conn, faults>>
      /\ \/ logs' = logs /\ restarts' = restarts
         \/ restarts' = restarts + 1 /\ logs' = Append(logs, <<>>)
  BY DEF Break
<1>3. sub' \in Sub /\ sub'.parked = FALSE /\ sub'.state = "none"
  BY <1>2, NoSubType
<1>4. /\ Grows /\ logs' \in Seq(Seq(Topics)) /\ restarts' \in Nat /\ Len(logs') = restarts' + 1
  <2>1. CASE logs' = logs /\ restarts' = restarts
    BY <1>1, <2>1, SameLogs DEF StreamType
  <2>2. CASE restarts' = restarts + 1 /\ logs' = Append(logs, <<>>)
    <3>1. <<>> \in Seq(Topics)
      OBVIOUS
    <3>2. /\ logs' \in Seq(Seq(Topics)) /\ Len(logs') = Len(logs) + 1
          /\ \A e \in 1..Len(logs) : logs'[e] = logs[e]
      BY <1>1, <2>2, <3>1, AppendProperties DEF StreamType
    <3>3. Epoch = Len(logs) /\ Epoch' = Len(logs') /\ Epoch \in Nat
      BY <1>1 DEF Epoch, Sound
    <3>4. \A e \in 1..Epoch : Len(logs[e]) \in Nat
      BY <1>1 DEF Sound
    <3>5. restarts \in Nat /\ Len(logs) = restarts + 1
      BY <1>1 DEF StreamType
    <3> QED
      BY <2>2, <3>2, <3>3, <3>4, <3>5 DEF Grows
  <2> QED
    BY <1>2, <2>1, <2>2
<1>5. StreamType'
  <2>1. breaks \in Nat
    BY <1>1 DEF StreamType
  <2>2. breaks' \in Nat
    BY <2>1 DEF Break
  <2>3. link' \in BOOLEAN
    BY <1>2, Zenon
  <2> QED
    BY <1>1, <1>2, <1>3, <1>4, <2>2, <2>3 DEF StreamType
<1>6. ClientInv' /\ GivenInv' /\ WireInv'
  BY <1>1, <1>2, <1>4, <1>5, ClientKeeps, GivenKeeps, WireKeeps
<1>7. RoomInv' /\ AskInv' /\ FlightInv'
  <2>1. NoSub' = NoSub
    BY DEF NoSub
  <2> QED
    BY <1>1, <1>2, <1>3, <2>1 DEF RoomInv, AskInv, FlightInv
<1> QED
  BY <1>5, <1>6, <1>7 DEF IInv

LEMMA SocketKeeps ==
  ASSUME StreamAssumption, IInv, Socket PROVE IInv'
<1>1. StreamType /\ Sound /\ RoomInv /\ AskInv /\ WireInv /\ FlightInv /\ ClientInv /\ GivenInv
  BY Facts DEF IInv
<1>2. /\ logs' = logs /\ sub' = sub /\ asked' = asked /\ client' = client /\ delivered' = delivered
      /\ UNCHANGED <<breaks, restarts, faults>>
      /\ \/ link' = link /\ ~link /\ wire' = <<>>
         \/ link' = TRUE /\ wire' = wire
  BY DEF Socket, Disconnected, Connected, bus, bounds
<1>3. conn' \in Conn
  <2>1. conn.lease + 1 \in Nat /\ conn.generation + 1 \in Nat /\ conn.lease \in Nat
    BY <1>1 DEF StreamType, Conn
  <2>2. CASE Disconnected
    BY <1>1, <2>1, <2>2 DEF Disconnected, Retired, StreamType, Conn
  <2>3. CASE Connected
    BY <1>1, <2>1, <2>3 DEF Connected, Retired, Conn
  <2> QED
    BY <2>2, <2>3 DEF Socket
<1>4. wire' \in Seq(Message) /\ link' \in BOOLEAN
  <2>1. <<>> \in Seq(Message)
    OBVIOUS
  <2> QED
    BY <1>1, <1>2, <2>1 DEF StreamType
<1>5. StreamType'
  BY <1>1, <1>2, <1>3, <1>4 DEF StreamType
<1>6. Epoch' = Epoch /\ Log' = Log /\ Grows
  BY <1>1, <1>2, SameLogs
<1>7. ClientInv' /\ GivenInv'
  BY <1>1, <1>2, <1>5, <1>6, ClientKeeps, GivenKeeps
<1>8. NoSub' = NoSub
  BY DEF NoSub
<1>9. CASE link' = link /\ ~link /\ wire' = <<>>
  <2>1. sub = NoSub /\ sub'.state = "none" /\ sub'.parked = FALSE
    BY <1>1, <1>2, <1>9, NoSubType DEF AskInv
  <2>2. 1..Len(wire') = {} /\ Len(wire') = 0 /\ WireRoom \in Nat
    BY <1>9 DEF StreamAssumption
  <2>3. RoomInv' /\ AskInv' /\ FlightInv' /\ WireInv'
    BY <1>1, <1>2, <1>8, <1>9, <2>1, <2>2 DEF RoomInv, AskInv, FlightInv, WireInv
  <2> QED
    BY <1>5, <1>7, <2>3 DEF IInv
<1>10. CASE link' = TRUE /\ wire' = wire
  <2>1. WireInv'
    BY <1>1, <1>2, <1>5, <1>6, <1>10, WireKeeps
  <2>2. FlightInv'
    BY <1>1, <1>2, <1>6, <1>10 DEF FlightInv, IsEvent, Gap
  <2>3. RoomInv' /\ AskInv'
    BY <1>1, <1>2, <1>8, <1>10 DEF RoomInv, AskInv
  <2> QED
    BY <1>5, <1>7, <2>1, <2>2, <2>3 DEF IInv
<1> QED
  BY <1>2, <1>9, <1>10

-----------------------------------------------------------------------------
(***************************************************************************)
(* The generator: while nothing is under way, ...                          *)
(***************************************************************************)
Calm(pc) == pc \notin {"failed", "recovering", "recovered"}

LEMMA CalmClient == Calm(client'.pc) => ClientInv'
BY DEF Calm, ClientInv

LEMMA IdleKeeps ==
  ASSUME StreamAssumption, IInv, client.pc # "next",
         UNCHANGED <<logs, sub, asked, wire, link, conn, delivered, breaks, restarts>>,
         faults' \in Nat, client' \in Client, client'.cursor = client.cursor, ClientInv'
  PROVE  IInv'
<1>1. StreamType /\ AskInv /\ GivenInv
  BY DEF IInv
<1>2. StreamType'
  BY <1>1 DEF StreamType
<1>3. Grows
  BY <1>1, SameLogs
<1>4. GivenInv'
  BY <1>1, <1>2, <1>3, GivenKeeps
<1>5. asked' = <<>> /\ sub' = NoSub /\ wire' = <<>>
  BY <1>1 DEF AskInv
<1> QED
  BY <1>2, <1>4, <1>5, EmptyKeeps

LEMMA WaitKeeps ==
  ASSUME StreamAssumption, IInv, client.pc # "next", Wait,
         UNCHANGED <<bus, asked, wire, link, conn, delivered, bounds>>
  PROVE  IInv'
<1>1. client \in Client /\ faults \in Nat
  BY DEF IInv, StreamType
<1>2. client' \in Client /\ client'.cursor = client.cursor /\ client'.pc = "waiting"
  BY <1>1 DEF Wait, Client
<1>3. ClientInv'
  BY <1>2, CalmClient DEF Calm
<1> QED
  BY <1>1, <1>2, <1>3, IdleKeeps DEF bus, bounds

LEMMA DomainErrorKeeps ==
  ASSUME StreamAssumption, IInv, DomainError PROVE IInv'
<1>1. client \in Client /\ faults \in Nat /\ client.pc = "failed" /\ StreamType /\ ClientInv
  BY DEF IInv, StreamType, DomainError, At
<1>2. UNCHANGED <<logs, sub, asked, wire, link, conn, delivered, breaks, restarts, faults>>
  BY DEF DomainError, bus, bounds
<1>3. CASE IsCurrent
  <2>1. PICK pc : pc = IF Recoverable THEN "recovering" ELSE "dead"
    OBVIOUS
  <2>2. client' = [client EXCEPT !.pc = pc] /\ pc \in {"recovering", "dead"}
        /\ (pc = "recovering" => client.why = "gap")
    BY <1>3, <2>1 DEF DomainError, Goes, Recoverable
  <2>3. /\ client' \in Client /\ client'.cursor = client.cursor /\ client'.pc = pc
        /\ client'.why = client.why /\ client'.from = client.from
    BY <1>1, <2>2 DEF Client
  <2>4. ClientInv'
    <3>1. CASE pc = "dead"
      BY <2>3, <3>1, CalmClient DEF Calm
    <3>2. CASE pc = "recovering"
      <4>1. Log' = Log
        BY <1>1, <1>2, SameLogs
      <4>2. Gap(client.from) /\ client.why = "gap"
        BY <1>1, <2>2, <3>2 DEF ClientInv
      <4> QED
        BY <1>2, <2>3, <3>2, <4>1, <4>2 DEF ClientInv, Gap
    <3> QED
      BY <2>2, <3>1, <3>2
  <2> QED
    BY <1>1, <1>2, <2>3, <2>4, IdleKeeps
<1>4. CASE ~IsCurrent
  BY <1>1, <1>4, WaitKeeps DEF DomainError
<1> QED
  BY <1>3, <1>4

LEMMA RecoveryReadKeeps ==
  ASSUME StreamAssumption, IInv, RecoveryRead PROVE IInv'
<1>1. client \in Client /\ faults \in Nat /\ client.pc = "recovering" /\ StreamType /\ ClientInv /\ Sound
  BY Facts DEF IInv, StreamType, RecoveryRead, At
<1>2. UNCHANGED <<logs, sub, asked, wire, link, conn, delivered, breaks, restarts, faults>>
  BY DEF RecoveryRead, bus, bounds
<1>3. PICK u \in Nat : u = Len(Log)
  BY <1>1 DEF Sound
<1>4. client' = [client EXCEPT !.pc = "recovered", !.upto = u]
  BY <1>3 DEF RecoveryRead
<1>5. /\ client' \in Client /\ client'.cursor = client.cursor /\ client'.pc = "recovered"
      /\ client'.why = client.why /\ client'.from = client.from /\ client'.upto = u
  BY <1>1, <1>4 DEF Client
<1>6. Log' = Log
  BY <1>1, <1>2, SameLogs
<1>7. Gap(client.from) /\ client.why = "gap"
  BY <1>1 DEF ClientInv
<1>8. ClientInv'
  BY <1>2, <1>3, <1>5, <1>6, <1>7 DEF ClientInv, Gap
<1> QED
  BY <1>1, <1>2, <1>5, <1>8, IdleKeeps

LEMMA RecoveryFailsKeeps ==
  ASSUME StreamAssumption, IInv, RecoveryFails PROVE IInv'
<1>1. client \in Client /\ faults \in Nat /\ client.pc = "recovering"
  BY DEF IInv, StreamType, RecoveryFails, At
<1>2. UNCHANGED <<logs, sub, asked, wire, link, conn, delivered, breaks, restarts>>
  BY DEF RecoveryFails, bus
<1>3. CASE Wait /\ UNCHANGED faults
  BY <1>1, <1>2, <1>3, WaitKeeps DEF bus, bounds
<1>4. CASE faults' = faults + 1 /\ Goes("dead")
  <2>1. client' \in Client /\ client'.cursor = client.cursor /\ client'.pc = "dead" /\ faults' \in Nat
    BY <1>1, <1>4 DEF Client, Goes
  <2>2. ClientInv'
    BY <2>1, CalmClient DEF Calm
  <2> QED
    BY <1>1, <1>2, <2>1, <2>2, IdleKeeps
<1> QED
  BY <1>3, <1>4 DEF RecoveryFails

\* A move that goes on without an error.
LEMMA MoveKeeps ==
  ASSUME StreamAssumption, IInv, Reconnected \/ RestoreFails \/ GenerationChanged PROVE IInv'
<1>1. client \in Client /\ faults \in Nat /\ conn \in Conn /\ client.pc # "next"
  BY DEF IInv, StreamType, Reconnected, RestoreFails, GenerationChanged, At
<1>2. UNCHANGED <<logs, sub, asked, wire, link, conn, delivered, breaks, restarts>>
  BY DEF Reconnected, RestoreFails, GenerationChanged, bus, bounds
<1>3. faults' \in Nat
  BY <1>1 DEF Reconnected, RestoreFails, GenerationChanged, bounds
<1>4. client' \in Client /\ client'.cursor = client.cursor /\ Calm(client'.pc)
  <2>1. CASE Reconnected
    <3>1. PICK g \in Nat : g = conn.generation
      BY <1>1 DEF Conn
    <3>2. \/ client' = [client EXCEPT !.pc = "restoring", !.expected = g, !.tries = 0]
          \/ client' = [client EXCEPT !.pc = "open"]
      BY <2>1, <3>1 DEF Reconnected, Goes
    <3>3. [client EXCEPT !.pc = "restoring", !.expected = g, !.tries = 0] \in Client
      BY <1>1 DEF Client
    <3>4. [client EXCEPT !.pc = "open"] \in Client
      BY <1>1 DEF Client
    <3>5. client'.cursor = client.cursor /\ client'.pc \in {"restoring", "open"}
      BY <1>1, <3>2 DEF Client
    <3> QED
      BY <3>2, <3>3, <3>4, <3>5 DEF Calm
  <2>2. CASE RestoreFails
    <3>1. client.tries + 1 \in Nat /\ client.pc = "restoring"
      BY <1>1, <2>2 DEF Client, RestoreFails, At
    <3>2. PICK t \in Nat : t = client.tries + 1
      BY <3>1
    <3>3. \/ client' = [client EXCEPT !.tries = t]
          \/ client' = [client EXCEPT !.pc = "dead"]
      BY <2>2, <3>2 DEF RestoreFails
    <3> QED
      BY <1>1, <3>1, <3>3 DEF Client, Calm
  <2>3. CASE GenerationChanged
    BY <1>1, <2>3 DEF Client, GenerationChanged, Goes, Calm
  <2> QED
    BY <2>1, <2>2, <2>3
<1>5. ClientInv'
  BY <1>4, CalmClient
<1> QED
  BY <1>1, <1>2, <1>3, <1>4, <1>5, IdleKeeps

-----------------------------------------------------------------------------
(***************************************************************************)
(* ... when a subscription begins or ends, ...                             *)
(***************************************************************************)
LEMMA OpenKeeps ==
  ASSUME StreamAssumption, IInv, Open PROVE IInv'
<1>1. /\ StreamType /\ Sound /\ RoomInv /\ AskInv /\ WireInv /\ FlightInv /\ ClientInv /\ GivenInv
      /\ client \in Client /\ conn \in Conn
  BY Facts DEF IInv, StreamType
<1>2. PICK g, l \in Nat : g = conn.generation /\ l = conn.lease
  BY <1>1 DEF Conn
<1>3. /\ UNCHANGED <<logs, sub, wire, link, conn, delivered, breaks, restarts, faults>>
      /\ client' = [client EXCEPT !.pc = "next", !.active = g, !.lease = l]
      /\ asked' = <<client.cursor>> /\ client.pc = "open"
  BY <1>2 DEF Open, At, bus, bounds
<1>4. sub = NoSub /\ wire = <<>>
  BY <1>1, <1>3 DEF AskInv
<1>5. client' \in Client /\ client'.cursor = client.cursor /\ client'.pc = "next"
  BY <1>1, <1>3 DEF Client
<1>6. asked' \in Seq(Nat) /\ Len(asked') = 1 /\ asked'[1] = client.cursor
  BY <1>1, <1>3 DEF Sound
<1>7. StreamType'
  BY <1>1, <1>3, <1>5, <1>6 DEF StreamType
<1>8. Grows
  BY <1>1, <1>3, SameLogs
<1>9. GivenInv' /\ WireInv' /\ ClientInv'
  BY <1>1, <1>3, <1>5, <1>7, <1>8, GivenKeeps, WireKeeps, CalmClient DEF Calm
<1>10. sub'.state = "none" /\ NoSub' = NoSub
  BY <1>3, <1>4, NoSubType DEF NoSub
<1>11. RoomInv' /\ AskInv' /\ FlightInv'
  BY <1>1, <1>3, <1>4, <1>5, <1>6, <1>10 DEF RoomInv, AskInv, FlightInv
<1> QED
  BY <1>7, <1>9, <1>11 DEF IInv

LEMMA ReturnKeeps ==
  ASSUME StreamAssumption, IInv, Returned, client' \in Client, client'.cursor = client.cursor,
         ClientInv', UNCHANGED <<logs, link, conn, delivered, bounds>>
  PROVE  IInv'
<1>1. StreamType /\ GivenInv
  BY DEF IInv
<1>2. asked' = <<>> /\ sub' = NoSub /\ wire' = <<>>
  BY DEF Returned
<1>3. asked' \in Seq(Nat) /\ Len(asked') = 0 /\ wire' \in Seq(Message) /\ sub' \in Sub
  BY <1>2, NoSubType
<1>4. StreamType'
  BY <1>1, <1>3 DEF StreamType, bounds
<1>5. Grows
  BY <1>1, SameLogs DEF bounds
<1>6. GivenInv'
  BY <1>1, <1>4, <1>5, GivenKeeps
<1> QED
  BY <1>2, <1>4, <1>6, EmptyKeeps

LEMMA FailsKeeps ==
  ASSUME StreamAssumption, IInv, Fails PROVE IInv'
<1>1. StreamType /\ Sound /\ WireInv /\ client \in Client
  BY Facts DEF IInv, StreamType
<1>2. wire # <<>> /\ 1 \in 1..Len(wire) /\ Head(wire) = wire[1]
  BY <1>1 DEF Fails, StreamType
<1>3. PICK m : m = wire[1]
  OBVIOUS
<1>4. m \in Message /\ m.kind # "event" /\ m.from \in Nat
  BY <1>1, <1>2, <1>3 DEF Fails, Sound
<1>5. m.kind \in {"overflow", "ahead", "gap"}
  BY <1>4 DEF Message
<1>6. client' = [client EXCEPT !.pc = "failed", !.why = m.kind, !.from = m.from]
  BY <1>2, <1>3 DEF Fails
<1>7. /\ client' \in Client /\ client'.cursor = client.cursor /\ client'.pc = "failed"
      /\ client'.why = m.kind /\ client'.from = m.from
  BY <1>1, <1>4, <1>5, <1>6 DEF Client
<1>8. ClientInv'
  <2>1. m.kind = "gap" => Gap(m.from)
    BY <1>1, <1>2, <1>3 DEF WireInv
  <2>2. Log' = Log /\ restarts' = restarts
    BY <1>1, SameLogs DEF Fails, bounds
  <2>3. m.kind = "gap" => client'.from > client'.cursor /\ (restarts' = 0 => client'.from <= Len(Log') + 1)
    BY <1>7, <2>1, <2>2 DEF Gap
  <2> QED
    BY <1>7, <2>3 DEF ClientInv, Gap
<1> QED
  BY <1>7, <1>8, ReturnKeeps DEF Fails

LEMMA StreamRetiredKeeps ==
  ASSUME StreamAssumption, IInv, StreamRetired PROVE IInv'
<1>1. client \in Client
  BY DEF IInv, StreamType
<1>2. client' = [client EXCEPT !.pc = "failed", !.why = "retired"]
  BY DEF StreamRetired
<1>3. client' \in Client /\ client'.cursor = client.cursor /\ client'.pc = "failed" /\ client'.why = "retired"
  BY <1>1, <1>2 DEF Client
<1>4. ClientInv'
  BY <1>3 DEF ClientInv
<1> QED
  BY <1>3, <1>4, ReturnKeeps DEF StreamRetired

LEMMA AbortKeeps ==
  ASSUME StreamAssumption, IInv, Abort PROVE IInv'
<1>1. client \in Client
  BY DEF IInv, StreamType
<1>2. client' = [client EXCEPT !.pc = "aborted"]
  BY DEF Abort, Goes
<1>3. client' \in Client /\ client'.cursor = client.cursor /\ client'.pc = "aborted"
  BY <1>1, <1>2 DEF Client
<1>4. ClientInv'
  BY <1>3, CalmClient DEF Calm
<1> QED
  BY <1>3, <1>4, ReturnKeeps DEF Abort

-----------------------------------------------------------------------------
(***************************************************************************)
(* ... and when the consumer is given something.                           *)
(***************************************************************************)
LEMMA AppendedGiven ==
  ASSUME delivered \in Seq(Given), NEW d \in Given, delivered' = Append(delivered, d)
  PROVE  /\ delivered' \in Seq(Given) /\ Len(delivered') = Len(delivered) + 1 /\ Len(delivered) \in Nat
         /\ delivered'[Len(delivered) + 1] = d /\ Len(delivered) + 1 \in 1..Len(delivered')
         /\ \A k \in 1..Len(delivered) : k \in 1..Len(delivered') /\ delivered'[k] = delivered[k]
         /\ \A k \in 1..Len(delivered') : k \in 1..Len(delivered) \/ k = Len(delivered) + 1
BY AppendProperties

LEMMA HistoryKeeps ==
  ASSUME StreamType, StreamType', GivenInv, UNCHANGED <<logs, restarts>>,
         NEW u \in Nat, delivered' = Append(delivered, History(u)),
         client'.cursor >= client.cursor,
         restarts = 0 => /\ client'.cursor <= Len(Log)
                         /\ client'.cursor = client.cursor \/ client'.cursor <= u
  PROVE  GivenInv'
<1>1. Sound /\ Sound'
  BY Facts, FactsNext
<1>2. Epoch' = Epoch /\ Log' = Log
  BY SameLogs
<1>3. PICK d : d = History(u)
  OBVIOUS
<1>4. d \in Given /\ d.kind = "history" /\ d.epoch = Epoch /\ d.seq = u
  BY <1>1, <1>3 DEF History, Given, Sound
<1>5. PICK last : last = Len(delivered) + 1
  OBVIOUS
<1>6. /\ Len(delivered') = last /\ Len(delivered) \in Nat /\ delivered'[last] = d
      /\ last \in 1..Len(delivered')
      /\ \A k \in 1..Len(delivered) : k \in 1..Len(delivered') /\ delivered'[k] = delivered[k]
      /\ \A k \in 1..Len(delivered') : k \in 1..Len(delivered) \/ k = last
  BY <1>3, <1>4, <1>5, AppendedGiven DEF StreamType
<1>7. ASSUME NEW i \in 1..Len(delivered'), delivered'[i].kind = "event"
      PROVE  i \in 1..Len(delivered) /\ delivered'[i] = delivered[i]
  <2>1. i \in 1..Len(delivered)
    BY <1>4, <1>6, <1>7
  <2> QED
    BY <1>6, <2>1
<1>8. DeliveredOnce'
  <2>1. SUFFICES ASSUME NEW i \in 1..Len(delivered'), NEW j \in 1..Len(delivered'), i < j,
                        delivered'[i].kind = "event", delivered'[j].kind = "event",
                        delivered'[i].epoch = delivered'[j].epoch
                 PROVE  delivered'[i].seq < delivered'[j].seq
    BY DEF DeliveredOnce
  <2> QED
    BY <1>7, <2>1 DEF GivenInv, DeliveredOnce
<1>9. client.cursor \in Nat /\ client'.cursor \in Nat
  BY <1>1 DEF Sound
<1>10. ASSUME NEW i \in 1..Len(delivered'), delivered'[i].kind = "event"
       PROVE  /\ delivered'[i].seq <= client'.cursor
              /\ delivered'[i].epoch \in 1..Epoch'
              /\ delivered'[i].seq \in 1..Len(logs'[delivered'[i].epoch])
  <2>1. i \in 1..Len(delivered) /\ delivered'[i] = delivered[i]
    BY <1>7, <1>10
  <2>2. delivered[i].seq <= client.cursor /\ delivered[i].epoch \in 1..Epoch
        /\ delivered[i].seq \in 1..Len(logs[delivered[i].epoch])
    BY <1>10, <2>1 DEF GivenInv
  <2>3. delivered[i].seq \in Nat
    BY <1>1, <2>1 DEF Sound
  <2> QED
    BY <1>2, <1>9, <2>1, <2>2, <2>3
<1>11. ASSUME restarts' = 0
       PROVE  /\ NothingMissed' /\ client'.cursor <= Len(Log')
              /\ \A n \in 1..client'.cursor : Log'[n] = "mine" =>
                   \E j \in 1..Len(delivered') : Covers(delivered'[j], Epoch', n)
  <2>1. /\ NothingMissed
        /\ \A n \in 1..client.cursor : Log[n] = "mine" =>
             \E j \in 1..Len(delivered) : Covers(delivered[j], Epoch, n)
    BY <1>11 DEF GivenInv
  <2>2. NothingMissed'
    <3>1. SUFFICES ASSUME NEW i \in 1..Len(delivered'), delivered'[i].kind = "event",
                          NEW n \in 1..(delivered'[i].seq - 1),
                          logs'[delivered'[i].epoch][n] = "mine"
                   PROVE  \E j \in 1..(i - 1) : Covers(delivered'[j], delivered'[i].epoch, n)
      BY DEF NothingMissed, Covers
    <3>2. i \in 1..Len(delivered) /\ delivered'[i] = delivered[i]
      BY <1>7, <3>1
    <3>3. PICK j \in 1..(i - 1) : Covers(delivered[j], delivered[i].epoch, n)
      BY <2>1, <3>1, <3>2 DEF NothingMissed
    <3>4. delivered'[j] = delivered[j]
      BY <1>6, <3>2, <3>3
    <3> QED
      BY <3>2, <3>3, <3>4
  <2>3. ASSUME NEW n \in 1..client'.cursor, Log[n] = "mine"
        PROVE  \E j \in 1..Len(delivered') : Covers(delivered'[j], Epoch, n)
    <3>1. CASE n <= client.cursor
      <4>1. n \in 1..client.cursor
        BY <1>9, <3>1
      <4>2. PICK j \in 1..Len(delivered) : Covers(delivered[j], Epoch, n)
        BY <2>1, <2>3, <4>1
      <4> QED
        BY <1>6, <4>2
    <3>2. CASE ~(n <= client.cursor)
      <4>1. n <= u
        BY <1>9, <1>11, <3>2
      <4>2. Covers(d, Epoch, n)
        BY <1>4, <4>1 DEF Covers
      <4> QED
        BY <1>6, <4>2
    <3> QED
      BY <3>1, <3>2
  <2> QED
    BY <1>2, <1>11, <2>2, <2>3
<1> QED
  BY <1>8, <1>10, <1>11 DEF GivenInv, Covers

LEMMA RecoveryTakenKeeps ==
  ASSUME StreamAssumption, IInv, RecoveryTaken PROVE IInv'
<1>1. /\ StreamType /\ Sound /\ AskInv /\ ClientInv /\ GivenInv
      /\ client \in Client /\ faults \in Nat /\ client.pc = "recovered"
  BY Facts DEF IInv, StreamType, RecoveryTaken, At
<1>2. CASE ~IsCurrent
  BY <1>1, <1>2, WaitKeeps DEF RecoveryTaken
<1>3. CASE IsCurrent
  <2>1. Gap(client.from) /\ (restarts = 0 => client.from <= client.upto + 1)
    BY <1>1 DEF ClientInv
  <2>2. client.from \in Nat /\ client.cursor \in Nat /\ client.upto \in Nat /\ Len(Log) \in Nat
    BY <1>1 DEF Sound
  <2>3. PICK c \in Nat : c = client.from - 1
    BY <2>1, <2>2 DEF Gap
  <2>4. PICK u \in Nat : u = client.upto
    BY <2>2
  <2>5. /\ client' = [client EXCEPT !.pc = "open", !.cursor = c]
        /\ delivered' = Append(delivered, History(u))
        /\ UNCHANGED <<logs, sub, asked, wire, link, conn, breaks, restarts, faults>>
    BY <1>3, <2>3, <2>4 DEF RecoveryTaken, bus, bounds
  <2>6. client' \in Client /\ client'.cursor = c /\ client'.pc = "open"
    BY <1>1, <2>5 DEF Client
  <2>7. History(u) \in Given
    BY <1>1 DEF History, Given, Sound
  <2>8. delivered' \in Seq(Given)
    BY <1>1, <2>5, <2>7, AppendedGiven DEF StreamType
  <2>9. StreamType'
    BY <1>1, <2>5, <2>6, <2>8 DEF StreamType
  <2>10. client'.cursor >= client.cursor
         /\ (restarts = 0 => client'.cursor <= Len(Log) /\ client'.cursor <= u)
    BY <2>1, <2>2, <2>3, <2>4, <2>6 DEF Gap
  <2>11. GivenInv'
    BY <1>1, <2>5, <2>9, <2>10, HistoryKeeps
  <2>12. ClientInv'
    BY <2>6, CalmClient DEF Calm
  <2>13. asked' = <<>> /\ sub' = NoSub /\ wire' = <<>>
    BY <1>1, <2>5 DEF AskInv
  <2> QED
    BY <2>9, <2>11, <2>12, <2>13, EmptyKeeps
<1> QED
  BY <1>2, <1>3

LEMMA RestoredKeeps ==
  ASSUME StreamAssumption, IInv, Restored PROVE IInv'
<1>1. /\ StreamType /\ Sound /\ AskInv /\ GivenInv /\ client \in Client /\ client.pc = "restoring"
  BY Facts DEF IInv, StreamType, Restored, At
<1>2. PICK u \in Nat : u = Len(Log)
  BY <1>1 DEF Sound
<1>3. /\ client' = [client EXCEPT !.pc = "open"]
      /\ delivered' = Append(delivered, History(u))
      /\ UNCHANGED <<logs, sub, asked, wire, link, conn, breaks, restarts, faults>>
  BY <1>2 DEF Restored, bus, bounds
<1>4. client' \in Client /\ client'.cursor = client.cursor /\ client'.pc = "open"
  BY <1>1, <1>3 DEF Client
<1>5. History(u) \in Given
  BY <1>1 DEF History, Given, Sound
<1>6. delivered' \in Seq(Given)
  BY <1>1, <1>3, <1>5, AppendedGiven DEF StreamType
<1>7. StreamType'
  BY <1>1, <1>3, <1>4, <1>6 DEF StreamType
<1>8. client.cursor \in Nat /\ (restarts = 0 => client.cursor <= Len(Log))
  BY <1>1 DEF Sound, GivenInv
<1>9. GivenInv'
  BY <1>1, <1>3, <1>4, <1>7, <1>8, HistoryKeeps
<1>10. ClientInv'
  BY <1>4, CalmClient DEF Calm
<1>11. asked' = <<>> /\ sub' = NoSub /\ wire' = <<>>
  BY <1>1, <1>3 DEF AskInv
<1> QED
  BY <1>7, <1>9, <1>10, <1>11, EmptyKeeps

LEMMA ReceiveKeeps ==
  ASSUME StreamAssumption, IInv, Receive PROVE IInv'
<1>1. /\ StreamType /\ Sound /\ RoomInv /\ AskInv /\ WireInv /\ FlightInv /\ ClientInv /\ GivenInv
      /\ client \in Client
  BY Facts DEF IInv, StreamType
<1>2. wire # <<>> /\ 1 \in 1..Len(wire) /\ Head(wire) = wire[1] /\ client.pc = "next"
  BY <1>1 DEF Receive, StreamType, At
<1>3. PICK m : m = wire[1]
  OBVIOUS
<1>4. PICK c \in Nat : c = m.seq
  BY <1>1, <1>2, <1>3 DEF Sound
<1>5. m \in Message /\ m.kind = "event" /\ IsEvent(1) /\ InLine(1)
  BY <1>1, <1>2, <1>3 DEF Receive, Sound, IsEvent, WireInv
<1>6. /\ m.epoch \in 1..Epoch /\ c \in 1..Len(logs[m.epoch]) /\ c > client.cursor
      /\ client.cursor \in Nat
      /\ \A n \in (client.cursor + 1)..(c - 1) : logs[m.epoch][n] # "mine"
  <2>1. 1..(1 - 1) = {}
    OBVIOUS
  <2> QED
    BY <1>1, <1>3, <1>4, <1>5, <2>1 DEF InLine, Sound
<1>7. /\ client' = [client EXCEPT !.cursor = c]
      /\ delivered' = Append(delivered, m)
      /\ wire' = Tail(wire)
      /\ UNCHANGED <<logs, sub, asked, link, conn, breaks, restarts, faults>>
  <2>1. Later(m.seq) = c /\ ~IsDuplicate(m)
    BY <1>4, <1>6 DEF Later, IsDuplicate
  <2> QED
    BY <1>2, <1>3, <2>1 DEF Receive, bus, bounds
<1>8. client' \in Client /\ client'.cursor = c /\ client'.pc = "next"
  BY <1>1, <1>2, <1>7 DEF Client
<1>9. m \in Given
  BY <1>5 DEF Message, Given
<1>10. PICK last : last = Len(delivered) + 1
  OBVIOUS
<1>11. /\ delivered' \in Seq(Given) /\ Len(delivered') = last /\ Len(delivered) \in Nat
       /\ delivered'[last] = m
       /\ \A k \in 1..Len(delivered) : k \in 1..Len(delivered') /\ delivered'[k] = delivered[k]
       /\ \A k \in 1..Len(delivered') : k \in 1..Len(delivered) \/ k = last
       /\ last \in 1..Len(delivered')
  BY <1>1, <1>7, <1>9, <1>10, AppendedGiven DEF StreamType
<1>12. /\ wire' \in Seq(Message) /\ Len(wire') = Len(wire) - 1 /\ Len(wire) \in Nat
       /\ \A k \in 1..Len(wire') : wire'[k] = wire[k + 1] /\ k + 1 \in 1..Len(wire) /\ 1 < k + 1
  BY <1>1, <1>2, <1>7 DEF StreamType
<1>13. StreamType'
  BY <1>1, <1>7, <1>8, <1>11, <1>12 DEF StreamType
<1>14. Epoch' = Epoch /\ Log' = Log /\ NoSub' = NoSub
  BY <1>1, <1>7, SameLogs DEF NoSub
<1>15. ClientInv'
  BY <1>8, CalmClient DEF Calm
<1>16. RoomInv' /\ AskInv'
  <2>1. asked = <<>>
    BY <1>1, <1>2 DEF AskInv
  <2>2. WireRoom \in Nat
    BY DEF StreamAssumption
  <2> QED
    BY <1>1, <1>7, <1>8, <1>12, <1>14, <2>1, <2>2 DEF RoomInv, AskInv
<1>17. \A k \in 2..Len(wire) : IsEvent(k) => c < wire[k].seq
  BY <1>1, <1>2, <1>3, <1>4, <1>5 DEF WireInv
<1>18. WireInv'
  <2>1. ASSUME NEW k \in 1..Len(wire'), IsEvent(k)' PROVE InLine(k)'
    <3>1. wire'[k] = wire[k + 1] /\ k + 1 \in 2..Len(wire) /\ IsEvent(k + 1)
      BY <1>12, <2>1 DEF IsEvent
    <3>2. k + 1 \in 1..Len(wire)
      BY <3>1
    <3>3. InLine(k + 1) /\ c < wire[k + 1].seq
      BY <1>1, <1>17, <3>1, <3>2 DEF WireInv
    <3>4. PICK e, s : e = wire[k + 1].epoch /\ s = wire[k + 1].seq
      OBVIOUS
    <3>5. /\ e \in 1..Epoch /\ s \in 1..Len(logs[e]) /\ c < s
          /\ \A n \in (client.cursor + 1)..(s - 1) :
               logs[e][n] = "mine" => \E j \in 1..((k + 1) - 1) : wire[j].seq = n
      BY <3>3, <3>4 DEF InLine
    <3>6. ASSUME NEW n \in (c + 1)..(s - 1), logs[e][n] = "mine"
          PROVE  \E j \in 1..(k - 1) : wire'[j].seq = n
      <4>1. s \in Nat /\ n \in (client.cursor + 1)..(s - 1) /\ n # c
        <5>1. s \in Nat
          BY <1>1, <3>2, <3>4 DEF Sound
        <5> QED
          BY <1>6, <3>6, <5>1
      <4>2. PICK j \in 1..((k + 1) - 1) : wire[j].seq = n
        BY <3>5, <3>6, <4>1
      <4>3. j # 1
        BY <1>3, <1>4, <4>1, <4>2
      <4>4. j - 1 \in 1..(k - 1) /\ j - 1 \in 1..Len(wire') /\ (j - 1) + 1 = j
        BY <1>12, <3>2, <4>2, <4>3
      <4> QED
        BY <1>12, <4>2, <4>4
    <3>7. wire'[k].epoch = e /\ wire'[k].seq = s
      BY <3>1, <3>4
    <3> QED
      BY <1>7, <1>8, <1>14, <3>5, <3>6, <3>7 DEF InLine
  <2>2. ASSUME NEW j \in 1..Len(wire'), NEW k \in 1..Len(wire'), IsEvent(j)', IsEvent(k)', j < k
        PROVE  wire'[j].seq < wire'[k].seq
    <3>1. /\ wire'[j] = wire[j + 1] /\ wire'[k] = wire[k + 1]
          /\ j + 1 \in 1..Len(wire) /\ k + 1 \in 1..Len(wire) /\ j + 1 < k + 1
      BY <1>12, <2>2
    <3>2. IsEvent(j + 1) /\ IsEvent(k + 1)
      BY <2>2, <3>1 DEF IsEvent
    <3> QED
      BY <1>1, <3>1, <3>2 DEF WireInv
  <2>3. \A k \in 1..Len(wire') : wire'[k].kind # "gap"
    <3>1. SUFFICES ASSUME NEW k \in 1..Len(wire'), wire'[k].kind = "gap" PROVE FALSE
      OBVIOUS
    <3>2. k + 1 \in 1..Len(wire) /\ wire[k + 1].kind = "gap" /\ 1 < k + 1
      BY <1>12, <3>1
    <3>3. Len(wire) = 1
      BY <1>1, <3>2 DEF WireInv
    <3> QED
      BY <3>2, <3>3
  <2> QED
    BY <2>1, <2>2, <2>3 DEF WireInv
<1>19. FlightInv'
  <2>1. CASE sub.state = "none"
    BY <1>7, <2>1 DEF FlightInv
  <2>2. CASE sub.state # "none"
    <3>1. \A k \in 1..Len(wire) : IsEvent(k) /\ wire[k].epoch = Epoch
      BY <1>1, <2>2 DEF FlightInv
    <3>2. \A k \in 1..Len(wire') : wire'[k].kind = "event" /\ wire'[k].epoch = Epoch
      BY <1>12, <3>1 DEF IsEvent
    <3>3. CASE sub.state = "failed"
      BY <1>1, <1>2, <1>7, <1>14, <3>2, <3>3 DEF FlightInv, IsEvent
    <3>4. CASE sub.state = "live"
      <4>1. PICK q : q = sub.queue
        OBVIOUS
      <4>2. /\ \A i \in 1..Len(q) :
                 q[i] \in (client.cursor + 1)..Len(Log) /\ \A k \in 1..Len(wire) : wire[k].seq < q[i]
            /\ \A i, j \in 1..Len(q) : i < j => q[i] < q[j]
            /\ \A x \in (client.cursor + 1)..Len(Log) : Log[x] = "mine" =>
                  \/ \E k \in 1..Len(wire) : wire[k].seq = x
                  \/ \E i \in 1..Len(q) : q[i] = x
        BY <1>1, <3>4, <4>1 DEF FlightInv
      <4>3. Len(Log) \in Nat
        BY <1>1 DEF Sound
      <4>4. c <= Len(Log)
        <5>1. m.epoch = Epoch
          BY <1>2, <1>3, <3>1
        <5> QED
          BY <1>6, <4>3, <5>1 DEF Log
      <4>5. ASSUME NEW i \in 1..Len(q)
            PROVE  q[i] \in (c + 1)..Len(Log) /\ \A k \in 1..Len(wire') : wire'[k].seq < q[i]
        <5>1. c < q[i]
          BY <1>2, <1>3, <1>4, <4>2
        <5>2. q[i] \in Nat
          BY <1>1, <4>1 DEF Sound
        <5>3. q[i] \in (c + 1)..Len(Log)
          BY <4>2, <4>3, <5>1, <5>2
        <5> QED
          BY <1>12, <4>2, <5>3
      <4>6. ASSUME NEW x \in (c + 1)..Len(Log), Log[x] = "mine"
            PROVE  \/ \E k \in 1..Len(wire') : wire'[k].seq = x
                   \/ \E i \in 1..Len(q) : q[i] = x
        <5>1. x \in (client.cursor + 1)..Len(Log) /\ x # c
          BY <1>6, <4>3, <4>6
        <5>2. CASE \E k \in 1..Len(wire) : wire[k].seq = x
          <6>1. PICK k \in 1..Len(wire) : wire[k].seq = x
            BY <5>2
          <6>2. k # 1
            BY <1>3, <1>4, <5>1, <6>1
          <6>3. k - 1 \in 1..Len(wire') /\ (k - 1) + 1 = k
            BY <1>12, <6>1, <6>2
          <6> QED
            BY <1>12, <6>1, <6>3
        <5>3. CASE \E i \in 1..Len(q) : q[i] = x
          BY <5>3
        <5> QED
          BY <4>2, <4>6, <5>1, <5>2, <5>3
      <4> QED
        BY <1>7, <1>8, <1>14, <3>2, <3>4, <4>1, <4>2, <4>4, <4>5, <4>6 DEF FlightInv, IsEvent
    <3>5. sub.state \in {"none", "live", "failed"}
      BY <1>1 DEF StreamType, Sub
    <3> QED
      BY <2>2, <3>3, <3>4, <3>5
  <2> QED
    BY <2>1, <2>2
<1>20. \A i \in 1..Len(delivered) : delivered[i].seq \in Nat
         /\ (delivered[i].kind = "event" =>
               /\ delivered[i].seq <= client.cursor
               /\ delivered[i].epoch \in 1..Epoch
               /\ delivered[i].seq \in 1..Len(logs[delivered[i].epoch]))
  BY <1>1 DEF Sound, GivenInv
<1>21. GivenInv'
  <2>1. DeliveredOnce'
    <3>1. SUFFICES ASSUME NEW i \in 1..Len(delivered'), NEW j \in 1..Len(delivered'), i < j,
                          delivered'[i].kind = "event", delivered'[j].kind = "event",
                          delivered'[i].epoch = delivered'[j].epoch
                   PROVE  delivered'[i].seq < delivered'[j].seq
      BY DEF DeliveredOnce
    <3>2. i \in 1..Len(delivered) /\ delivered'[i] = delivered[i]
      <4>1. i \in 1..Len(delivered)
        BY <1>10, <1>11, <3>1
      <4> QED
        BY <1>11, <4>1
    <3>3. CASE j = last
      <4>1. delivered[i].seq <= client.cursor /\ delivered[i].seq \in Nat
        BY <1>20, <3>1, <3>2
      <4> QED
        BY <1>4, <1>6, <1>11, <3>2, <3>3, <4>1
    <3>4. CASE j \in 1..Len(delivered)
      BY <1>1, <1>11, <3>1, <3>2, <3>4 DEF GivenInv, DeliveredOnce
    <3> QED
      BY <1>11, <3>3, <3>4
  <2>2. ASSUME NEW i \in 1..Len(delivered'), delivered'[i].kind = "event"
        PROVE  /\ delivered'[i].seq <= c /\ delivered'[i].epoch \in 1..Epoch
               /\ delivered'[i].seq \in 1..Len(logs[delivered'[i].epoch])
    <3>1. CASE i = last
      BY <1>4, <1>6, <1>11, <3>1
    <3>2. CASE i \in 1..Len(delivered)
      BY <1>6, <1>11, <1>20, <2>2, <3>2
    <3> QED
      BY <1>11, <3>1, <3>2
  <2>3. ASSUME restarts = 0
        PROVE  /\ NothingMissed' /\ c <= Len(Log)
               /\ \A n \in 1..c : Log[n] = "mine" =>
                    \E j \in 1..Len(delivered') : Covers(delivered'[j], Epoch, n)
    <3>1. /\ NothingMissed
          /\ \A n \in 1..client.cursor : Log[n] = "mine" =>
               \E j \in 1..Len(delivered) : Covers(delivered[j], Epoch, n)
      BY <1>1, <2>3 DEF GivenInv
    <3>2. m.epoch = Epoch /\ Len(Log) \in Nat
      <4>1. Epoch = 1 /\ Len(Log) \in Nat
        BY <1>1, <2>3 DEF Sound
      <4> QED
        BY <1>6, <4>1
    <3>3. c \in 1..Len(Log) /\ \A n \in (client.cursor + 1)..(c - 1) : Log[n] # "mine"
      BY <1>6, <3>2 DEF Log
    <3>4. ASSUME NEW n \in 1..(c - 1), Log[n] = "mine"
          PROVE  \E j \in 1..Len(delivered) : Covers(delivered[j], Epoch, n)
      <4>1. n \in 1..client.cursor
        BY <1>6, <3>3, <3>4
      <4> QED
        BY <3>1, <3>4, <4>1
    <3>5. NothingMissed'
      <4>1. SUFFICES ASSUME NEW i \in 1..Len(delivered'), delivered'[i].kind = "event",
                            NEW n \in 1..(delivered'[i].seq - 1),
                            logs'[delivered'[i].epoch][n] = "mine"
                     PROVE  \E j \in 1..(i - 1) : Covers(delivered'[j], delivered'[i].epoch, n)
        BY DEF NothingMissed, Covers
      <4>2. CASE i = last
        <5>1. delivered'[i].epoch = Epoch /\ n \in 1..(c - 1) /\ Log[n] = "mine"
          BY <1>4, <1>7, <1>11, <3>2, <4>1, <4>2 DEF Log
        <5>2. PICK j \in 1..Len(delivered) : Covers(delivered[j], Epoch, n)
          BY <3>4, <5>1
        <5>3. j \in 1..(i - 1) /\ delivered'[j] = delivered[j]
          BY <1>10, <1>11, <4>2, <5>2
        <5> QED
          BY <5>1, <5>2, <5>3
      <4>3. CASE i \in 1..Len(delivered)
        <5>1. delivered'[i] = delivered[i]
          BY <1>11, <4>3
        <5>2. PICK j \in 1..(i - 1) : Covers(delivered[j], delivered[i].epoch, n)
          BY <1>7, <3>1, <4>1, <4>3, <5>1 DEF NothingMissed
        <5>3. delivered'[j] = delivered[j]
          BY <1>11, <4>3, <5>2
        <5> QED
          BY <5>1, <5>2, <5>3
      <4> QED
        BY <1>11, <4>2, <4>3
    <3>6. ASSUME NEW n \in 1..c, Log[n] = "mine"
          PROVE  \E j \in 1..Len(delivered') : Covers(delivered'[j], Epoch, n)
      <4>1. CASE n = c
        <5>1. Covers(m, Epoch, n)
          BY <1>4, <1>5, <3>2, <4>1 DEF Covers
        <5> QED
          BY <1>11, <5>1
      <4>2. CASE n # c
        <5>1. n \in 1..(c - 1)
          BY <4>2
        <5>2. PICK j \in 1..Len(delivered) : Covers(delivered[j], Epoch, n)
          BY <3>4, <3>6, <5>1
        <5> QED
          BY <1>11, <5>2
      <4> QED
        BY <4>1, <4>2
    <3> QED
      BY <3>3, <3>5, <3>6
  <2> QED
    BY <1>7, <1>8, <1>14, <2>1, <2>2, <2>3 DEF GivenInv, Covers
<1> QED
  BY <1>13, <1>15, <1>16, <1>18, <1>19, <1>21 DEF IInv

-----------------------------------------------------------------------------
(***************************************************************************)
(* The theorems.                                                           *)
(***************************************************************************)
LEMMA InitHolds ==
  ASSUME StreamAssumption, Init PROVE IInv
<1>1. /\ logs = <<<<>>>> /\ sub = NoSub /\ asked = <<>> /\ wire = <<>> /\ delivered = <<>>
      /\ link = FALSE /\ breaks = 0 /\ restarts = 0 /\ faults = 0
      /\ conn = [connected |-> FALSE, generation |-> 0, lease |-> 0]
      /\ client = [pc |-> "open", cursor |-> 0, active |-> 0, lease |-> 0, why |-> "none",
                   from |-> 0, expected |-> 0, tries |-> 0, upto |-> 0]
  BY DEF Init
<1>2. <<<<>>>> \in Seq(Seq(Topics)) /\ Len(logs) = 1 /\ Epoch = 1 /\ Log = <<>>
  <2>1. <<>> \in Seq(Topics)
    OBVIOUS
  <2>2. <<<<>>>> \in Seq(Seq(Topics)) /\ Len(<<<<>>>>) = 1 /\ <<<<>>>>[1] = <<>>
    BY <2>1
  <2> QED
    BY <1>1, <2>2 DEF Epoch, Log
<1>3. conn \in Conn /\ client \in Client /\ client.pc = "open" /\ client.cursor = 0
  BY <1>1 DEF Conn, Client
<1>4. <<>> \in Seq(Nat) /\ <<>> \in Seq(Message) /\ <<>> \in Seq(Given)
      /\ Len(asked) = 0 /\ Len(wire) = 0 /\ Len(delivered) = 0 /\ Len(Log) = 0
  BY <1>1, <1>2
<1>5. StreamType
  <2>1. asked \in Seq(Nat) /\ wire \in Seq(Message) /\ delivered \in Seq(Given) /\ Len(asked) <= 1
    BY <1>1, <1>4
  <2>2. logs \in Seq(Seq(Topics)) /\ restarts \in Nat /\ Len(logs) = restarts + 1
    BY <1>1, <1>2
  <2>3. sub \in Sub /\ link \in BOOLEAN /\ breaks \in Nat /\ faults \in Nat
    BY <1>1, NoSubType
  <2> QED
    BY <1>3, <2>1, <2>2, <2>3 DEF StreamType
<1>6. sub.state = "none" /\ sub.parked = FALSE /\ 1..0 = {} /\ WireRoom \in Nat
  BY <1>1, NoSubType DEF StreamAssumption
<1>7. RoomInv /\ AskInv /\ WireInv /\ FlightInv /\ ClientInv
  BY <1>1, <1>3, <1>4, <1>6 DEF RoomInv, AskInv, WireInv, FlightInv, ClientInv
<1>8. GivenInv
  BY <1>3, <1>4, <1>6 DEF GivenInv, DeliveredOnce, NothingMissed
<1> QED
  BY <1>5, <1>7, <1>8 DEF IInv

LEMMA NextKeeps ==
  ASSUME StreamAssumption, IInv, Next PROVE IInv'
BY PublishKeeps, SubscribeKeeps, PumpKeeps, BreakKeeps, SocketKeeps, OpenKeeps, ReceiveKeeps,
   FailsKeeps, StreamRetiredKeeps, DomainErrorKeeps, RecoveryReadKeeps, RecoveryFailsKeeps,
   RecoveryTakenKeeps, MoveKeeps, RestoredKeeps, AbortKeeps
   DEF Next, Backend, Generator

LEMMA SameKeeps ==
  ASSUME IInv, UNCHANGED vars PROVE IInv'
<1>1. /\ logs' = logs /\ sub' = sub /\ asked' = asked /\ wire' = wire /\ link' = link
      /\ conn' = conn /\ client' = client /\ delivered' = delivered
      /\ breaks' = breaks /\ restarts' = restarts /\ faults' = faults
  BY DEF vars, bus, bounds
<1>2. Epoch' = Epoch /\ Log' = Log /\ NoSub' = NoSub
  BY <1>1 DEF Epoch, Log, NoSub
<1>3. StreamType'
  BY <1>1 DEF IInv, StreamType
<1>4. RoomInv' /\ AskInv'
  BY <1>1, <1>2 DEF IInv, RoomInv, AskInv
<1>5. WireInv'
  BY <1>1, <1>2 DEF IInv, WireInv, IsEvent, InLine, Gap
<1>6. FlightInv'
  BY <1>1, <1>2 DEF IInv, FlightInv, IsEvent, Gap
<1>7. ClientInv'
  BY <1>1, <1>2 DEF IInv, ClientInv, Gap
<1>8. DeliveredOnce' /\ (NothingMissed <=> NothingMissed')
  BY <1>1 DEF IInv, GivenInv, DeliveredOnce, NothingMissed, Covers
<1>9. GivenInv'
  BY <1>1, <1>2, <1>8 DEF IInv, GivenInv, Covers
<1> QED
  BY <1>3, <1>4, <1>5, <1>6, <1>7, <1>9 DEF IInv

LEMMA AlwaysHolds ==
  ASSUME StreamAssumption PROVE Spec => []IInv
<1>1. Init => IInv
  BY InitHolds
<1>2. IInv /\ [Next]_vars => IInv'
  BY NextKeeps, SameKeeps
<1> QED
  BY <1>1, <1>2, PTL DEF Spec

\* The types, and one subscription at most: a subscriber waits with an empty
\* queue, and the wire is within its bound (EventBus.ts, resumable-stream.ts).
LEMMA TypesHold == StreamAssumption /\ IInv => TypeOK
<1> SUFFICES ASSUME StreamAssumption, IInv PROVE TypeOK
  OBVIOUS
<1>1. StreamType /\ RoomInv /\ Len(wire) \in Nat /\ WireRoom \in Nat
  BY Facts DEF IInv, Sound, StreamAssumption
<1>2. sub \in Sub /\ conn \in Conn /\ client \in Client
  BY <1>1 DEF StreamType
<1>3. /\ sub.state \in {"none", "live", "failed"} /\ sub.queue \in Seq(Nat) /\ sub.parked \in BOOLEAN
      /\ sub.why \in {"none", "overflow", "ahead", "gap"} /\ sub.from \in Nat
  BY <1>2 DEF Sub
<1>4. conn.connected \in BOOLEAN /\ {conn.generation, conn.lease} \subseteq Nat
  BY <1>2 DEF Conn
<1>5. /\ client.pc \in {"open", "next", "failed", "recovering", "recovered", "waiting", "restoring",
                        "dead", "aborted"}
      /\ {client.cursor, client.active, client.lease, client.from, client.expected, client.tries,
          client.upto} \subseteq Nat
  BY <1>2 DEF Client
<1>6. Len(wire) <= WireRoom + 1
  BY <1>1 DEF RoomInv
<1>7. {link, conn.connected, sub.parked} \subseteq BOOLEAN
  BY <1>1, <1>3, <1>4 DEF StreamType
<1> QED
  BY <1>1, <1>3, <1>4, <1>5, <1>6, <1>7 DEF TypeOK, StreamType, RoomInv

LEMMA StreamHolds ==
  IInv => DeliveredOnce /\ (restarts = 0 => NothingMissed)
BY DEF IInv, GivenInv

\* The types, and a subscriber that waits has an empty queue (EventBus.ts,
\* frontend-rpc.resumable-stream.ts).
THEOREM StreamTypesHold ==
  ASSUME StreamAssumption PROVE Spec => []TypeOK
BY AlwaysHolds, TypesHold, PTL

\* No event is given to a consumer twice or out of order, whatever breaks, is
\* dropped or is subscribed again (EventBus.subscribeRecords, resumableStream).
THEOREM EventsComeOnce ==
  ASSUME StreamAssumption PROVE Spec => []DeliveredOnce
BY AlwaysHolds, StreamHolds, PTL

\* While the backend is not restarted, whoever is given an event was given
\* every earlier one of its topic, or a history that covers it.
THEOREM NoEventIsMissed ==
  ASSUME StreamAssumption PROVE Spec => [](restarts = 0 => NothingMissed)
BY AlwaysHolds, StreamHolds, PTL
=============================================================================
