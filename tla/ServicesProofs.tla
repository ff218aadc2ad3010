--------------------------- MODULE ServicesProofs ---------------------------
(***************************************************************************)
(* A behaviour of MCServices that is one of the event streams keeps the    *)
(* invariant of EventStreamProofs, whatever the bounds that MCServices     *)
(* leaves open.                                                            *)
(***************************************************************************)
EXTENDS MCServices, TLAPS

P == INSTANCE EventStreamProofs WITH
  MaxReplay <- 2, Capacity <- 1, Retries <- 1, WireRoom <- 1, MaxBreaks <- 2,
  MaxFaults <- StreamFaults, asked <- request, faults <- streamFaults

StreamInv == part = "stream" => P!IInv

LEMMA SameAssumption == P!StreamAssumption
BY ServicesAssumption DEF P!StreamAssumption, Stream!StreamAssumption

LEMMA StreamBegins == Init => StreamInv
<1> SUFFICES ASSUME Init PROVE P!IInv
  BY DEF StreamInv
<1>1. P!Init
  BY DEF Init, Stream!Init, P!Init, Stream!NoSub, P!NoSub
<1> QED
  BY <1>1, SameAssumption, P!InitHolds

\* One step of the stream is one step of its module.
LEMMA SameStep == Stream!Next => P!Next
<1> USE DEF Stream!Topics, P!Topics, Stream!Log, P!Log, Stream!Epoch, P!Epoch, Stream!bounds, P!bounds,
            Stream!bus, P!bus, Stream!NoSub, P!NoSub, Stream!At, P!At, Stream!Goes, P!Goes,
            Stream!Returned, P!Returned, Stream!Event, P!Event, Stream!IsCurrent, P!IsCurrent,
            Stream!Leased, P!Leased, Stream!Wait, P!Wait, Stream!History, P!History,
            Stream!Expected, P!Expected, Stream!Retired, P!Retired, Stream!Earliest, P!Earliest
<1>1. ASSUME NEW topic \in Stream!Topics, Stream!Publish(topic) PROVE topic \in P!Topics /\ P!Publish(topic)
  BY <1>1 DEF Stream!Publish, P!Publish, Stream!Push, P!Push
<1>2. ASSUME NEW S PROVE Stream!InOrder(S) = P!InOrder(S)
  BY Zenon DEF Stream!InOrder, P!InOrder, Stream!Cardinality, P!Cardinality
<1>3. Stream!Subscribe => P!Subscribe
  BY <1>2 DEF Stream!Subscribe, P!Subscribe
<1>4. Stream!Pump => P!Pump
  BY DEF Stream!Pump, P!Pump
<1>5. Stream!Break => P!Break
  BY DEF Stream!Break, P!Break
<1>6. Stream!Socket => P!Socket
  BY DEF Stream!Socket, P!Socket, Stream!Disconnected, P!Disconnected, Stream!Connected, P!Connected
<1>7. Stream!Open => P!Open
  BY DEF Stream!Open, P!Open
<1>8. Stream!Receive => P!Receive
  BY DEF Stream!Receive, P!Receive, Stream!Later, P!Later, Stream!IsDuplicate, P!IsDuplicate
<1>9. Stream!Fails => P!Fails
  BY DEF Stream!Fails, P!Fails
<1>10. Stream!StreamRetired => P!StreamRetired
  BY DEF Stream!StreamRetired, P!StreamRetired
<1>11. Stream!DomainError => P!DomainError
  BY DEF Stream!DomainError, P!DomainError, Stream!Recoverable, P!Recoverable
<1>12. Stream!RecoveryRead => P!RecoveryRead
  BY DEF Stream!RecoveryRead, P!RecoveryRead
<1>13. Stream!RecoveryFails => P!RecoveryFails
  BY DEF Stream!RecoveryFails, P!RecoveryFails
<1>14. Stream!RecoveryTaken => P!RecoveryTaken
  BY DEF Stream!RecoveryTaken, P!RecoveryTaken
<1>15. Stream!Reconnected => P!Reconnected
  BY DEF Stream!Reconnected, P!Reconnected
<1>16. Stream!Restored => P!Restored
  BY DEF Stream!Restored, P!Restored
<1>17. Stream!RestoreFails => P!RestoreFails
  BY DEF Stream!RestoreFails, P!RestoreFails
<1>18. Stream!GenerationChanged => P!GenerationChanged
  BY DEF Stream!GenerationChanged, P!GenerationChanged
<1>19. Stream!Abort => P!Abort
  BY DEF Stream!Abort, P!Abort
<1>20. SUFFICES ASSUME Stream!Next PROVE P!Next
  OBVIOUS
<1>21. CASE \E topic \in Stream!Topics : Stream!Publish(topic)
  <2>1. \E topic \in P!Topics : P!Publish(topic)
    BY <1>1, <1>21
  <2> QED
    BY <2>1 DEF P!Next
<1>22. CASE Stream!Backend \/ Stream!Break \/ Stream!Socket \/ Stream!Abort
  BY <1>3, <1>4, <1>5, <1>6, <1>19, <1>22 DEF Stream!Backend, P!Backend, P!Next
<1>23. CASE Stream!Generator
  <2>1. P!Generator
    BY <1>7, <1>8, <1>9, <1>10, <1>11, <1>12, <1>13, <1>14, <1>15, <1>16, <1>17, <1>18, <1>23
       DEF Stream!Generator, P!Generator
  <2> QED
    BY <2>1 DEF P!Next
<1> QED
  BY <1>20, <1>21, <1>22, <1>23 DEF Stream!Next

LEMMA StreamGoesOn == StreamInv /\ [Next]_vars => StreamInv'
<1> SUFFICES ASSUME StreamInv, [Next]_vars, part' = "stream" PROVE P!IInv'
  BY DEF StreamInv
<1>1. part = "stream" /\ P!IInv
  BY DEF Next, vars, StreamInv
<1>2. CASE Stream!Next
  BY <1>1, <1>2, SameStep, SameAssumption, P!NextKeeps
<1>3. CASE UNCHANGED vars
  <2>1. UNCHANGED P!vars
    BY <1>3 DEF vars, streamVars, P!vars, P!bus, P!bounds
  <2> QED
    BY <1>1, <2>1, P!SameKeeps
<1> QED
  BY <1>1, <1>2, <1>3 DEF Next, InStream, InAdmission, InExecution, InQueue, InPages

LEMMA SameProperties ==
  /\ P!TypeOK => Stream!TypeOK
  /\ P!DeliveredOnce => Stream!DeliveredOnce
  /\ P!NothingMissed => Stream!NothingMissed
<1>1. P!TypeOK => Stream!TypeOK
  BY DEF P!TypeOK, Stream!TypeOK, P!Topics, Stream!Topics
<1>2. P!DeliveredOnce => Stream!DeliveredOnce
  BY DEF P!DeliveredOnce, Stream!DeliveredOnce
<1>3. P!NothingMissed => Stream!NothingMissed
  BY DEF P!NothingMissed, Stream!NothingMissed, P!Covers, Stream!Covers
<1> QED
  BY <1>1, <1>2, <1>3

LEMMA StreamInvIsEnough == StreamInv => StreamIsWhole
BY SameAssumption, SameProperties, P!TypesHold, P!StreamHolds DEF StreamInv, StreamIsWhole

\* A subscriber is given each event of its topic once, in order and without a
\* hole, over reconnections, overflow and a replay that was trimmed
\* (EventBus.subscribeRecords, resumableStream).
THEOREM StreamStaysWhole == Spec => []StreamIsWhole
<1>1. Init => StreamInv
  BY StreamBegins
<1>2. StreamInv /\ [Next]_vars => StreamInv'
  BY StreamGoesOn
<1>3. StreamInv => StreamIsWhole
  BY StreamInvIsEnough
<1> QED
  BY <1>1, <1>2, <1>3, PTL DEF Spec
=============================================================================
