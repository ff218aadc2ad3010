------------------------- MODULE KeyValueHandlesProofs -------------------------
(***************************************************************************)
(* The pool of a key-value store for any resources, calls and bounds: it   *)
(* never has more databases than its limit, maintenance has a resource to  *)
(* itself, a closed store has nothing left, and a database is closed under *)
(* a call only by the sweep of idle handles, which had it on its list.     *)
(*                                                                         *)
(* The bound is a sum over four places a database can be in: cached, being *)
(* evicted or swept, being closed for maintenance, failed to close.  Every *)
(* step moves one database from one place to another, except an opening,   *)
(* which looks at the sum in the same step.                                *)
(***************************************************************************)
EXTENDS KeyValueHandles, SequenceTheorems, FiniteSetTheorems, TLAPS

Places == {"new", "queued", "admission", "using", "used"} \cup {"done", "failed", "refused"}
Active == {"queued", "admission", "using", "used"}

PoolType ==
  /\ handle \in [Resources -> {"none", "opening", "open"}]
  /\ users \in [Resources -> SUBSET Calls] /\ failed \in Nat
  /\ call \in [Calls -> Places]
  /\ phase \in [Calls -> 0..2] /\ tail \in [Resources -> Seq(Writes)]
  /\ admission \in Seq(Calls \cup {"sweep"}) /\ evicting \subseteq Resources /\ sweep \subseteq Resources
  /\ door \in {"shut", "check", "evict", "evicting", "parked", "sweeping"}
  /\ life \in [Resources -> {"none", "drain", "closing", "work", "done"}]
  /\ store \in {"open", "closing", "closed"} /\ cut \subseteq Calls
  /\ faults \in Nat /\ sweeps \in 0..MaxSweeps

\* The users of a handle are calls of its resource that are at work.
UseInv ==
  \A r \in Resources :
    /\ handle[r] = "none" => users[r] = {}
    /\ \A c \in users[r] : On[c] = r /\ call[c] = "using"

\* The tail of a resource holds its writes that are under way, and only the
\* first of them has come to ask for the handle.
TailInv ==
  /\ \A r \in Resources :
       /\ \A i \in 1..Len(tail[r]) : On[tail[r][i]] = r /\ call[tail[r][i]] \in Active
       /\ \A i, j \in 1..Len(tail[r]) : tail[r][i] = tail[r][j] => i = j
  /\ \A c \in Writes : call[c] \in Active => \E i \in 1..Len(tail[On[c]]) : tail[On[c]][i] = c

WriteInv ==
  /\ \A c \in Writes : call[c] \in {"admission", "using", "used"} => tail[On[c]][1] = c
  /\ \A c \in Writes : call[c] \in {"queued", "admission", "using"} => phase[c] >= 1
  /\ \A c \in Calls : call[c] \in {"queued", "used"} => c \in Writes

\* Who stands in the queue waits there and stands there once, and the door
\* knows what it does for the head.
QueueInv ==
  /\ \A i \in 1..Len(admission) : admission[i] \in Calls => call[admission[i]] = "admission"
  /\ \A i, j \in 1..Len(admission) :
       admission[i] \in Calls /\ admission[i] = admission[j] => i = j
  /\ admission = <<>> <=> door = "shut"
  /\ door \in {"evict", "evicting", "parked"} => admission[1] \in Calls
  /\ door = "sweeping" => admission[1] = "sweep"
  /\ evicting # {} => door \in {"evicting", "sweeping"} /\ \E r \in Resources : evicting = {r}
  /\ door = "evicting" => evicting # {}

LifeInv ==
  /\ \A r \in Resources : life[r] \in {"closing", "work"} => InFlight(r) = {}
  /\ store = "closed" =>
       admission = <<>> /\ \A r \in Resources : ~Cached(r) /\ ~Blocked(r) /\ InFlight(r) = {}

CachedOnes == {r \in Resources : Cached(r)}
ClosingOnes == {r \in Resources : life[r] = "closing"}

SizeInv ==
  /\ IsFiniteSet(CachedOnes) /\ IsFiniteSet(ClosingOnes) /\ IsFiniteSet(evicting)
  /\ Cardinality(CachedOnes) + failed + (Cardinality(ClosingOnes) + Cardinality(evicting)) <= MaxOpen

\* Without a sweep nothing is cut.
SweepInv ==
  sweeps = 0 => cut = {} /\ sweep = {} /\ \A i \in 1..Len(admission) : admission[i] # "sweep"

IInv == PoolType /\ UseInv /\ TailInv /\ WriteInv /\ QueueInv /\ LifeInv /\ SizeInv /\ SweepInv

-----------------------------------------------------------------------------
(***************************************************************************)
(* Sequences, sets and where a call is.                                    *)
(***************************************************************************)
LEMMA Appended ==
  ASSUME NEW S, NEW q \in Seq(S), NEW x \in S
  PROVE  /\ Append(q, x) \in Seq(S) /\ Len(q) \in Nat /\ Len(Append(q, x)) = Len(q) + 1
         /\ Append(q, x) # <<>> /\ Append(q, x)[Len(q) + 1] = x
         /\ \A i \in 1..Len(q) : Append(q, x)[i] = q[i]
         /\ \A i \in 1..Len(Append(q, x)) : i \in 1..Len(q) \/ i = Len(q) + 1
BY AppendProperties

LEMMA Tailed ==
  ASSUME NEW S, NEW q \in Seq(S), q # <<>>
  PROVE  /\ Tail(q) \in Seq(S) /\ Len(q) \in Nat /\ Len(q) >= 1 /\ Len(Tail(q)) = Len(q) - 1
         /\ 1 \in 1..Len(q) /\ Head(q) = q[1] /\ q[1] \in S
         /\ \A i \in 1..Len(Tail(q)) : Tail(q)[i] = q[i + 1] /\ i + 1 \in 1..Len(q)
         /\ \A i \in 1..Len(q) : i # 1 => i - 1 \in 1..Len(Tail(q)) /\ Tail(q)[i - 1] = q[i]
<1>1. /\ Tail(q) \in Seq(S) /\ Len(q) \in Nat /\ Len(q) >= 1 /\ Len(Tail(q)) = Len(q) - 1
      /\ 1 \in 1..Len(q) /\ Head(q) = q[1] /\ q[1] \in S
  OBVIOUS
<1>2. \A i \in 1..Len(Tail(q)) : Tail(q)[i] = q[i + 1] /\ i + 1 \in 1..Len(q)
  BY <1>1
<1>3. ASSUME NEW i \in 1..Len(q), i # 1
      PROVE  i - 1 \in 1..Len(Tail(q)) /\ Tail(q)[i - 1] = q[i]
  <2>1. i - 1 \in 1..Len(Tail(q)) /\ (i - 1) + 1 = i
    BY <1>1, <1>3
  <2> QED
    BY <1>2, <2>1
<1> QED
  BY <1>1, <1>2, <1>3

LEMMA Sizes ==
  SizeInv => /\ Cardinality(CachedOnes) \in Nat /\ Cardinality(ClosingOnes) \in Nat
             /\ Cardinality(evicting) \in Nat
BY FS_CardinalityType DEF SizeInv

LEMMA OneOrNone ==
  /\ Cardinality({}) = 0 /\ \A r : Cardinality({r}) = 1
BY FS_EmptySet, FS_Singleton

LEMMA Added ==
  ASSUME NEW S, IsFiniteSet(S), NEW x, x \notin S
  PROVE  /\ IsFiniteSet(S \cup {x}) /\ Cardinality(S \cup {x}) = Cardinality(S) + 1
         /\ Cardinality(S) \in Nat
BY FS_AddElement, FS_CardinalityType

LEMMA Removed ==
  ASSUME NEW S, IsFiniteSet(S), NEW x \in S
  PROVE  /\ IsFiniteSet(S \ {x}) /\ Cardinality(S \ {x}) = Cardinality(S) - 1
         /\ Cardinality(S) \in Nat
BY FS_RemoveElement, FS_CardinalityType

LEMMA InFlightIs ==
  PoolType => \A r : InFlight(r) = {c \in Calls : On[c] = r /\ call[c] \in Active}
<1> SUFFICES ASSUME PoolType PROVE \A r : InFlight(r) = {c \in Calls : On[c] = r /\ call[c] \in Active}
  OBVIOUS
<1>1. \A c \in Calls : call[c] \in Places
  BY DEF PoolType
<1> QED
  BY <1>1 DEF InFlight, Active, Places

LEMMA InFlightIsNext ==
  PoolType' => \A r : InFlight(r)' = {c \in Calls : On[c] = r /\ call'[c] \in Active}
<1> SUFFICES ASSUME PoolType' PROVE \A r : InFlight(r)' = {c \in Calls : On[c] = r /\ call'[c] \in Active}
  OBVIOUS
<1>1. \A c \in Calls : call'[c] \in Places
  BY DEF PoolType
<1> QED
  BY <1>1 DEF InFlight, Active, Places

\* A call moves and stays under way.
Moves(c, pc) == /\ c \in Calls /\ call[c] \in Active /\ pc \in Active
                /\ call' = [call EXCEPT ![c] = pc] /\ tail' = tail

LEMMA MovesTail ==
  ASSUME PoolAssumption, PoolType, TailInv, NEW c, NEW pc, Moves(c, pc)
  PROVE  /\ TailInv' /\ \A d \in Calls : d # c => call'[d] = call[d]
         /\ call'[c] = pc /\ call' \in [Calls -> Places]
         /\ \A d \in Calls : call'[d] \in Active <=> call[d] \in Active
<1>1. /\ c \in Calls /\ call[c] \in Active /\ pc \in Active /\ pc \in Places
      /\ call' = [call EXCEPT ![c] = pc] /\ tail' = tail
  BY DEF Moves, Active, Places
<1>2. /\ \A d \in Calls : d # c => call'[d] = call[d]
      /\ call'[c] = pc /\ call' \in [Calls -> Places]
  BY <1>1 DEF PoolType
<1>3. \A d \in Calls : call'[d] \in Active <=> call[d] \in Active
  BY <1>1, <1>2
<1>4. \A r \in Resources : tail[r] \in Seq(Writes) /\ \A i \in 1..Len(tail[r]) : tail[r][i] \in Calls
  BY DEF PoolType, PoolAssumption
<1>5. TailInv'
  BY <1>1, <1>3, <1>4 DEF TailInv, PoolAssumption
<1> QED
  BY <1>2, <1>3, <1>5

\* As far as maintenance and shutdown are concerned.
LEMMA LifeKeeps ==
  ASSUME PoolType, PoolType', LifeInv, UNCHANGED <<life, store>>,
         \A d \in Calls : call'[d] \in Active => call[d] \in Active,
         store # "closed" \/ UNCHANGED <<admission, handle>>
  PROVE  LifeInv'
<1>1. \A r : InFlight(r)' \subseteq InFlight(r)
  BY InFlightIs, InFlightIsNext
<1>2. ASSUME NEW r \in Resources, life'[r] \in {"closing", "work"} PROVE InFlight(r)' = {}
  BY <1>1, <1>2 DEF LifeInv
<1>3. ASSUME store' = "closed"
      PROVE  admission' = <<>> /\ \A r \in Resources : ~Cached(r)' /\ ~Blocked(r)' /\ InFlight(r)' = {}
  <2>1. admission = <<>> /\ \A r \in Resources : ~Cached(r) /\ ~Blocked(r) /\ InFlight(r) = {}
    BY <1>3 DEF LifeInv
  <2>2. admission' = admission /\ handle' = handle
    BY <1>3
  <2> QED
    BY <1>1, <2>1, <2>2 DEF Cached, Blocked
<1> QED
  BY <1>2, <1>3 DEF LifeInv

\* A store with a call under way, or someone at the door, is not closed.
LEMMA OpenStore ==
  ASSUME PoolAssumption, PoolType, LifeInv,
         (\E c \in Calls : call[c] \in Active) \/ admission # <<>>
  PROVE  store # "closed"
<1>1. SUFFICES ASSUME store = "closed" PROVE FALSE
  OBVIOUS
<1>2. admission = <<>> /\ \A r \in Resources : InFlight(r) = {}
  BY <1>1 DEF LifeInv
<1>3. PICK c \in Calls : call[c] \in Active
  BY <1>2
<1>4. c \in InFlight(On[c]) /\ On[c] \in Resources
  BY <1>3, InFlightIs DEF PoolAssumption
<1> QED
  BY <1>2, <1>4

LEMMA SameSizes ==
  ASSUME PoolAssumption, SizeInv, PoolType, PoolType', UNCHANGED <<life, evicting>>,
         \A r \in Resources : Cached(r)' <=> Cached(r), failed' <= failed
  PROVE  SizeInv'
<1>1. CachedOnes' = CachedOnes /\ ClosingOnes' = ClosingOnes
  BY DEF CachedOnes, ClosingOnes
<1>2. /\ Cardinality(CachedOnes) \in Nat /\ Cardinality(ClosingOnes) \in Nat
      /\ Cardinality(evicting) \in Nat /\ failed \in Nat /\ failed' \in Nat /\ MaxOpen \in Nat
  BY Sizes DEF PoolType, PoolAssumption
<1>3. Cardinality(CachedOnes) + failed' + (Cardinality(ClosingOnes) + Cardinality(evicting)) <= MaxOpen
  BY <1>2 DEF SizeInv
<1> QED
  BY <1>1, <1>3 DEF SizeInv

-----------------------------------------------------------------------------
(***************************************************************************)
(* The calls.                                                              *)
(***************************************************************************)
LEMMA AcquireKeeps ==
  ASSUME PoolAssumption, IInv, NEW c \in Calls, call[c] \in {"new", "queued", "used"}, Acquires(c),
         UNCHANGED <<handle, evicting, cut, sweep, sweeps>>
  PROVE  /\ users' \in [Resources -> SUBSET Calls] /\ admission' \in Seq(Calls \cup {"sweep"})
         /\ door' \in {"shut", "check", "evict", "evicting", "parked", "sweeping"}
         /\ \E pc \in {"using", "admission"} : call' = [call EXCEPT ![c] = pc]
         /\ UseInv' /\ QueueInv' /\ SweepInv'
<1>1. PoolType /\ UseInv /\ QueueInv /\ SweepInv /\ On[c] \in Resources /\ "sweep" \notin Calls
  BY DEF IInv, PoolAssumption
<1>2. call \in [Calls -> Places] /\ users \in [Resources -> SUBSET Calls]
      /\ admission \in Seq(Calls \cup {"sweep"}) /\ Len(admission) \in Nat
  BY <1>1 DEF PoolType
<1>3. CASE Cached(On[c])
  <2>1. /\ users' = [users EXCEPT ![On[c]] = @ \cup {c}]
        /\ call' = [call EXCEPT ![c] = "using"] /\ admission' = admission /\ door' = door
    BY <1>3 DEF Acquires, Goes
  <2>2. /\ call'[c] = "using" /\ \A d \in Calls : d # c => call'[d] = call[d]
    BY <1>2, <2>1
  <2>3. users' \in [Resources -> SUBSET Calls]
        /\ \A r \in Resources : users'[r] = IF r = On[c] THEN users[r] \cup {c} ELSE users[r]
    BY <1>1, <1>2, <2>1
  <2>4. UseInv'
    <3>1. ASSUME NEW r \in Resources
          PROVE  /\ handle[r] = "none" => users'[r] = {}
                 /\ \A d \in users'[r] : On[d] = r /\ call'[d] = "using"
      <4>1. CASE r = On[c]
        BY <1>1, <1>2, <1>3, <2>2, <2>3, <4>1 DEF UseInv, Cached
      <4>2. CASE r # On[c]
        BY <1>1, <1>2, <2>2, <2>3, <4>2 DEF UseInv
      <4> QED
        BY <4>1, <4>2
    <3> QED
      BY <3>1 DEF UseInv
  <2>5. QueueInv'
    <3>1. \A i \in 1..Len(admission) : admission[i] \in Calls => call'[admission[i]] = "admission"
      BY <1>1, <2>2 DEF QueueInv
    <3> QED
      BY <1>1, <2>1, <3>1 DEF QueueInv
  <2>6. SweepInv'
    BY <1>1, <2>1 DEF SweepInv
  <2> QED
    BY <1>1, <1>2, <2>1, <2>3, <2>4, <2>5, <2>6 DEF PoolType
<1>4. CASE ~Cached(On[c])
  <2>1. /\ admission' = Append(admission, c) /\ users' = users
        /\ door' = IF admission = <<>> THEN "check" ELSE door
        /\ call' = [call EXCEPT ![c] = "admission"]
    BY <1>4 DEF Acquires, Goes
  <2>2. /\ call'[c] = "admission" /\ \A d \in Calls : d # c => call'[d] = call[d]
    BY <1>2, <2>1
  <2>3. c \in Calls \cup {"sweep"}
    OBVIOUS
  <2>4. PICK last : last = Len(admission) + 1
    OBVIOUS
  <2>5. /\ admission' \in Seq(Calls \cup {"sweep"}) /\ Len(admission') = last /\ admission' # <<>>
        /\ admission'[last] = c
        /\ \A i \in 1..Len(admission) : admission'[i] = admission[i]
        /\ \A i \in 1..Len(admission') : i \in 1..Len(admission) \/ i = last
    BY <1>2, <2>1, <2>3, <2>4, Appended
  <2>6. UseInv'
    BY <1>1, <2>1, <2>2 DEF UseInv
  <2>7. QueueInv'
    <3>1. \A i \in 1..Len(admission) : admission[i] # c
      BY <1>1 DEF QueueInv
    <3>2. \A i \in 1..Len(admission') : admission'[i] \in Calls => call'[admission'[i]] = "admission"
      BY <1>1, <2>2, <2>5 DEF QueueInv
    <3>3. \A i, j \in 1..Len(admission') :
            admission'[i] \in Calls /\ admission'[i] = admission'[j] => i = j
      BY <1>1, <2>5, <3>1 DEF QueueInv
    <3>4. CASE admission = <<>>
      <4>1. door = "shut" /\ door' = "check" /\ evicting = {}
        BY <1>1, <2>1, <3>4 DEF QueueInv
      <4> QED
        BY <2>5, <3>2, <3>3, <4>1 DEF QueueInv
    <3>5. CASE admission # <<>>
      <4>1. door' = door /\ door # "shut" /\ 1 \in 1..Len(admission)
        BY <1>1, <1>2, <2>1, <3>5 DEF QueueInv
      <4>2. admission'[1] = admission[1]
        BY <2>5, <4>1
      <4> QED
        BY <1>1, <2>5, <3>2, <3>3, <4>1, <4>2 DEF QueueInv
    <3> QED
      BY <3>4, <3>5
  <2>8. SweepInv'
    BY <1>1, <2>5 DEF SweepInv
  <2>9. door' \in {"shut", "check", "evict", "evicting", "parked", "sweeping"}
    BY <1>1, <2>1 DEF PoolType
  <2> QED
    BY <1>2, <2>1, <2>5, <2>6, <2>7, <2>8, <2>9
<1> QED
  BY <1>3, <1>4

\* A call that is no write leaves the tails alone.
LEMMA ReaderKeeps ==
  ASSUME PoolAssumption, PoolType, TailInv, WriteInv, NEW c \in Calls \ Writes,
         NEW pc \in Places \ {"queued", "used"}, call' = [call EXCEPT ![c] = pc],
         UNCHANGED <<tail, phase>>
  PROVE  /\ TailInv' /\ WriteInv' /\ \A d \in Calls : d # c => call'[d] = call[d]
         /\ call'[c] = pc /\ call' \in [Calls -> Places]
<1>1. /\ \A d \in Calls : d # c => call'[d] = call[d]
      /\ call'[c] = pc /\ call' \in [Calls -> Places]
  BY DEF PoolType
<1>2. \A d \in Writes : d \in Calls /\ call'[d] = call[d]
  BY <1>1 DEF PoolAssumption
<1>3. \A r \in Resources : \A i \in 1..Len(tail[r]) : tail[r][i] \in Writes
  BY DEF PoolType
<1>4. TailInv'
  BY <1>2, <1>3 DEF TailInv
<1>5. WriteInv'
  BY <1>1, <1>2 DEF WriteInv
<1> QED
  BY <1>1, <1>4, <1>5

LEMMA ReadKeeps ==
  ASSUME PoolAssumption, IInv, NEW c \in Calls, Read(c) PROVE IInv'
<1>1. PoolType /\ UseInv /\ TailInv /\ WriteInv /\ QueueInv /\ LifeInv /\ SizeInv /\ SweepInv
  BY DEF IInv
<1>2. /\ c \notin Writes /\ call[c] = "new" /\ call \in [Calls -> Places]
      /\ UNCHANGED <<handle, failed, phase, tail, evicting, sweep, life, store, cut, faults, sweeps>>
  BY <1>1 DEF Read, bounds, PoolType
<1>3. \A r \in Resources : Cached(r)' <=> Cached(r)
  BY <1>2 DEF Cached
<1>4. CASE store = "open" /\ ~Blocked(On[c])
  <2>1. Acquires(c)
    BY <1>4 DEF Read
  <2>2. /\ users' \in [Resources -> SUBSET Calls] /\ admission' \in Seq(Calls \cup {"sweep"})
        /\ door' \in {"shut", "check", "evict", "evicting", "parked", "sweeping"}
        /\ \E pc \in {"using", "admission"} : call' = [call EXCEPT ![c] = pc]
        /\ UseInv' /\ QueueInv' /\ SweepInv'
    BY <1>2, <2>1, AcquireKeeps
  <2>3. PICK pc \in {"using", "admission"} : call' = [call EXCEPT ![c] = pc]
    BY <2>2
  <2>4. pc \in Places \ {"queued", "used"}
    BY DEF Places
  <2>5. /\ TailInv' /\ WriteInv' /\ \A d \in Calls : d # c => call'[d] = call[d]
        /\ call' \in [Calls -> Places]
    BY <1>1, <1>2, <2>3, <2>4, ReaderKeeps
  <2>6. PoolType'
    BY <1>1, <1>2, <2>2, <2>5 DEF PoolType
  <2>7. SizeInv'
    <3>1. failed' <= failed
      BY <1>1, <1>2 DEF PoolType
    <3> QED
      BY <1>1, <1>2, <1>3, <2>6, <3>1, SameSizes
  <2>8. LifeInv'
    <3>1. ASSUME NEW r \in Resources, life'[r] \in {"closing", "work"} PROVE InFlight(r)' = {}
      <4>1. InFlight(r) = {} /\ Blocked(r)
        BY <1>1, <1>2, <3>1 DEF LifeInv, Blocked
      <4>2. r # On[c]
        BY <1>4, <4>1
      <4>3. InFlight(r)' \subseteq InFlight(r)
        BY <1>1, <2>5, <2>6, <4>2, InFlightIs, InFlightIsNext
      <4> QED
        BY <4>1, <4>3
    <3>2. store' # "closed"
      BY <1>2, <1>4
    <3> QED
      BY <3>1, <3>2 DEF LifeInv
  <2> QED
    BY <2>2, <2>5, <2>6, <2>7, <2>8 DEF IInv
<1>5. CASE ~(store = "open" /\ ~Blocked(On[c]))
  <2>1. call' = [call EXCEPT ![c] = "refused"] /\ UNCHANGED <<users, admission, door>>
    BY <1>5 DEF Read, Goes
  <2>2. "refused" \in Places \ {"queued", "used"} /\ "refused" \notin Active
    BY DEF Places, Active
  <2>3. /\ TailInv' /\ WriteInv' /\ \A d \in Calls : d # c => call'[d] = call[d]
        /\ call'[c] = "refused" /\ call' \in [Calls -> Places]
    BY <1>1, <1>2, <2>1, <2>2, ReaderKeeps
  <2>4. PoolType'
    BY <1>1, <1>2, <2>1, <2>3 DEF PoolType
  <2>5. UseInv'
    BY <1>1, <1>2, <2>1, <2>3 DEF UseInv, PoolType
  <2>6. QueueInv'
    BY <1>1, <1>2, <2>1, <2>3 DEF QueueInv
  <2>7. LifeInv'
    <3>1. \A d \in Calls : call'[d] \in Active => call[d] \in Active
      BY <2>2, <2>3
    <3> QED
      BY <1>1, <1>2, <2>1, <2>4, <3>1, LifeKeeps
  <2>8. SizeInv'
    <3>1. failed' <= failed
      BY <1>1, <1>2 DEF PoolType
    <3> QED
      BY <1>1, <1>2, <1>3, <2>4, <3>1, SameSizes
  <2>9. SweepInv'
    BY <1>1, <1>2, <2>1 DEF SweepInv
  <2> QED
    BY <2>3, <2>4, <2>5, <2>6, <2>7, <2>8, <2>9 DEF IInv
<1> QED
  BY <1>4, <1>5

\* Calls that are over leave the tails; only the first of a tail is.
LEMMA LeaversKeep ==
  ASSUME PoolAssumption, PoolType, TailInv, WriteInv, NEW cs \in SUBSET Calls,
         NEW pc \in {"failed", "done"},
         \A c \in cs : call[c] \in {"admission", "using", "used"},
         \A d \in Calls : call'[d] = IF d \in cs THEN pc ELSE call[d],
         \A r \in Resources :
           tail'[r] = IF tail[r] # <<>> /\ tail[r][1] \in cs THEN Tail(tail[r]) ELSE tail[r],
         phase' = phase
  PROVE  /\ TailInv' /\ WriteInv'
         /\ \A r \in Resources : tail'[r] \in Seq(Writes)
<1>1. \A r \in Resources : tail[r] \in Seq(Writes) /\ Len(tail[r]) \in Nat
  BY DEF PoolType
<1>2. \A d \in Writes : d \in Calls /\ On[d] \in Resources
  BY DEF PoolAssumption
<1>3. ASSUME NEW r \in Resources, NEW i \in 1..Len(tail[r]), tail[r][i] \in cs
      PROVE  i = 1
  <2>1. tail[r][i] \in Writes /\ On[tail[r][i]] = r /\ 1 \in 1..Len(tail[r])
    BY <1>1, <1>3 DEF TailInv
  <2>2. tail[r][1] = tail[r][i]
    BY <1>3, <2>1 DEF WriteInv
  <2> QED
    BY <2>1, <2>2 DEF TailInv
<1>4. ASSUME NEW r \in Resources
      PROVE  /\ tail'[r] \in Seq(Writes) /\ Len(tail'[r]) \in Nat
             /\ \A i \in 1..Len(tail'[r]) : \E j \in 1..Len(tail[r]) :
                  tail'[r][i] = tail[r][j] /\ tail[r][j] \notin cs
             /\ \A i, j \in 1..Len(tail'[r]) : tail'[r][i] = tail'[r][j] => i = j
             /\ \A i \in 1..Len(tail[r]) : tail[r][i] \notin cs =>
                  \E j \in 1..Len(tail'[r]) : tail'[r][j] = tail[r][i]
             /\ (1 \in 1..Len(tail[r]) /\ tail[r][1] \notin cs => tail'[r] = tail[r])
  <2>1. PICK q \in Seq(Writes) : q = tail[r]
    BY <1>1
  <2>2. /\ \A i \in 1..Len(q) : q[i] \in cs => i = 1
        /\ \A i, j \in 1..Len(q) : q[i] = q[j] => i = j
    BY <1>3, <2>1 DEF TailInv
  <2>3. CASE q # <<>> /\ q[1] \in cs
    <3>1. tail'[r] = Tail(q)
      BY <2>1, <2>3
    <3>2. PICK p : p = Tail(q)
      OBVIOUS
    <3>3. /\ p \in Seq(Writes) /\ Len(p) \in Nat /\ Len(q) \in Nat
          /\ \A i \in 1..Len(p) : p[i] = q[i + 1] /\ i + 1 \in 1..Len(q)
          /\ \A i \in 1..Len(q) : i # 1 => i - 1 \in 1..Len(p) /\ p[i - 1] = q[i]
      BY <2>3, <3>2, Tailed
    <3>4. \A i \in 1..Len(p) : p[i] \notin cs
      <4>1. SUFFICES ASSUME NEW i \in 1..Len(p), p[i] \in cs PROVE FALSE
        OBVIOUS
      <4>2. i + 1 \in 1..Len(q) /\ q[i + 1] \in cs /\ i + 1 # 1
        BY <3>3, <4>1
      <4> QED
        BY <2>2, <4>2
    <3>5. \A i, j \in 1..Len(p) : p[i] = p[j] => i = j
      <4>1. SUFFICES ASSUME NEW i \in 1..Len(p), NEW j \in 1..Len(p), p[i] = p[j] PROVE i = j
        OBVIOUS
      <4>2. i + 1 = j + 1
        BY <2>2, <3>3, <4>1
      <4> QED
        BY <4>2
    <3>6. \A i \in 1..Len(q) : q[i] \notin cs => \E j \in 1..Len(p) : p[j] = q[i]
      BY <2>3, <3>3
    <3>7. tail'[r] = p /\ tail[r] = q
      BY <2>1, <3>1, <3>2
    <3> QED
      BY <2>3, <3>3, <3>4, <3>5, <3>6, <3>7
  <2>4. CASE ~(q # <<>> /\ q[1] \in cs)
    <3>1. tail'[r] = tail[r]
      BY <2>1, <2>4
    <3>2. \A i \in 1..Len(q) : q[i] \notin cs
      BY <2>1, <2>2, <2>4
    <3> QED
      BY <1>1, <2>1, <2>2, <3>1, <3>2
  <2> QED
    BY <2>3, <2>4
<1>5. TailInv'
  <2>1. ASSUME NEW r \in Resources
        PROVE  /\ \A i \in 1..Len(tail'[r]) : On[tail'[r][i]] = r /\ call'[tail'[r][i]] \in Active
               /\ \A i, j \in 1..Len(tail'[r]) : tail'[r][i] = tail'[r][j] => i = j
    <3>1. ASSUME NEW i \in 1..Len(tail'[r])
          PROVE  On[tail'[r][i]] = r /\ call'[tail'[r][i]] \in Active
      <4>1. PICK j \in 1..Len(tail[r]) : tail'[r][i] = tail[r][j] /\ tail[r][j] \notin cs
        BY <1>4, <3>1
      <4>2. On[tail[r][j]] = r /\ call[tail[r][j]] \in Active /\ tail[r][j] \in Calls
        BY <1>1, <1>2 DEF TailInv
      <4> QED
        BY <4>1, <4>2
    <3> QED
      BY <1>4, <3>1
  <2>2. ASSUME NEW d \in Writes, call'[d] \in Active
        PROVE  \E i \in 1..Len(tail'[On[d]]) : tail'[On[d]][i] = d
    <3>1. d \notin cs /\ call[d] \in Active
      BY <1>2, <2>2 DEF Active
    <3>2. PICK i \in 1..Len(tail[On[d]]) : tail[On[d]][i] = d
      BY <3>1 DEF TailInv
    <3> QED
      BY <1>2, <1>4, <3>1, <3>2
  <2> QED
    BY <2>1, <2>2 DEF TailInv
<1>6. WriteInv'
  <2>1. ASSUME NEW d \in Writes, call'[d] \in {"admission", "using", "used"}
        PROVE  tail'[On[d]][1] = d
    <3>1. d \notin cs /\ call[d] = call'[d]
      BY <1>2, <2>1
    <3>2. tail[On[d]][1] = d
      BY <2>1, <3>1 DEF WriteInv
    <3>3. 1 \in 1..Len(tail[On[d]])
      <4>1. \E i \in 1..Len(tail[On[d]]) : tail[On[d]][i] = d
        BY <2>1, <3>1 DEF TailInv, Active
      <4> QED
        BY <1>1, <1>2, <4>1
    <3> QED
      BY <1>2, <1>4, <3>1, <3>2, <3>3
  <2>2. \A d \in Calls : call'[d] \notin {"failed", "done"} => call'[d] = call[d]
    OBVIOUS
  <2> QED
    BY <1>2, <2>1, <2>2 DEF WriteInv
<1> QED
  BY <1>4, <1>5, <1>6

LEMMA WriteKeeps ==
  ASSUME PoolAssumption, IInv, NEW c \in Calls, Write(c) PROVE IInv'
<1>1. PoolType /\ UseInv /\ TailInv /\ WriteInv /\ QueueInv /\ LifeInv /\ SizeInv /\ SweepInv
  BY DEF IInv
<1>2. /\ c \in Writes /\ call[c] = "new" /\ call \in [Calls -> Places] /\ On[c] \in Resources
      /\ UNCHANGED <<handle, users, failed, admission, door, evicting, sweep, life, store, cut, faults,
                     sweeps>>
  BY <1>1 DEF Write, bounds, pool, queue, PoolType, PoolAssumption
<1>3. \A r \in Resources : Cached(r)' <=> Cached(r)
  BY <1>2 DEF Cached
<1>4. failed' <= failed /\ \A r \in Resources : tail[r] \in Seq(Writes) /\ Len(tail[r]) \in Nat
  BY <1>1, <1>2 DEF PoolType
<1>5. CASE store = "open" /\ ~Blocked(On[c])
  <2>1. PICK k \in {1, 2} : phase' = [phase EXCEPT ![c] = k]
    BY <1>5 DEF Write
  <2>2. PICK q \in Seq(Writes) : q = tail[On[c]]
    BY <1>2, <1>4
  <2>3. PICK p : p = Append(q, c)
    OBVIOUS
  <2>4. /\ tail' = [tail EXCEPT ![On[c]] = p] /\ call' = [call EXCEPT ![c] = "queued"]
    BY <1>5, <2>2, <2>3 DEF Write, Goes
  <2>5. /\ p \in Seq(Writes) /\ Len(p) = Len(q) + 1 /\ Len(q) \in Nat /\ p[Len(q) + 1] = c
        /\ \A i \in 1..Len(q) : p[i] = q[i]
        /\ \A i \in 1..Len(p) : i \in 1..Len(q) \/ i = Len(q) + 1
    BY <1>2, <2>2, <2>3, Appended
  <2>6. /\ call'[c] = "queued" /\ \A d \in Calls : d # c => call'[d] = call[d]
        /\ call' \in [Calls -> Places]
    BY <1>2, <2>4 DEF Places
  <2>7. phase' \in [Calls -> 0..2] /\ phase'[c] >= 1 /\ \A d \in Calls : d # c => phase'[d] = phase[d]
    BY <1>1, <2>1 DEF PoolType
  <2>8. /\ tail' \in [Resources -> Seq(Writes)] /\ tail'[On[c]] = p
        /\ \A r \in Resources : r # On[c] => tail'[r] = tail[r]
    BY <1>1, <1>2, <2>4, <2>5 DEF PoolType
  <2>9. PoolType'
    BY <1>1, <1>2, <2>6, <2>7, <2>8 DEF PoolType
  <2>10. \A r \in Resources : \A i \in 1..Len(tail[r]) : tail[r][i] # c /\ tail[r][i] \in Calls
    BY <1>1, <1>2, <1>4 DEF TailInv, Active, PoolAssumption
  <2>11. TailInv'
    <3>1. ASSUME NEW r \in Resources
          PROVE  /\ \A i \in 1..Len(tail'[r]) : On[tail'[r][i]] = r /\ call'[tail'[r][i]] \in Active
                 /\ \A i, j \in 1..Len(tail'[r]) : tail'[r][i] = tail'[r][j] => i = j
      <4>1. CASE r # On[c]
        <5>1. tail'[r] = tail[r]
          BY <2>8, <4>1
        <5>2. \A i \in 1..Len(tail[r]) :
                /\ On[tail[r][i]] = r /\ call[tail[r][i]] \in Active
                /\ call'[tail[r][i]] = call[tail[r][i]]
          BY <1>1, <2>6, <2>10 DEF TailInv
        <5>3. \A i, j \in 1..Len(tail[r]) : tail[r][i] = tail[r][j] => i = j
          BY <1>1 DEF TailInv
        <5> QED
          BY <5>1, <5>2, <5>3
      <4>2. CASE r = On[c]
        <5>1. \A i \in 1..Len(q) : q[i] # c /\ On[q[i]] = r /\ call'[q[i]] \in Active
          BY <1>1, <2>2, <2>6, <2>10, <4>2 DEF TailInv
        <5>2. \A i \in 1..Len(p) : On[p[i]] = r /\ call'[p[i]] \in Active
          BY <2>5, <2>6, <4>2, <5>1 DEF Active
        <5>3. \A i, j \in 1..Len(q) : q[i] = q[j] => i = j
          BY <1>1, <2>2, <4>2 DEF TailInv
        <5>4. \A i, j \in 1..Len(p) : p[i] = p[j] => i = j
          BY <2>5, <5>1, <5>3
        <5> QED
          BY <2>8, <4>2, <5>2, <5>4
      <4> QED
        BY <4>1, <4>2
    <3>2. ASSUME NEW d \in Writes, call'[d] \in Active
          PROVE  \E i \in 1..Len(tail'[On[d]]) : tail'[On[d]][i] = d
      <4>1. d \in Calls /\ On[d] \in Resources
        BY DEF PoolAssumption
      <4>2. CASE d = c
        BY <2>5, <2>8, <4>2
      <4>3. CASE d # c
        <5>1. PICK i \in 1..Len(tail[On[d]]) : tail[On[d]][i] = d
          BY <1>1, <2>6, <3>2, <4>1, <4>3 DEF TailInv
        <5>2. CASE On[d] = On[c]
          BY <2>2, <2>5, <2>8, <5>1, <5>2
        <5>3. CASE On[d] # On[c]
          BY <2>8, <4>1, <5>1, <5>3
        <5> QED
          BY <5>2, <5>3
      <4> QED
        BY <4>2, <4>3
    <3> QED
      BY <3>1, <3>2 DEF TailInv
  <2>12. WriteInv'
    <3>1. ASSUME NEW d \in Writes, call'[d] \in {"admission", "using", "used"}
          PROVE  tail'[On[d]][1] = d
      <4>1. d \in Calls /\ On[d] \in Resources /\ d # c /\ call[d] = call'[d]
        BY <2>6, <3>1 DEF PoolAssumption
      <4>2. tail[On[d]][1] = d /\ \E i \in 1..Len(tail[On[d]]) : tail[On[d]][i] = d
        BY <1>1, <3>1, <4>1 DEF WriteInv, TailInv, Active
      <4>3. CASE On[d] = On[c]
        <5>1. 1 \in 1..Len(q)
          BY <2>2, <2>5, <4>2, <4>3
        <5> QED
          BY <2>2, <2>5, <2>8, <4>2, <4>3, <5>1
      <4>4. CASE On[d] # On[c]
        BY <2>8, <4>1, <4>2, <4>4
      <4> QED
        BY <4>3, <4>4
    <3>2. ASSUME NEW d \in Writes, call'[d] \in {"queued", "admission", "using"} PROVE phase'[d] >= 1
      BY <1>1, <2>6, <2>7, <3>2 DEF WriteInv, PoolAssumption
    <3>3. ASSUME NEW d \in Calls, call'[d] \in {"queued", "used"} PROVE d \in Writes
      BY <1>1, <1>2, <2>6, <3>3 DEF WriteInv
    <3> QED
      BY <3>1, <3>2, <3>3 DEF WriteInv
  <2>13. UseInv' /\ QueueInv'
    BY <1>1, <1>2, <2>6 DEF UseInv, QueueInv, PoolType
  <2>14. LifeInv'
    <3>1. ASSUME NEW r \in Resources, life'[r] \in {"closing", "work"} PROVE InFlight(r)' = {}
      <4>1. InFlight(r) = {} /\ Blocked(r)
        BY <1>1, <1>2, <3>1 DEF LifeInv, Blocked
      <4>2. r # On[c]
        BY <1>5, <4>1
      <4>3. InFlight(r)' \subseteq InFlight(r)
        BY <1>1, <2>6, <2>9, <4>2, InFlightIs, InFlightIsNext
      <4> QED
        BY <4>1, <4>3
    <3>2. store' # "closed"
      BY <1>2, <1>5
    <3> QED
      BY <3>1, <3>2 DEF LifeInv
  <2>15. SizeInv'
    BY <1>1, <1>2, <1>3, <1>4, <2>9, SameSizes
  <2>16. SweepInv'
    BY <1>1, <1>2 DEF SweepInv
  <2> QED
    BY <2>9, <2>11, <2>12, <2>13, <2>14, <2>15, <2>16 DEF IInv
<1>6. CASE ~(store = "open" /\ ~Blocked(On[c]))
  <2>1. call' = [call EXCEPT ![c] = "refused"] /\ UNCHANGED <<tail, phase>>
    BY <1>6 DEF Write, Goes
  <2>2. /\ call'[c] = "refused" /\ \A d \in Calls : d # c => call'[d] = call[d]
        /\ call' \in [Calls -> Places] /\ "refused" \notin Active
    BY <1>2, <2>1 DEF Places, Active
  <2>3. PoolType'
    BY <1>1, <1>2, <2>1, <2>2 DEF PoolType
  <2>4. UseInv' /\ QueueInv'
    BY <1>1, <1>2, <2>2 DEF UseInv, QueueInv, PoolType
  <2>5. TailInv'
    <3>1. \A d \in Writes : d \in Calls /\ (call'[d] \in Active <=> call[d] \in Active)
      BY <1>2, <2>2 DEF PoolAssumption, Active
    <3>2. \A r \in Resources : \A i \in 1..Len(tail[r]) : tail[r][i] \in Writes
      BY <1>4
    <3> QED
      BY <1>1, <2>1, <3>1, <3>2 DEF TailInv
  <2>6. WriteInv'
    BY <1>1, <1>2, <2>1, <2>2 DEF WriteInv, PoolAssumption
  <2>7. LifeInv'
    <3>1. \A d \in Calls : call'[d] \in Active => call[d] \in Active
      BY <2>2
    <3> QED
      BY <1>1, <1>2, <2>3, <3>1, LifeKeeps
  <2>8. SizeInv'
    BY <1>1, <1>2, <1>3, <1>4, <2>3, SameSizes
  <2>9. SweepInv'
    BY <1>1, <1>2 DEF SweepInv
  <2> QED
    BY <2>3, <2>4, <2>5, <2>6, <2>7, <2>8, <2>9 DEF IInv
<1> QED
  BY <1>5, <1>6

\* A write that has its turn, or goes on to its next phase.
LEMMA TurnKeeps ==
  ASSUME PoolAssumption, IInv, NEW c \in Calls, call[c] \in {"queued", "used"}, c \in Writes,
         tail[On[c]][1] = c, phase[c] >= 1, Acquires(c),
         UNCHANGED <<handle, failed, phase, tail, evicting, sweep, life, store, cut, faults, sweeps>>
  PROVE  IInv'
<1>1. PoolType /\ UseInv /\ TailInv /\ WriteInv /\ QueueInv /\ LifeInv /\ SizeInv /\ SweepInv
  BY DEF IInv
<1>2. /\ users' \in [Resources -> SUBSET Calls] /\ admission' \in Seq(Calls \cup {"sweep"})
      /\ door' \in {"shut", "check", "evict", "evicting", "parked", "sweeping"}
      /\ \E pc \in {"using", "admission"} : call' = [call EXCEPT ![c] = pc]
      /\ UseInv' /\ QueueInv' /\ SweepInv'
  BY AcquireKeeps
<1>3. PICK pc \in {"using", "admission"} : call' = [call EXCEPT ![c] = pc]
  BY <1>2
<1>4. Moves(c, pc)
  BY <1>3 DEF Moves, Active
<1>5. /\ TailInv' /\ \A d \in Calls : d # c => call'[d] = call[d]
      /\ call'[c] = pc /\ call' \in [Calls -> Places]
      /\ \A d \in Calls : call'[d] \in Active <=> call[d] \in Active
  BY <1>1, <1>4, MovesTail
<1>6. PoolType'
  BY <1>1, <1>2, <1>5 DEF PoolType
<1>7. WriteInv'
  <2>1. \A d \in Writes : d \in Calls
    BY DEF PoolAssumption
  <2> QED
    BY <1>1, <1>5, <2>1 DEF WriteInv
<1>8. LifeInv'
  <2>1. store # "closed"
    BY <1>1, OpenStore DEF Active
  <2> QED
    BY <1>1, <1>5, <1>6, <2>1, LifeKeeps
<1>9. SizeInv'
  <2>1. failed' <= failed /\ \A r \in Resources : Cached(r)' <=> Cached(r)
    BY <1>1 DEF PoolType, Cached
  <2> QED
    BY <1>1, <1>6, <2>1, SameSizes
<1> QED
  BY <1>2, <1>5, <1>6, <1>7, <1>8, <1>9 DEF IInv

LEMMA WriteTurnKeeps ==
  ASSUME PoolAssumption, IInv, NEW c \in Calls, WriteTurn(c) PROVE IInv'
<1>1. /\ call[c] = "queued" /\ Head(tail[On[c]]) = c /\ Acquires(c)
      /\ UNCHANGED <<handle, failed, phase, tail, evicting, sweep, life, store, cut, faults, sweeps>>
  BY DEF WriteTurn, bounds
<1>2. c \in Writes /\ phase[c] >= 1 /\ \E i \in 1..Len(tail[On[c]]) : tail[On[c]][i] = c
  BY <1>1 DEF IInv, WriteInv, TailInv, Active
<1>3. tail[On[c]] \in Seq(Writes) /\ tail[On[c]] # <<>>
  BY <1>2 DEF IInv, PoolType, PoolAssumption
<1>4. tail[On[c]][1] = c
  BY <1>1, <1>3, Tailed
<1> QED
  BY <1>1, <1>2, <1>4, TurnKeeps

LEMMA NextPhaseKeeps ==
  ASSUME PoolAssumption, IInv, NEW c \in Calls, NextPhase(c) PROVE IInv'
<1>1. /\ call[c] = "used" /\ phase[c] > 0 /\ Acquires(c)
      /\ UNCHANGED <<handle, failed, phase, tail, evicting, sweep, life, store, cut, faults, sweeps>>
  BY DEF NextPhase, bounds
<1>2. c \in Writes /\ tail[On[c]][1] = c /\ phase[c] \in 0..2
  BY <1>1 DEF IInv, WriteInv, PoolType
<1> QED
  BY <1>1, <1>2, TurnKeeps

\* Waking the waiting head changes nothing else.
LEMMA NotifiedKeeps ==
  ASSUME PoolType, QueueInv, NEW d \in {door, Notified}
  PROVE  /\ d \in {"shut", "check", "evict", "evicting", "parked", "sweeping"}
         /\ d = "shut" <=> door = "shut"
         /\ d \in {"evict", "evicting", "parked", "sweeping"} => d = door
         /\ door \in {"evicting", "sweeping"} => d = door
BY DEF PoolType, Notified

LEMMA EndUseKeeps ==
  ASSUME PoolAssumption, IInv, NEW c \in Calls, EndUse(c) PROVE IInv'
<1>1. PoolType /\ UseInv /\ TailInv /\ WriteInv /\ QueueInv /\ LifeInv /\ SizeInv /\ SweepInv
  BY DEF IInv
<1>2. /\ call[c] = "using" /\ users' = [users EXCEPT ![On[c]] = @ \ {c}] /\ door' = Notified
      /\ failed' \in {0, failed} /\ call \in [Calls -> Places] /\ On[c] \in Resources
      /\ UNCHANGED <<handle, tail, admission, evicting, sweep, life, store, cut, faults, sweeps>>
  BY <1>1 DEF EndUse, bounds, PoolType, PoolAssumption
<1>3. failed' \in Nat /\ failed' <= failed /\ \A r \in Resources : Cached(r)' <=> Cached(r)
  BY <1>1, <1>2 DEF PoolType, Cached
<1>4. /\ users' \in [Resources -> SUBSET Calls]
      /\ \A r \in Resources : users'[r] = IF r = On[c] THEN users[r] \ {c} ELSE users[r]
  BY <1>1, <1>2 DEF PoolType
<1>5. /\ TailInv' /\ WriteInv' /\ phase' \in [Calls -> 0..2] /\ call' \in [Calls -> Places]
      /\ \A d \in Calls : d # c => call'[d] = call[d]
      /\ \A d \in Calls : call'[d] \in Active => call[d] \in Active
  <2>1. CASE c \in Writes
    <3>1. PICK k : k = IF c \in cut THEN 0 ELSE phase[c] - 1
      OBVIOUS
    <3>2. call' = [call EXCEPT ![c] = "used"] /\ phase' = [phase EXCEPT ![c] = k]
      BY <2>1, <3>1 DEF EndUse, Goes
    <3>3. phase[c] >= 1 /\ phase[c] \in 0..2
      BY <1>1, <1>2, <2>1 DEF WriteInv, PoolType
    <3>4. k \in 0..2
      BY <3>1, <3>3
    <3>5. phase' \in [Calls -> 0..2] /\ \A d \in Calls : d # c => phase'[d] = phase[d]
      BY <1>1, <3>2, <3>4 DEF PoolType
    <3>6. Moves(c, "used")
      BY <1>2, <3>2 DEF Moves, Active
    <3>7. /\ TailInv' /\ \A d \in Calls : d # c => call'[d] = call[d]
          /\ call'[c] = "used" /\ call' \in [Calls -> Places]
          /\ \A d \in Calls : call'[d] \in Active <=> call[d] \in Active
      BY <1>1, <3>6, MovesTail
    <3>8. \A d \in Writes : d \in Calls
      BY DEF PoolAssumption
    <3>9. WriteInv'
      BY <1>1, <1>2, <2>1, <3>5, <3>7, <3>8 DEF WriteInv
    <3> QED
      BY <3>5, <3>7, <3>9
  <2>2. CASE c \notin Writes
    <3>1. PICK pc \in {"failed", "done"} : call' = [call EXCEPT ![c] = pc] /\ phase' = phase
      BY <2>2 DEF EndUse, Goes
    <3>2. pc \in Places \ {"queued", "used"} /\ pc \notin Active
      BY DEF Places, Active
    <3>3. /\ TailInv' /\ WriteInv' /\ \A d \in Calls : d # c => call'[d] = call[d]
          /\ call'[c] = pc /\ call' \in [Calls -> Places]
      BY <1>1, <1>2, <2>2, <3>1, <3>2, ReaderKeeps
    <3>4. phase' \in [Calls -> 0..2]
      BY <1>1, <3>1 DEF PoolType
    <3> QED
      BY <3>2, <3>3, <3>4
  <2> QED
    BY <2>1, <2>2
<1>6. /\ door' \in {"shut", "check", "evict", "evicting", "parked", "sweeping"}
      /\ door' = "shut" <=> door = "shut"
      /\ door' \in {"evict", "evicting", "parked", "sweeping"} => door' = door
      /\ door \in {"evicting", "sweeping"} => door' = door
  BY <1>1, <1>2, NotifiedKeeps
<1>7. PoolType'
  BY <1>1, <1>2, <1>3, <1>4, <1>5, <1>6 DEF PoolType
<1>8. UseInv'
  BY <1>1, <1>2, <1>4, <1>5 DEF UseInv, PoolType
<1>9. QueueInv'
  <2>1. \A i \in 1..Len(admission) : admission[i] \in Calls => call'[admission[i]] = "admission"
    BY <1>1, <1>2, <1>5 DEF QueueInv
  <2> QED
    BY <1>1, <1>2, <1>6, <2>1 DEF QueueInv
<1>10. LifeInv'
  <2>1. store # "closed"
    BY <1>1, <1>2, OpenStore DEF Active
  <2> QED
    BY <1>1, <1>2, <1>5, <1>7, <2>1, LifeKeeps
<1>11. SizeInv'
  BY <1>1, <1>2, <1>3, <1>7, SameSizes
<1>12. SweepInv'
  BY <1>1, <1>2 DEF SweepInv
<1> QED
  BY <1>5, <1>7, <1>8, <1>9, <1>10, <1>11, <1>12 DEF IInv

LEMMA WriteSettlesKeeps ==
  ASSUME PoolAssumption, IInv, NEW c \in Calls, WriteSettles(c) PROVE IInv'
<1>1. PoolType /\ UseInv /\ TailInv /\ WriteInv /\ QueueInv /\ LifeInv /\ SizeInv /\ SweepInv
  BY DEF IInv
<1>2. PICK pc \in {"failed", "done"} : call' = [call EXCEPT ![c] = pc]
  BY DEF WriteSettles, Goes
<1>3. /\ call[c] = "used" /\ phase[c] = 0 /\ tail' = [tail EXCEPT ![On[c]] = Tail(@)]
      /\ call \in [Calls -> Places] /\ On[c] \in Resources /\ c \in Writes
      /\ UNCHANGED <<handle, users, phase, admission, evicting, sweep, life, store, cut, faults, sweeps>>
  BY <1>1 DEF WriteSettles, bounds, PoolType, PoolAssumption, WriteInv
<1>4. failed' \in {0, failed} /\ door' \in {door, Notified}
  BY DEF WriteSettles
<1>5. failed' \in Nat /\ failed' <= failed /\ \A r \in Resources : Cached(r)' <=> Cached(r)
  BY <1>1, <1>3, <1>4 DEF PoolType, Cached
<1>6. /\ \A d \in Calls : call'[d] = IF d \in {c} THEN pc ELSE call[d]
      /\ call' \in [Calls -> Places]
  BY <1>2, <1>3 DEF Places
<1>7. ASSUME NEW r \in Resources
      PROVE  tail'[r] = IF tail[r] # <<>> /\ tail[r][1] \in {c} THEN Tail(tail[r]) ELSE tail[r]
  <2>1. tail \in [Resources -> Seq(Writes)] /\ tail[r] \in Seq(Writes)
    BY <1>1 DEF PoolType
  <2>2. CASE r = On[c]
    <3>1. tail[r][1] = c /\ \E i \in 1..Len(tail[r]) : tail[r][i] = c
      BY <1>1, <1>3, <2>2 DEF WriteInv, TailInv, Active
    <3>2. tail[r] # <<>>
      BY <2>1, <3>1
    <3> QED
      BY <1>3, <2>1, <2>2, <3>1, <3>2
  <2>3. CASE r # On[c]
    <3>1. ASSUME tail[r] # <<>> PROVE tail[r][1] # c
      <4>1. 1 \in 1..Len(tail[r])
        BY <2>1, <3>1, Tailed
      <4> QED
        BY <1>1, <2>3, <4>1 DEF TailInv
    <3> QED
      BY <1>3, <2>1, <2>3, <3>1
  <2> QED
    BY <2>2, <2>3
<1>8. TailInv' /\ WriteInv' /\ \A r \in Resources : tail'[r] \in Seq(Writes)
  <2>1. /\ {c} \in SUBSET Calls /\ \A d \in {c} : call[d] \in {"admission", "using", "used"}
        /\ phase' = phase
    BY <1>3
  <2>2. PICK cs : cs = {c}
    OBVIOUS
  <2>3. /\ \A d \in Calls : call'[d] = IF d \in cs THEN pc ELSE call[d]
        /\ \A r \in Resources :
             tail'[r] = IF tail[r] # <<>> /\ tail[r][1] \in cs THEN Tail(tail[r]) ELSE tail[r]
    BY Zenon, <1>6, <1>7, <2>2
  <2>4. cs \in SUBSET Calls /\ \A d \in cs : call[d] \in {"admission", "using", "used"}
    BY Zenon, <2>1, <2>2
  <2> HIDE <2>2
  <2> QED
    BY <1>1, <2>1, <2>3, <2>4, LeaversKeep
<1>9. tail' \in [Resources -> Seq(Writes)]
  BY <1>1, <1>3, <1>8 DEF PoolType
<1>10. /\ door' \in {"shut", "check", "evict", "evicting", "parked", "sweeping"}
       /\ door' = "shut" <=> door = "shut"
       /\ door' \in {"evict", "evicting", "parked", "sweeping"} => door' = door
       /\ door \in {"evicting", "sweeping"} => door' = door
  BY <1>1, <1>4, NotifiedKeeps
<1>11. PoolType'
  BY <1>1, <1>3, <1>5, <1>6, <1>9, <1>10 DEF PoolType
<1>12. UseInv'
  BY <1>1, <1>3, <1>6 DEF UseInv, PoolType
<1>13. QueueInv'
  <2>1. \A i \in 1..Len(admission) : admission[i] \in Calls => call'[admission[i]] = "admission"
    BY <1>1, <1>3, <1>6 DEF QueueInv
  <2> QED
    BY <1>1, <1>3, <1>10, <2>1 DEF QueueInv
<1>14. LifeInv'
  <2>1. store # "closed"
    BY <1>1, <1>3, OpenStore DEF Active
  <2>2. \A d \in Calls : call'[d] \in Active => call[d] \in Active
    BY <1>6 DEF Active
  <2> QED
    BY <1>1, <1>3, <1>11, <2>1, <2>2, LifeKeeps
<1>15. SizeInv'
  BY <1>1, <1>3, <1>5, <1>11, SameSizes
<1>16. SweepInv'
  BY <1>1, <1>3 DEF SweepInv
<1> QED
  BY <1>8, <1>11, <1>12, <1>13, <1>14, <1>15, <1>16 DEF IInv

-----------------------------------------------------------------------------
(***************************************************************************)
(* The queue of admission.                                                 *)
(***************************************************************************)
\* The head of the queue leaves; nobody else in it has moved.
LEMMA HeadLeaves ==
  ASSUME PoolAssumption, PoolType, QueueInv, SweepInv, admission # <<>>, Leaves, evicting' = {},
         \A d \in Calls : d # admission[1] /\ call[d] = "admission" => call'[d] = "admission"
  PROVE  /\ admission' \in Seq(Calls \cup {"sweep"}) /\ door' \in {"check", "shut"} /\ QueueInv'
         /\ sweeps = 0 => \A i \in 1..Len(admission') : admission'[i] # "sweep"
<1>1. PICK q \in Seq(Calls \cup {"sweep"}) : q = admission
  BY DEF PoolType
<1>2. PICK p : p = Tail(q)
  OBVIOUS
<1>3. /\ p \in Seq(Calls \cup {"sweep"}) /\ Len(q) \in Nat /\ Len(q) >= 1 /\ Len(p) = Len(q) - 1
      /\ 1 \in 1..Len(q)
      /\ \A i \in 1..Len(p) : p[i] = q[i + 1] /\ i + 1 \in 1..Len(q)
  BY <1>1, <1>2, Tailed
<1>4. admission' = p /\ door' = IF Len(q) > 1 THEN "check" ELSE "shut"
  BY <1>1, <1>2 DEF Leaves
<1>5. ASSUME NEW i \in 1..Len(p), p[i] \in Calls PROVE call'[p[i]] = "admission" /\ p[i] # q[1]
  <2>1. PICK j : j = i + 1 /\ j \in 1..Len(q) /\ j # 1 /\ q[j] = p[i]
    BY <1>3
  <2>2. q[j] # q[1] /\ call[q[j]] = "admission"
    BY <1>1, <1>3, <1>5, <2>1 DEF QueueInv
  <2> QED
    BY <1>1, <1>5, <2>1, <2>2
<1>6. ASSUME NEW i \in 1..Len(p), NEW j \in 1..Len(p), p[i] \in Calls, p[i] = p[j] PROVE i = j
  <2>1. i + 1 = j + 1
    BY <1>1, <1>3, <1>6 DEF QueueInv
  <2> QED
    BY <2>1
<1>7. p = <<>> <=> door' = "shut"
  BY <1>3, <1>4
<1>8. QueueInv'
  BY <1>4, <1>5, <1>6, <1>7 DEF QueueInv
<1>9. ASSUME sweeps = 0 PROVE \A i \in 1..Len(p) : p[i] # "sweep"
  BY <1>1, <1>3, <1>9 DEF SweepInv
<1> QED
  BY <1>3, <1>4, <1>8, <1>9

\* The first in the queue, when it is a call.
LEMMA HeadWaits ==
  ASSUME PoolAssumption, PoolType, QueueInv, admission # <<>>
  PROVE  /\ admission[1] \in Calls \cup {"sweep"} /\ 1 \in 1..Len(admission)
         /\ admission[1] # "sweep" => /\ admission[1] \in Calls /\ call[admission[1]] = "admission"
                                      /\ On[admission[1]] \in Resources
<1>1. admission \in Seq(Calls \cup {"sweep"})
  BY DEF PoolType
<1>2. admission[1] \in Calls \cup {"sweep"} /\ 1 \in 1..Len(admission)
  BY <1>1, Tailed
<1> QED
  BY <1>2 DEF QueueInv, PoolAssumption

\* A call that is let in goes from the queue to its database.
LEMMA LetIn ==
  ASSUME PoolAssumption, IInv, NEW c \in Calls, call[c] = "admission", Goes(c, "using"),
         UNCHANGED <<tail, phase>>
  PROVE  /\ TailInv' /\ WriteInv' /\ \A d \in Calls : d # c => call'[d] = call[d]
         /\ call'[c] = "using" /\ call' \in [Calls -> Places]
         /\ \A d \in Calls : call'[d] \in Active => call[d] \in Active
<1>1. PoolType /\ TailInv /\ WriteInv
  BY DEF IInv
<1>2. Moves(c, "using")
  BY DEF Moves, Goes, Active
<1>3. /\ TailInv' /\ \A d \in Calls : d # c => call'[d] = call[d]
      /\ call'[c] = "using" /\ call' \in [Calls -> Places]
      /\ \A d \in Calls : call'[d] \in Active <=> call[d] \in Active
  BY <1>1, <1>2, MovesTail
<1>4. \A d \in Writes : d \in Calls
  BY DEF PoolAssumption
<1>5. WriteInv'
  BY <1>1, <1>3, <1>4 DEF WriteInv
<1> QED
  BY <1>3, <1>5

LEMMA AdmitCachedKeeps ==
  ASSUME PoolAssumption, IInv, AdmitCached PROVE IInv'
<1>1. PoolType /\ UseInv /\ TailInv /\ WriteInv /\ QueueInv /\ LifeInv /\ SizeInv /\ SweepInv
  BY DEF IInv
<1>2. PICK c \in Calls : c = admission[1] /\ call[c] = "admission" /\ On[c] \in Resources
  BY <1>1, HeadWaits DEF AdmitCached, AtDoor
<1>3. /\ Cached(On[c]) /\ users' = [users EXCEPT ![On[c]] = @ \cup {c}] /\ Goes(c, "using") /\ Leaves
      /\ admission # <<>> /\ door = "check"
      /\ UNCHANGED <<handle, failed, phase, tail, evicting, sweep, life, store, cut, faults, sweeps>>
  BY <1>2 DEF AdmitCached, AtDoor, bounds
<1>4. /\ TailInv' /\ WriteInv' /\ \A d \in Calls : d # c => call'[d] = call[d]
      /\ call'[c] = "using" /\ call' \in [Calls -> Places]
      /\ \A d \in Calls : call'[d] \in Active => call[d] \in Active
  BY <1>2, <1>3, LetIn
<1>5. evicting' = {}
  BY <1>1, <1>3 DEF QueueInv
<1>6. /\ admission' \in Seq(Calls \cup {"sweep"}) /\ door' \in {"check", "shut"} /\ QueueInv'
      /\ sweeps = 0 => \A i \in 1..Len(admission') : admission'[i] # "sweep"
  BY <1>1, <1>2, <1>3, <1>4, <1>5, HeadLeaves
<1>7. /\ users' \in [Resources -> SUBSET Calls]
      /\ \A r \in Resources : users'[r] = IF r = On[c] THEN users[r] \cup {c} ELSE users[r]
  BY <1>1, <1>3 DEF PoolType
<1>8. PoolType'
  BY <1>1, <1>3, <1>4, <1>6, <1>7 DEF PoolType
<1>9. UseInv'
  <2>1. ASSUME NEW r \in Resources
        PROVE  /\ handle[r] = "none" => users'[r] = {}
               /\ \A d \in users'[r] : On[d] = r /\ call'[d] = "using"
    BY <1>1, <1>2, <1>3, <1>4, <1>7 DEF UseInv, Cached, PoolType
  <2> QED
    BY <1>3, <2>1 DEF UseInv
<1>10. LifeInv'
  <2>1. store # "closed"
    BY <1>1, <1>3, OpenStore
  <2> QED
    BY <1>1, <1>3, <1>4, <1>8, <2>1, LifeKeeps
<1>11. SizeInv'
  <2>1. failed' <= failed /\ \A r \in Resources : Cached(r)' <=> Cached(r)
    BY <1>1, <1>3 DEF PoolType, Cached
  <2> QED
    BY <1>1, <1>3, <1>8, <2>1, SameSizes
<1>12. SweepInv'
  BY <1>1, <1>3, <1>6 DEF SweepInv
<1> QED
  BY <1>4, <1>6, <1>8, <1>9, <1>10, <1>11, <1>12 DEF IInv

\* The sum of the open databases, as OpenCount adds it up.
LEMMA SizesAre ==
  /\ CachedOnes = {r \in Resources : Cached(r)} /\ ClosingOnes = {r \in Resources : life[r] = "closing"}
  /\ OpenCount = Cardinality(CachedOnes) + failed + (Cardinality(ClosingOnes) + Cardinality(evicting))
BY DEF CachedOnes, ClosingOnes, OpenCount, Closing

LEMMA AdmitOpeningKeeps ==
  ASSUME PoolAssumption, IInv, AdmitOpening PROVE IInv'
<1>1. PoolType /\ UseInv /\ TailInv /\ WriteInv /\ QueueInv /\ LifeInv /\ SizeInv /\ SweepInv
  BY DEF IInv
<1>2. PICK c \in Calls : c = admission[1] /\ call[c] = "admission" /\ On[c] \in Resources
  BY <1>1, HeadWaits DEF AdmitOpening, AtDoor
<1>3. /\ ~Cached(On[c]) /\ users' = [users EXCEPT ![On[c]] = {c}] /\ Goes(c, "using") /\ Leaves
      /\ handle' = [handle EXCEPT ![On[c]] = "opening"] /\ OpenCount < MaxOpen
      /\ admission # <<>> /\ door = "check"
      /\ UNCHANGED <<failed, phase, tail, evicting, sweep, life, store, cut, faults, sweeps>>
  BY <1>2 DEF AdmitOpening, AtDoor, bounds
<1>4. /\ TailInv' /\ WriteInv' /\ \A d \in Calls : d # c => call'[d] = call[d]
      /\ call'[c] = "using" /\ call' \in [Calls -> Places]
      /\ \A d \in Calls : call'[d] \in Active => call[d] \in Active
  BY <1>2, <1>3, LetIn
<1>5. evicting' = {}
  BY <1>1, <1>3 DEF QueueInv
<1>6. /\ admission' \in Seq(Calls \cup {"sweep"}) /\ door' \in {"check", "shut"} /\ QueueInv'
      /\ sweeps = 0 => \A i \in 1..Len(admission') : admission'[i] # "sweep"
  BY <1>1, <1>2, <1>3, <1>4, <1>5, HeadLeaves
<1>7. /\ users' \in [Resources -> SUBSET Calls]
      /\ \A r \in Resources : users'[r] = IF r = On[c] THEN {c} ELSE users[r]
      /\ handle' \in [Resources -> {"none", "opening", "open"}]
      /\ \A r \in Resources : handle'[r] = IF r = On[c] THEN "opening" ELSE handle[r]
  BY <1>1, <1>3 DEF PoolType
<1>8. PoolType'
  BY <1>1, <1>3, <1>4, <1>6, <1>7 DEF PoolType
<1>9. UseInv'
  <2>1. ASSUME NEW r \in Resources
        PROVE  /\ handle'[r] = "none" => users'[r] = {}
               /\ \A d \in users'[r] : On[d] = r /\ call'[d] = "using"
    BY <1>1, <1>2, <1>4, <1>7 DEF UseInv, PoolType
  <2> QED
    BY <2>1 DEF UseInv
<1>10. LifeInv'
  <2>1. store # "closed"
    BY <1>1, <1>3, OpenStore
  <2> QED
    BY <1>1, <1>3, <1>4, <1>8, <2>1, LifeKeeps
<1>11. SizeInv'
  <2>1. CachedOnes' = CachedOnes \cup {On[c]} /\ On[c] \notin CachedOnes
    BY <1>2, <1>3, <1>7 DEF CachedOnes, Cached
  <2>2. ClosingOnes' = ClosingOnes /\ evicting' = evicting /\ failed' = failed
    BY <1>3 DEF ClosingOnes
  <2>3. IsFiniteSet(CachedOnes') /\ Cardinality(CachedOnes') = Cardinality(CachedOnes) + 1
    BY <1>1, <2>1, Added DEF SizeInv
  <2>4. Cardinality(CachedOnes) + failed + (Cardinality(ClosingOnes) + Cardinality(evicting)) < MaxOpen
    BY <1>3, SizesAre
  <2>5. /\ Cardinality(CachedOnes) \in Nat /\ Cardinality(ClosingOnes) \in Nat
        /\ Cardinality(evicting) \in Nat /\ failed \in Nat /\ MaxOpen \in Nat
    BY <1>1, Sizes DEF PoolType, PoolAssumption
  <2>6. (Cardinality(CachedOnes) + 1) + failed + (Cardinality(ClosingOnes) + Cardinality(evicting)) <= MaxOpen
    BY <2>4, <2>5
  <2> QED
    BY <1>1, <2>2, <2>3, <2>6 DEF SizeInv
<1>12. SweepInv'
  BY <1>1, <1>3, <1>6 DEF SweepInv
<1> QED
  BY <1>4, <1>6, <1>8, <1>9, <1>10, <1>11, <1>12 DEF IInv

\* Steps of the door that move no call and no write, and no database either.
LEMMA QuietDoor ==
  ASSUME PoolAssumption, IInv, admission # <<>>, failed' \in {0, failed},
         door' \in {"shut", "check", "evict", "evicting", "parked", "sweeping"}, door' # "shut",
         door' \in {"evict", "evicting", "parked"} => admission[1] \in Calls,
         door' = "sweeping" => admission[1] = "sweep",
         evicting # {} => door' = door, door' = "evicting" => evicting # {},
         sweep' \subseteq sweep, faults' \in Nat,
         UNCHANGED <<handle, users, call, phase, tail, admission, evicting, life, store, cut, sweeps>>
  PROVE  IInv'
<1>1. PoolType /\ UseInv /\ TailInv /\ WriteInv /\ QueueInv /\ LifeInv /\ SizeInv /\ SweepInv
  BY DEF IInv
<1>2. failed' \in Nat /\ failed' <= failed /\ \A r \in Resources : Cached(r)' <=> Cached(r)
  BY <1>1 DEF PoolType, Cached
<1>3. sweep' \subseteq Resources
  BY <1>1 DEF PoolType
<1>4. PoolType'
  BY <1>1, <1>2, <1>3 DEF PoolType
<1>5. UseInv' /\ TailInv' /\ WriteInv'
  BY <1>1 DEF UseInv, TailInv, WriteInv
<1>6. QueueInv'
  BY <1>1 DEF QueueInv
<1>7. LifeInv'
  <2>1. store # "closed"
    BY <1>1, OpenStore
  <2> QED
    BY <1>1, <1>4, <2>1, LifeKeeps
<1>8. SizeInv'
  BY <1>1, <1>2, <1>4, SameSizes
<1>9. SweepInv'
  BY <1>1 DEF SweepInv
<1> QED
  BY <1>4, <1>5, <1>6, <1>7, <1>8, <1>9 DEF IInv

LEMMA BoundsAre ==
  ASSUME PoolType
  PROVE  /\ Fine => faults' = faults /\ sweeps' = sweeps /\ faults' \in Nat
         /\ Fault => sweeps' = sweeps /\ faults' \in Nat
BY DEF Fine, Fault, bounds, PoolType

\* The head of the queue, when the queue is full for it.
LEMMA HeadIsCall ==
  ASSUME PoolAssumption, IInv, admission # <<>>,
         Full \/ door \in {"evict", "evicting", "parked"}
  PROVE  admission[1] \in Calls /\ admission[1] # "sweep"
<1>1. PoolType /\ QueueInv
  BY DEF IInv
<1>2. CASE Full
  BY <1>1, <1>2, HeadWaits DEF Full, AtDoor
<1>3. CASE door \in {"evict", "evicting", "parked"}
  BY <1>1, <1>3 DEF QueueInv, PoolAssumption
<1> QED
  BY <1>2, <1>3

LEMMA RetryClosesKeeps ==
  ASSUME PoolAssumption, IInv, RetryCloses PROVE IInv'
<1>1. PoolType /\ QueueInv
  BY DEF IInv
<1>2. /\ Full /\ admission # <<>> /\ door = "check" /\ failed' \in {0, failed} /\ door' \in {"check", "evict"}
      /\ UNCHANGED <<handle, users, call, phase, tail, admission, evicting, sweep, life, store, cut>>
  BY DEF RetryCloses, Full, AtDoor
<1>3. sweeps' = sweeps /\ faults' \in Nat
  BY <1>1, BoundsAre DEF RetryCloses
<1>4. admission[1] \in Calls
  BY <1>2, HeadIsCall
<1>5. evicting = {}
  BY <1>1, <1>2 DEF QueueInv
<1> QED
  BY <1>2, <1>3, <1>4, <1>5, QuietDoor

LEMMA ParkKeeps ==
  ASSUME PoolAssumption, IInv, Park PROVE IInv'
<1>1. PoolType /\ QueueInv
  BY DEF IInv
<1>2. /\ admission # <<>> /\ door' = "parked"
      /\ UNCHANGED <<handle, users, failed, call, phase, tail, admission, evicting, sweep, life, store, cut,
                     faults, sweeps>>
  BY DEF Park, Full, AtDoor, pool, bounds
<1>3. admission # <<>> /\ door' = "parked" /\ (Full \/ door = "evict") /\ door \in {"check", "evict"}
  BY DEF Park, Full, AtDoor
<1>4. admission[1] \in Calls
  BY <1>3, HeadIsCall
<1>5. evicting = {} /\ faults' \in Nat
  BY <1>1, <1>2, <1>3 DEF QueueInv, PoolType
<1> QED
  BY <1>2, <1>3, <1>4, <1>5, QuietDoor

-----------------------------------------------------------------------------
(***************************************************************************)
(* Handles that leave the cache.                                           *)
(***************************************************************************)
LEMMA Dropped ==
  ASSUME PoolAssumption, IInv, NEW r \in Resources, Cached(r), Drops(r), UNCHANGED call
  PROVE  /\ UseInv' /\ handle' \in [Resources -> {"none", "opening", "open"}]
         /\ users' \in [Resources -> SUBSET Calls] /\ cut' \subseteq Calls
         /\ \A s \in Resources : Cached(s)' => Cached(s)
         /\ IsFiniteSet(CachedOnes') /\ Cardinality(CachedOnes') = Cardinality(CachedOnes) - 1
         /\ users[r] = {} => cut' = cut
<1>1. PoolType /\ UseInv /\ SizeInv
  BY DEF IInv
<1>2. /\ handle' = [handle EXCEPT ![r] = "none"] /\ users' = [users EXCEPT ![r] = {}]
      /\ cut' = cut \cup users[r]
  BY DEF Drops
<1>3. /\ handle' \in [Resources -> {"none", "opening", "open"}] /\ users' \in [Resources -> SUBSET Calls]
      /\ \A s \in Resources : /\ handle'[s] = IF s = r THEN "none" ELSE handle[s]
                              /\ users'[s] = IF s = r THEN {} ELSE users[s]
      /\ cut' \subseteq Calls
  BY <1>1, <1>2 DEF PoolType
<1>4. UseInv'
  BY <1>1, <1>3 DEF UseInv
<1>5. CachedOnes' = CachedOnes \ {r} /\ r \in CachedOnes
  BY <1>3 DEF CachedOnes, Cached
<1>6. IsFiniteSet(CachedOnes') /\ Cardinality(CachedOnes') = Cardinality(CachedOnes) - 1
  BY <1>1, <1>5, Removed DEF SizeInv
<1>7. \A s \in Resources : Cached(s)' => Cached(s)
  BY <1>3 DEF Cached
<1> QED
  BY <1>2, <1>3, <1>4, <1>6, <1>7

\* A database whose handle left the cache is closed by the door.
LEMMA DoorCloses ==
  ASSUME PoolAssumption, IInv, NEW r \in Resources, Cached(r), Drops(r), evicting = {}, evicting' = {r},
         admission # <<>>, failed' \in {0, failed}, door' \in {"evicting", "sweeping"},
         door' = "evicting" => admission[1] \in Calls, door' = "sweeping" => admission[1] = "sweep",
         sweep' \subseteq Resources,
         sweeps = 0 => users[r] = {} /\ sweep' = {},
         UNCHANGED <<call, phase, tail, admission, life, store, faults, sweeps>>
  PROVE  IInv'
<1>1. PoolType /\ UseInv /\ TailInv /\ WriteInv /\ QueueInv /\ LifeInv /\ SizeInv /\ SweepInv
  BY DEF IInv
<1>2. /\ UseInv' /\ handle' \in [Resources -> {"none", "opening", "open"}]
      /\ users' \in [Resources -> SUBSET Calls] /\ cut' \subseteq Calls
      /\ IsFiniteSet(CachedOnes') /\ Cardinality(CachedOnes') = Cardinality(CachedOnes) - 1
      /\ users[r] = {} => cut' = cut
  BY Dropped
<1>3. failed' \in Nat /\ failed' <= failed
  BY <1>1 DEF PoolType
<1>4. PoolType'
  BY <1>1, <1>2, <1>3 DEF PoolType
<1>5. TailInv' /\ WriteInv'
  BY <1>1 DEF TailInv, WriteInv
<1>6. QueueInv'
  BY <1>1 DEF QueueInv
<1>7. LifeInv'
  <2>1. store # "closed"
    BY <1>1, OpenStore
  <2> QED
    BY <1>1, <1>4, <2>1, LifeKeeps
<1>8. SizeInv'
  <2>1. ClosingOnes' = ClosingOnes
    BY DEF ClosingOnes
  <2>2. IsFiniteSet(evicting') /\ Cardinality(evicting') = 1 /\ Cardinality(evicting) = 0
    BY OneOrNone, FS_Singleton
  <2>3. /\ Cardinality(CachedOnes) \in Nat /\ Cardinality(ClosingOnes) \in Nat
        /\ failed \in Nat /\ failed' \in Nat /\ MaxOpen \in Nat
    BY <1>1, <1>3, Sizes DEF PoolType, PoolAssumption
  <2>4. (Cardinality(CachedOnes) - 1) + failed' + (Cardinality(ClosingOnes) + 1) <= MaxOpen
    BY <1>1, <1>3, <2>2, <2>3 DEF SizeInv
  <2> QED
    BY <1>1, <1>2, <2>1, <2>2, <2>4 DEF SizeInv
<1>9. SweepInv'
  BY <1>1, <1>2 DEF SweepInv
<1> QED
  BY <1>2, <1>4, <1>5, <1>6, <1>7, <1>8, <1>9 DEF IInv

LEMMA EvictKeeps ==
  ASSUME PoolAssumption, IInv, NEW r \in Resources, Evict(r) PROVE IInv'
<1>1. /\ admission # <<>> /\ evicting = {} /\ (Full \/ door = "evict") /\ Idle(r) /\ Drops(r)
      /\ evicting' = {r} /\ door' = "evicting"
      /\ UNCHANGED <<failed, call, phase, tail, admission, sweep, life, store, faults, sweeps>>
  BY DEF Evict, bounds
<1>2. admission[1] \in Calls
  BY <1>1, HeadIsCall
<1>3. Cached(r) /\ users[r] = {}
  BY <1>1 DEF Idle, Cached
<1>4. sweep' \subseteq Resources /\ (sweeps = 0 => sweep' = {})
  BY <1>1 DEF IInv, PoolType, SweepInv
<1> QED
  BY <1>1, <1>2, <1>3, <1>4, DoorCloses

LEMMA SweepStartsKeeps ==
  ASSUME PoolAssumption, IInv, SweepStarts PROVE IInv'
<1>1. PoolType /\ QueueInv /\ SweepInv
  BY DEF IInv
<1>2. /\ admission # <<>> /\ admission[1] = "sweep" /\ door = "check" /\ failed' \in {0, failed}
      /\ door' = "sweeping"
      /\ UNCHANGED <<call, phase, tail, admission, life, store, faults, sweeps>>
  BY DEF SweepStarts, bounds
<1>3. evicting = {} /\ sweeps # 0 /\ faults' \in Nat
  <2>1. 1 \in 1..Len(admission)
    BY <1>1, <1>2, HeadWaits
  <2> QED
    BY <1>1, <1>2, <2>1 DEF QueueInv, SweepInv, PoolType
<1>4. PICK expired \in SUBSET {r \in Resources : Idle(r)} :
        \/ expired = {} /\ sweep' = {} /\ UNCHANGED <<handle, users, cut, evicting>>
        \/ \E r \in expired : sweep' = expired \ {r} /\ Drops(r) /\ evicting' = {r}
  BY DEF SweepStarts
<1>5. CASE sweep' = {} /\ UNCHANGED <<handle, users, cut, evicting>>
  BY <1>2, <1>3, <1>5, QuietDoor
<1>6. CASE \E r \in expired : sweep' = expired \ {r} /\ Drops(r) /\ evicting' = {r}
  <2>1. PICK r \in expired : sweep' = expired \ {r} /\ Drops(r) /\ evicting' = {r}
    BY <1>6
  <2>2. r \in Resources /\ Cached(r) /\ sweep' \subseteq Resources
    BY <2>1 DEF Idle, Cached
  <2> QED
    BY <1>2, <1>3, <2>1, <2>2, DoorCloses
<1> QED
  BY <1>4, <1>5, <1>6

LEMMA SweepClosesKeeps ==
  ASSUME PoolAssumption, IInv, NEW r \in Resources, SweepCloses(r) PROVE IInv'
<1>1. PoolType /\ QueueInv /\ SweepInv
  BY DEF IInv
<1>2. /\ door = "sweeping" /\ evicting = {} /\ r \in sweep /\ sweep' = sweep \ {r}
      /\ UNCHANGED <<failed, call, phase, tail, admission, door, life, store, faults, sweeps>>
  BY DEF SweepCloses, bounds
<1>3. /\ admission # <<>> /\ admission[1] = "sweep" /\ sweeps # 0 /\ sweep' \subseteq Resources
      /\ faults' \in Nat
  BY <1>1, <1>2 DEF QueueInv, SweepInv, PoolType
<1>4. CASE Cached(r)
  <2>1. Drops(r) /\ evicting' = {r}
    BY <1>4 DEF SweepCloses
  <2> QED
    BY <1>2, <1>3, <1>4, <2>1, DoorCloses
<1>5. CASE ~Cached(r)
  <2>1. UNCHANGED <<handle, users, cut, evicting>>
    BY <1>5 DEF SweepCloses
  <2> QED
    BY <1>2, <1>3, <2>1, QuietDoor
<1> QED
  BY <1>4, <1>5

\* What was being closed is closed, or counts as failed.
LEMMA ClosingEnds ==
  ASSUME PoolAssumption, IInv, PoolType', evicting # {}, evicting' = {}, failed' <= failed + 1,
         \A r \in Resources : Cached(r)' <=> Cached(r), life' = life
  PROVE  SizeInv'
<1>1. PoolType /\ QueueInv /\ SizeInv
  BY DEF IInv
<1>2. Cardinality(evicting) = 1 /\ Cardinality(evicting') = 0 /\ IsFiniteSet(evicting')
  BY <1>1, OneOrNone, FS_EmptySet DEF QueueInv
<1>3. CachedOnes' = CachedOnes /\ ClosingOnes' = ClosingOnes
  BY DEF CachedOnes, ClosingOnes
<1>4. /\ Cardinality(CachedOnes) \in Nat /\ Cardinality(ClosingOnes) \in Nat
      /\ failed \in Nat /\ failed' \in Nat /\ MaxOpen \in Nat
  BY <1>1, Sizes DEF PoolType, PoolAssumption
<1>5. Cardinality(CachedOnes) + failed' + (Cardinality(ClosingOnes) + 0) <= MaxOpen
  BY <1>1, <1>2, <1>4 DEF SizeInv
<1> QED
  BY <1>1, <1>2, <1>3, <1>5 DEF SizeInv

\* Calls that are rejected leave the pool and their queue of writes.
LEMMA RejectedLeave ==
  ASSUME PoolAssumption, IInv, NEW cs \in SUBSET Calls, Rejected(cs),
         \A c \in cs : call[c] \in {"admission", "using", "used"}, phase' = phase
  PROVE  /\ TailInv' /\ WriteInv' /\ tail' \in [Resources -> Seq(Writes)]
         /\ call' \in [Calls -> Places]
         /\ \A d \in Calls : call'[d] = IF d \in cs THEN "failed" ELSE call[d]
         /\ \A d \in Calls : call'[d] \in Active => call[d] \in Active
<1>1. PoolType /\ TailInv /\ WriteInv
  BY DEF IInv
<1>2. /\ \A d \in Calls : call'[d] = IF d \in cs THEN "failed" ELSE call[d]
      /\ call' \in [Calls -> Places]
  BY <1>1 DEF Rejected, PoolType, Places
<1>3. ASSUME NEW r \in Resources
      PROVE  tail'[r] = IF tail[r] # <<>> /\ tail[r][1] \in cs THEN Tail(tail[r]) ELSE tail[r]
  <2>1. tail[r] \in Seq(Writes)
    BY <1>1 DEF PoolType
  <2>2. tail[r] # <<>> => Head(tail[r]) = tail[r][1]
    BY <2>1, Tailed
  <2>3. tail'[r] = IF tail[r] # <<>> /\ Head(tail[r]) \in cs THEN Tail(tail[r]) ELSE tail[r]
    BY DEF Rejected
  <2> QED
    BY <2>2, <2>3
<1>4. TailInv' /\ WriteInv' /\ \A r \in Resources : tail'[r] \in Seq(Writes)
  BY <1>1, <1>2, <1>3, LeaversKeep
<1>5. tail' \in [Resources -> Seq(Writes)]
  <2>1. tail' = [r \in Resources |-> tail'[r]]
    BY DEF Rejected
  <2> QED
    BY <1>4, <2>1
<1> QED
  BY <1>2, <1>4, <1>5 DEF Active

LEMMA EvictEndsKeeps ==
  ASSUME PoolAssumption, IInv, EvictEnds PROVE IInv'
<1>1. PoolType /\ UseInv /\ TailInv /\ WriteInv /\ QueueInv /\ LifeInv /\ SizeInv /\ SweepInv
  BY DEF IInv
<1>2. /\ door = "evicting" /\ evicting' = {} /\ evicting # {} /\ admission # <<>>
      /\ UNCHANGED <<handle, users, phase, sweep, life, store, cut>>
  BY <1>1 DEF EvictEnds, QueueInv
<1>3. sweeps' = sweeps /\ faults' \in Nat /\ \A r \in Resources : Cached(r)' <=> Cached(r)
  BY <1>1, <1>2, BoundsAre DEF EvictEnds, Cached
<1>4. admission[1] \in Calls /\ admission[1] # "sweep" /\ call[admission[1]] = "admission"
  BY <1>1, <1>2, HeadIsCall, HeadWaits
<1>5. store # "closed"
  BY <1>1, <1>2, OpenStore
<1>6. CASE door' = "check" /\ UNCHANGED <<failed, call, tail, admission>>
  <2>1. PoolType'
    BY <1>1, <1>2, <1>3, <1>6 DEF PoolType
  <2>2. UseInv' /\ TailInv' /\ WriteInv' /\ QueueInv' /\ SweepInv'
    BY <1>1, <1>2, <1>3, <1>6 DEF UseInv, TailInv, WriteInv, QueueInv, SweepInv
  <2>3. LifeInv'
    BY <1>1, <1>2, <1>5, <1>6, <2>1, LifeKeeps
  <2>4. failed' <= failed + 1
    BY <1>1, <1>6 DEF PoolType
  <2>5. SizeInv'
    BY <1>2, <1>3, <2>1, <2>4, ClosingEnds
  <2> QED
    BY <2>1, <2>2, <2>3, <2>5 DEF IInv
<1>7. CASE failed' = failed + 1 /\ Rejected({admission[1]}) /\ Leaves
  <2>1. PICK c \in Calls : c = admission[1] /\ call[c] = "admission"
    BY <1>4
  <2>2. /\ TailInv' /\ WriteInv' /\ tail' \in [Resources -> Seq(Writes)]
        /\ call' \in [Calls -> Places]
        /\ \A d \in Calls : call'[d] = IF d \in {c} THEN "failed" ELSE call[d]
        /\ \A d \in Calls : call'[d] \in Active => call[d] \in Active
    BY <1>2, <1>7, <2>1, RejectedLeave
  <2>3. /\ admission' \in Seq(Calls \cup {"sweep"}) /\ door' \in {"check", "shut"} /\ QueueInv'
        /\ sweeps = 0 => \A i \in 1..Len(admission') : admission'[i] # "sweep"
    BY <1>1, <1>2, <1>7, <2>1, <2>2, HeadLeaves
  <2>4. failed' \in Nat /\ failed' <= failed + 1
    BY <1>1, <1>7 DEF PoolType
  <2>5. PoolType'
    BY <1>1, <1>2, <1>3, <2>2, <2>3, <2>4 DEF PoolType
  <2>6. UseInv'
    BY <1>1, <1>2, <2>1, <2>2 DEF UseInv, PoolType
  <2>7. LifeInv'
    BY <1>1, <1>2, <1>5, <2>2, <2>5, LifeKeeps
  <2>8. SizeInv'
    BY <1>2, <1>3, <2>4, <2>5, ClosingEnds
  <2>9. SweepInv'
    BY <1>1, <1>2, <1>3, <2>3 DEF SweepInv
  <2> QED
    BY <2>2, <2>3, <2>5, <2>6, <2>7, <2>8, <2>9 DEF IInv
<1> QED
  BY <1>6, <1>7 DEF EvictEnds

LEMMA SweepClosedKeeps ==
  ASSUME PoolAssumption, IInv, SweepClosed PROVE IInv'
<1>1. PoolType /\ UseInv /\ TailInv /\ WriteInv /\ QueueInv /\ LifeInv /\ SizeInv /\ SweepInv
  BY DEF IInv
<1>2. /\ door = "sweeping" /\ evicting' = {} /\ evicting # {} /\ admission # <<>>
      /\ UNCHANGED <<handle, users, call, phase, tail, admission, door, sweep, life, store, cut>>
  BY <1>1 DEF SweepClosed, QueueInv
<1>3. failed' \in {failed, failed + 1}
  BY DEF SweepClosed
<1>4. failed' \in Nat /\ failed' <= failed + 1
  BY <1>1, <1>3 DEF PoolType
<1>5. sweeps' = sweeps /\ faults' \in Nat /\ \A r \in Resources : Cached(r)' <=> Cached(r)
  BY <1>1, <1>2, BoundsAre DEF SweepClosed, Cached
<1>6. PoolType'
  BY <1>1, <1>2, <1>4, <1>5 DEF PoolType
<1>7. UseInv' /\ TailInv' /\ WriteInv' /\ QueueInv' /\ SweepInv'
  BY <1>1, <1>2, <1>5 DEF UseInv, TailInv, WriteInv, QueueInv, SweepInv
<1>8. LifeInv'
  <2>1. store # "closed"
    BY <1>1, <1>2, OpenStore
  <2> QED
    BY <1>1, <1>2, <1>6, <2>1, LifeKeeps
<1>9. SizeInv'
  BY <1>2, <1>4, <1>5, <1>6, ClosingEnds
<1> QED
  BY <1>6, <1>7, <1>8, <1>9 DEF IInv

LEMMA SweepEndsKeeps ==
  ASSUME PoolAssumption, IInv, SweepEnds PROVE IInv'
<1>1. PoolType /\ UseInv /\ TailInv /\ WriteInv /\ QueueInv /\ LifeInv /\ SizeInv /\ SweepInv
  BY DEF IInv
<1>2. /\ door = "sweeping" /\ evicting = {} /\ sweep = {} /\ Leaves /\ admission # <<>>
      /\ UNCHANGED <<handle, users, failed, call, phase, tail, evicting, sweep, life, store, cut, faults,
                     sweeps>>
  BY <1>1 DEF SweepEnds, QueueInv, pool, bounds
<1>3. /\ admission' \in Seq(Calls \cup {"sweep"}) /\ door' \in {"check", "shut"} /\ QueueInv'
      /\ sweeps = 0 => \A i \in 1..Len(admission') : admission'[i] # "sweep"
  BY <1>1, <1>2, HeadLeaves
<1>4. PoolType'
  BY <1>1, <1>2, <1>3 DEF PoolType
<1>5. UseInv' /\ TailInv' /\ WriteInv' /\ SweepInv'
  BY <1>1, <1>2, <1>3 DEF UseInv, TailInv, WriteInv, SweepInv
<1>6. LifeInv'
  <2>1. store # "closed"
    BY <1>1, <1>2, OpenStore
  <2> QED
    BY <1>1, <1>2, <1>4, <2>1, LifeKeeps
<1>7. SizeInv'
  <2>1. failed' <= failed /\ \A r \in Resources : Cached(r)' <=> Cached(r)
    BY <1>1, <1>2 DEF PoolType, Cached
  <2> QED
    BY <1>1, <1>2, <1>4, <2>1, SameSizes
<1> QED
  BY <1>3, <1>4, <1>5, <1>6, <1>7 DEF IInv

LEMMA SweepDueKeeps ==
  ASSUME PoolAssumption, IInv, SweepDue PROVE IInv'
<1>1. PoolType /\ UseInv /\ TailInv /\ WriteInv /\ QueueInv /\ LifeInv /\ SizeInv /\ SweepInv
  BY DEF IInv
<1>2. /\ sweeps < MaxSweeps /\ sweeps' = sweeps + 1 /\ store = "open"
      /\ door' = IF admission = <<>> THEN "check" ELSE door
      /\ UNCHANGED <<handle, users, failed, call, phase, tail, evicting, sweep, life, store, cut, faults>>
  BY DEF SweepDue, pool
<1>3. sweeps' \in 0..MaxSweeps /\ sweeps' # 0
  BY <1>1, <1>2 DEF PoolType, PoolAssumption
<1>4. PICK last : last = Len(admission) + 1
  OBVIOUS
<1>5. /\ admission' \in Seq(Calls \cup {"sweep"}) /\ Len(admission) \in Nat /\ Len(admission') = last
      /\ admission' # <<>> /\ admission'[last] = "sweep" /\ "sweep" \notin Calls
      /\ \A i \in 1..Len(admission) : admission'[i] = admission[i]
      /\ \A i \in 1..Len(admission') : i \in 1..Len(admission) \/ i = last
  <2>1. admission' = Append(admission, "sweep") /\ admission \in Seq(Calls \cup {"sweep"})
        /\ "sweep" \in Calls \cup {"sweep"}
    BY <1>1 DEF SweepDue, PoolType
  <2> QED
    BY <1>4, <2>1, Appended DEF PoolAssumption
<1>6. door' \in {"shut", "check", "evict", "evicting", "parked", "sweeping"}
  BY <1>1, <1>2 DEF PoolType
<1>7. PoolType'
  BY <1>1, <1>2, <1>3, <1>5, <1>6 DEF PoolType
<1>8. UseInv' /\ TailInv' /\ WriteInv'
  BY <1>1, <1>2 DEF UseInv, TailInv, WriteInv
<1>9. QueueInv'
  <2>1. \A i \in 1..Len(admission') : admission'[i] \in Calls => call'[admission'[i]] = "admission"
    BY <1>1, <1>2, <1>5 DEF QueueInv
  <2>2. \A i, j \in 1..Len(admission') :
          admission'[i] \in Calls /\ admission'[i] = admission'[j] => i = j
    BY <1>1, <1>5 DEF QueueInv
  <2>3. CASE admission = <<>>
    <3>1. door = "shut" /\ door' = "check" /\ evicting = {}
      BY <1>1, <1>2, <2>3 DEF QueueInv
    <3> QED
      BY <1>2, <1>5, <2>1, <2>2, <3>1 DEF QueueInv
  <2>4. CASE admission # <<>>
    <3>1. door' = door /\ door # "shut"
      BY <1>1, <1>2, <2>4 DEF QueueInv
    <3>2. 1 \in 1..Len(admission)
      BY <1>1, <2>4, HeadWaits
    <3>3. admission'[1] = admission[1]
      BY <1>5, <3>2
    <3> QED
      BY <1>1, <1>2, <1>5, <2>1, <2>2, <3>1, <3>3 DEF QueueInv
  <2> QED
    BY <2>3, <2>4
<1>10. LifeInv'
  BY <1>1, <1>2, <1>7, LifeKeeps
<1>11. SizeInv'
  <2>1. failed' <= failed /\ \A r \in Resources : Cached(r)' <=> Cached(r)
    BY <1>1, <1>2 DEF PoolType, Cached
  <2> QED
    BY <1>1, <1>2, <1>7, <2>1, SameSizes
<1>12. SweepInv'
  BY <1>3 DEF SweepInv
<1> QED
  BY <1>7, <1>8, <1>9, <1>10, <1>11, <1>12 DEF IInv

LEMMA OpeningEndsKeeps ==
  ASSUME PoolAssumption, IInv, NEW r \in Resources, OpeningEnds(r) PROVE IInv'
<1>1. PoolType /\ UseInv /\ TailInv /\ WriteInv /\ QueueInv /\ LifeInv /\ SizeInv /\ SweepInv
  BY DEF IInv
<1>2. /\ handle[r] = "opening"
      /\ UNCHANGED <<phase, admission, evicting, sweep, life, store, cut>>
  BY DEF OpeningEnds
<1>3. sweeps' = sweeps /\ faults' \in Nat
  BY <1>1, BoundsAre DEF OpeningEnds
<1>4. store # "closed"
  BY <1>1, <1>2 DEF LifeInv, Cached
<1>5. CASE handle' = [handle EXCEPT ![r] = "open"] /\ UNCHANGED <<users, call, tail, door, failed>>
  <2>1. /\ handle' \in [Resources -> {"none", "opening", "open"}]
        /\ \A s \in Resources : handle'[s] = IF s = r THEN "open" ELSE handle[s]
    BY <1>1, <1>5 DEF PoolType
  <2>2. PoolType'
    BY <1>1, <1>2, <1>3, <1>5, <2>1 DEF PoolType
  <2>3. UseInv' /\ TailInv' /\ WriteInv' /\ QueueInv' /\ SweepInv'
    BY <1>1, <1>2, <1>3, <1>5, <2>1 DEF UseInv, TailInv, WriteInv, QueueInv, SweepInv
  <2>4. LifeInv'
    BY <1>1, <1>2, <1>4, <1>5, <2>2, LifeKeeps
  <2>5. SizeInv'
    <3>1. failed' <= failed /\ \A s \in Resources : Cached(s)' <=> Cached(s)
      BY <1>1, <1>2, <1>5, <2>1 DEF PoolType, Cached
    <3> QED
      BY <1>1, <1>2, <2>2, <3>1, SameSizes
  <2> QED
    BY <2>2, <2>3, <2>4, <2>5 DEF IInv
<1>6. CASE /\ handle' = [handle EXCEPT ![r] = "none"] /\ users' = [users EXCEPT ![r] = {}]
           /\ Rejected(users[r]) /\ door' = Notified /\ failed' \in {failed, failed + 1}
  <2>1. PICK cs \in SUBSET Calls : cs = users[r] /\ \A c \in cs : On[c] = r /\ call[c] = "using"
    BY <1>1 DEF PoolType, UseInv
  <2>2. /\ TailInv' /\ WriteInv' /\ tail' \in [Resources -> Seq(Writes)]
        /\ call' \in [Calls -> Places]
        /\ \A d \in Calls : call'[d] = IF d \in cs THEN "failed" ELSE call[d]
        /\ \A d \in Calls : call'[d] \in Active => call[d] \in Active
    BY <1>2, <1>6, <2>1, RejectedLeave
  <2>3. /\ handle' \in [Resources -> {"none", "opening", "open"}] /\ users' \in [Resources -> SUBSET Calls]
        /\ \A s \in Resources : /\ handle'[s] = IF s = r THEN "none" ELSE handle[s]
                                /\ users'[s] = IF s = r THEN {} ELSE users[s]
    BY <1>1, <1>6 DEF PoolType
  <2>4. failed' \in Nat /\ failed' <= failed + 1
    BY <1>1, <1>6 DEF PoolType
  <2>5. /\ door' \in {"shut", "check", "evict", "evicting", "parked", "sweeping"}
        /\ door' = "shut" <=> door = "shut"
        /\ door' \in {"evict", "evicting", "parked", "sweeping"} => door' = door
        /\ door \in {"evicting", "sweeping"} => door' = door
    BY <1>1, <1>6, NotifiedKeeps
  <2>6. PoolType'
    BY <1>1, <1>2, <1>3, <2>2, <2>3, <2>4, <2>5 DEF PoolType
  <2>7. UseInv'
    <3>1. ASSUME NEW s \in Resources
          PROVE  /\ handle'[s] = "none" => users'[s] = {}
                 /\ \A d \in users'[s] : On[d] = s /\ call'[d] = "using"
      <4>1. CASE s = r
        BY <2>3, <4>1
      <4>2. CASE s # r
        <5>1. handle'[s] = handle[s] /\ users'[s] = users[s]
          BY <2>3, <4>2
        <5>2. \A d \in users[s] : d \in Calls /\ On[d] = s /\ call[d] = "using" /\ d \notin cs
          BY <1>1, <2>1, <4>2 DEF UseInv, PoolType
        <5>3. \A d \in users[s] : On[d] = s /\ call'[d] = "using"
          BY <2>2, <5>2
        <5>4. handle[s] = "none" => users[s] = {}
          BY <1>1 DEF UseInv
        <5> QED
          BY <5>1, <5>3, <5>4
      <4> QED
        BY <4>1, <4>2
    <3> QED
      BY <3>1 DEF UseInv
  <2>8. QueueInv'
    <3>1. \A i \in 1..Len(admission) : admission[i] \in Calls => call'[admission[i]] = "admission"
      BY <1>1, <2>1, <2>2 DEF QueueInv
    <3> QED
      BY <1>1, <1>2, <2>5, <3>1 DEF QueueInv
  <2>9. LifeInv'
    BY <1>1, <1>2, <1>4, <2>2, <2>6, LifeKeeps
  <2>10. SizeInv'
    <3>1. CachedOnes' = CachedOnes \ {r} /\ r \in CachedOnes
      BY <1>2, <2>3 DEF CachedOnes, Cached
    <3>2. IsFiniteSet(CachedOnes') /\ Cardinality(CachedOnes') = Cardinality(CachedOnes) - 1
      BY <1>1, <3>1, Removed DEF SizeInv
    <3>3. ClosingOnes' = ClosingOnes /\ evicting' = evicting
      BY <1>2 DEF ClosingOnes
    <3>4. /\ Cardinality(CachedOnes) \in Nat /\ Cardinality(ClosingOnes) \in Nat
          /\ Cardinality(evicting) \in Nat /\ failed \in Nat /\ failed' \in Nat /\ MaxOpen \in Nat
      BY <1>1, <2>4, Sizes DEF PoolType, PoolAssumption
    <3>5. (Cardinality(CachedOnes) - 1) + failed' + (Cardinality(ClosingOnes) + Cardinality(evicting))
            <= MaxOpen
      BY <1>1, <2>4, <3>4 DEF SizeInv
    <3> QED
      BY <1>1, <3>2, <3>3, <3>5 DEF SizeInv
  <2>11. SweepInv'
    BY <1>1, <1>2, <1>3 DEF SweepInv
  <2> QED
    BY <2>2, <2>6, <2>7, <2>8, <2>9, <2>10, <2>11 DEF IInv
<1> QED
  BY <1>5, <1>6 DEF OpeningEnds

-----------------------------------------------------------------------------
(***************************************************************************)
(* Maintenance and shutdown.                                               *)
(***************************************************************************)
\* Steps of maintenance: the calls and the queue stay as they are, and one
\* life goes on.
LEMMA LifeMoves ==
  ASSUME PoolAssumption, IInv, NEW r \in Resources,
         NEW l \in {"none", "drain", "closing", "work", "done"}, life' = [life EXCEPT ![r] = l],
         store # "closed", l \in {"closing", "work"} => InFlight(r) = {},
         UNCHANGED <<call, store>>, PoolType'
  PROVE  LifeInv'
<1>1. PoolType /\ LifeInv
  BY DEF IInv
<1>2. \A s : InFlight(s)' = InFlight(s)
  BY DEF InFlight
<1>3. \A s \in Resources : life'[s] = IF s = r THEN l ELSE life[s]
  BY <1>1 DEF PoolType
<1> QED
  BY <1>1, <1>2, <1>3 DEF LifeInv

LEMMA MaintainKeeps ==
  ASSUME PoolAssumption, IInv, NEW r \in Resources, Maintain(r) PROVE IInv'
<1>1. PoolType /\ UseInv /\ TailInv /\ WriteInv /\ QueueInv /\ LifeInv /\ SizeInv /\ SweepInv
  BY DEF IInv
<1>2. /\ life[r] = "none" /\ store = "open" /\ life' = [life EXCEPT ![r] = "drain"]
      /\ UNCHANGED <<handle, users, failed, call, phase, tail, admission, door, evicting, sweep, store, cut,
                     faults, sweeps>>
  BY DEF Maintain, pool, queue, bounds
<1>3. /\ life' \in [Resources -> {"none", "drain", "closing", "work", "done"}]
      /\ \A s \in Resources : life'[s] = "closing" <=> life[s] = "closing"
  BY <1>1, <1>2 DEF PoolType
<1>4. PoolType'
  BY <1>1, <1>2, <1>3 DEF PoolType
<1>5. UseInv' /\ TailInv' /\ WriteInv' /\ QueueInv' /\ SweepInv'
  BY <1>1, <1>2 DEF UseInv, TailInv, WriteInv, QueueInv, SweepInv
<1>6. LifeInv'
  BY <1>2, <1>4, LifeMoves
<1>7. SizeInv'
  <2>1. CachedOnes' = CachedOnes /\ ClosingOnes' = ClosingOnes
    BY <1>2, <1>3 DEF CachedOnes, ClosingOnes, Cached
  <2> QED
    BY <1>1, <1>2, <2>1 DEF SizeInv
<1> QED
  BY <1>4, <1>5, <1>6, <1>7 DEF IInv

LEMMA MaintainClosesKeeps ==
  ASSUME PoolAssumption, IInv, NEW r \in Resources, MaintainCloses(r) PROVE IInv'
<1>1. PoolType /\ UseInv /\ TailInv /\ WriteInv /\ QueueInv /\ LifeInv /\ SizeInv /\ SweepInv
  BY DEF IInv
<1>2. /\ life[r] = "drain" /\ InFlight(r) = {}
      /\ UNCHANGED <<failed, call, phase, tail, admission, door, evicting, sweep, store, faults, sweeps>>
  BY DEF MaintainCloses, Drained, queue, bounds
<1>3. store # "closed"
  BY <1>1, <1>2 DEF LifeInv, Blocked
<1>4. TailInv' /\ WriteInv' /\ QueueInv'
  BY <1>1, <1>2 DEF TailInv, WriteInv, QueueInv
<1>5. CASE Cached(r)
  <2>1. Drops(r) /\ life' = [life EXCEPT ![r] = "closing"]
    BY <1>5 DEF MaintainCloses
  <2>2. /\ UseInv' /\ handle' \in [Resources -> {"none", "opening", "open"}]
        /\ users' \in [Resources -> SUBSET Calls] /\ cut' \subseteq Calls
        /\ IsFiniteSet(CachedOnes') /\ Cardinality(CachedOnes') = Cardinality(CachedOnes) - 1
        /\ users[r] = {} => cut' = cut
    BY <1>2, <1>5, <2>1, Dropped
  <2>3. users[r] = {}
    <3>1. \A c \in users[r] : c \in Calls /\ c \in InFlight(r)
      BY <1>1, InFlightIs DEF UseInv, PoolType, Active
    <3> QED
      BY <1>2, <3>1
  <2>4. /\ life' \in [Resources -> {"none", "drain", "closing", "work", "done"}]
        /\ \A s \in Resources : life'[s] = IF s = r THEN "closing" ELSE life[s]
    BY <1>1, <2>1 DEF PoolType
  <2>5. PoolType'
    BY <1>1, <1>2, <2>2, <2>4 DEF PoolType
  <2>6. LifeInv'
    BY <1>2, <1>3, <2>1, <2>5, LifeMoves
  <2>7. SizeInv'
    <3>1. ClosingOnes' = ClosingOnes \cup {r} /\ r \notin ClosingOnes
      BY <1>2, <2>4 DEF ClosingOnes
    <3>2. IsFiniteSet(ClosingOnes') /\ Cardinality(ClosingOnes') = Cardinality(ClosingOnes) + 1
      BY <1>1, <3>1, Added DEF SizeInv
    <3>3. /\ Cardinality(CachedOnes) \in Nat /\ Cardinality(ClosingOnes) \in Nat
          /\ Cardinality(evicting) \in Nat /\ failed \in Nat /\ MaxOpen \in Nat
      BY <1>1, Sizes DEF PoolType, PoolAssumption
    <3>4. (Cardinality(CachedOnes) - 1) + failed + ((Cardinality(ClosingOnes) + 1) + Cardinality(evicting))
            <= MaxOpen
      BY <1>1, <3>3 DEF SizeInv
    <3> QED
      BY <1>1, <1>2, <2>2, <3>2, <3>4 DEF SizeInv
  <2>8. SweepInv'
    BY <1>1, <1>2, <2>2, <2>3 DEF SweepInv
  <2> QED
    BY <1>4, <2>2, <2>5, <2>6, <2>7, <2>8 DEF IInv
<1>6. CASE ~Cached(r)
  <2>1. life' = [life EXCEPT ![r] = "work"] /\ UNCHANGED <<handle, users, cut>>
    BY <1>6 DEF MaintainCloses
  <2>2. /\ life' \in [Resources -> {"none", "drain", "closing", "work", "done"}]
        /\ \A s \in Resources : life'[s] = "closing" <=> life[s] = "closing"
    BY <1>1, <1>2, <2>1 DEF PoolType
  <2>3. PoolType'
    BY <1>1, <1>2, <2>1, <2>2 DEF PoolType
  <2>4. LifeInv'
    BY <1>2, <1>3, <2>1, <2>3, LifeMoves
  <2>5. SizeInv'
    <3>1. CachedOnes' = CachedOnes /\ ClosingOnes' = ClosingOnes
      BY <2>1, <2>2 DEF CachedOnes, ClosingOnes, Cached
    <3> QED
      BY <1>1, <1>2, <3>1 DEF SizeInv
  <2>6. UseInv' /\ SweepInv'
    BY <1>1, <1>2, <2>1 DEF UseInv, SweepInv
  <2> QED
    BY <1>4, <2>3, <2>4, <2>5, <2>6 DEF IInv
<1> QED
  BY <1>5, <1>6

LEMMA MaintainClosedKeeps ==
  ASSUME PoolAssumption, IInv, NEW r \in Resources, MaintainClosed(r) PROVE IInv'
<1>1. PoolType /\ UseInv /\ TailInv /\ WriteInv /\ QueueInv /\ LifeInv /\ SizeInv /\ SweepInv
  BY DEF IInv
<1>2. /\ life[r] = "closing" /\ door' = Notified
      /\ UNCHANGED <<handle, users, call, phase, tail, admission, evicting, sweep, store, cut>>
  BY DEF MaintainClosed
<1>3. PICK l \in {"work", "done"} : life' = [life EXCEPT ![r] = l] /\ failed' \in {failed, failed + 1}
  BY DEF MaintainClosed
<1>4. sweeps' = sweeps /\ faults' \in Nat
  BY <1>1, BoundsAre DEF MaintainClosed
<1>5. failed' \in Nat /\ failed' <= failed + 1
  BY <1>1, <1>3 DEF PoolType
<1>6. store # "closed" /\ InFlight(r) = {}
  BY <1>1, <1>2 DEF LifeInv, Blocked
<1>7. /\ door' \in {"shut", "check", "evict", "evicting", "parked", "sweeping"}
      /\ door' = "shut" <=> door = "shut"
      /\ door' \in {"evict", "evicting", "parked", "sweeping"} => door' = door
      /\ door \in {"evicting", "sweeping"} => door' = door
  BY <1>1, <1>2, NotifiedKeeps
<1>8. /\ life' \in [Resources -> {"none", "drain", "closing", "work", "done"}]
      /\ \A s \in Resources : life'[s] = IF s = r THEN l ELSE life[s]
  BY <1>1, <1>3 DEF PoolType
<1>9. PoolType'
  BY <1>1, <1>2, <1>4, <1>5, <1>7, <1>8 DEF PoolType
<1>10. UseInv' /\ TailInv' /\ WriteInv' /\ SweepInv'
  BY <1>1, <1>2, <1>4 DEF UseInv, TailInv, WriteInv, SweepInv
<1>11. QueueInv'
  BY <1>1, <1>2, <1>7 DEF QueueInv
<1>12. LifeInv'
  BY <1>2, <1>3, <1>6, <1>9, LifeMoves
<1>13. SizeInv'
  <2>1. ClosingOnes' = ClosingOnes \ {r} /\ r \in ClosingOnes
    BY <1>2, <1>3, <1>8 DEF ClosingOnes
  <2>2. IsFiniteSet(ClosingOnes') /\ Cardinality(ClosingOnes') = Cardinality(ClosingOnes) - 1
    BY <1>1, <2>1, Removed DEF SizeInv
  <2>3. CachedOnes' = CachedOnes
    BY <1>2 DEF CachedOnes, Cached
  <2>4. /\ Cardinality(CachedOnes) \in Nat /\ Cardinality(ClosingOnes) \in Nat
        /\ Cardinality(evicting) \in Nat /\ failed \in Nat /\ failed' \in Nat /\ MaxOpen \in Nat
    BY <1>1, <1>5, Sizes DEF PoolType, PoolAssumption
  <2>5. Cardinality(CachedOnes) + failed' + ((Cardinality(ClosingOnes) - 1) + Cardinality(evicting))
          <= MaxOpen
    BY <1>1, <1>5, <2>4 DEF SizeInv
  <2> QED
    BY <1>1, <1>2, <2>2, <2>3, <2>5 DEF SizeInv
<1> QED
  BY <1>9, <1>10, <1>11, <1>12, <1>13 DEF IInv

LEMMA MaintainEndsKeeps ==
  ASSUME PoolAssumption, IInv, NEW r \in Resources, MaintainEnds(r) PROVE IInv'
<1>1. PoolType /\ UseInv /\ TailInv /\ WriteInv /\ QueueInv /\ LifeInv /\ SizeInv /\ SweepInv
  BY DEF IInv
<1>2. /\ life[r] = "work" /\ life' = [life EXCEPT ![r] = "done"]
      /\ UNCHANGED <<handle, users, failed, call, phase, tail, admission, door, evicting, sweep, store, cut,
                     faults, sweeps>>
  BY DEF MaintainEnds, pool, queue, bounds
<1>3. /\ life' \in [Resources -> {"none", "drain", "closing", "work", "done"}]
      /\ \A s \in Resources : life'[s] = "closing" <=> life[s] = "closing"
  BY <1>1, <1>2 DEF PoolType
<1>4. PoolType'
  BY <1>1, <1>2, <1>3 DEF PoolType
<1>5. UseInv' /\ TailInv' /\ WriteInv' /\ QueueInv' /\ SweepInv'
  BY <1>1, <1>2 DEF UseInv, TailInv, WriteInv, QueueInv, SweepInv
<1>6. LifeInv'
  <2>1. store # "closed"
    BY <1>1, <1>2 DEF LifeInv, Blocked
  <2> QED
    BY <1>2, <1>4, <2>1, LifeMoves
<1>7. SizeInv'
  <2>1. CachedOnes' = CachedOnes /\ ClosingOnes' = ClosingOnes
    BY <1>2, <1>3 DEF CachedOnes, ClosingOnes, Cached
  <2> QED
    BY <1>1, <1>2, <2>1 DEF SizeInv
<1> QED
  BY <1>4, <1>5, <1>6, <1>7 DEF IInv

LEMMA CloseKeeps ==
  ASSUME PoolAssumption, IInv, Close PROVE IInv'
<1>1. PoolType /\ UseInv /\ TailInv /\ WriteInv /\ QueueInv /\ LifeInv /\ SizeInv /\ SweepInv
  BY DEF IInv
<1>2. /\ store' = "closing"
      /\ UNCHANGED <<handle, users, failed, call, phase, tail, admission, door, evicting, sweep, life, cut,
                     faults, sweeps>>
  BY DEF Close, pool, queue, bounds
<1>3. PoolType'
  BY <1>1, <1>2 DEF PoolType
<1>4. UseInv' /\ TailInv' /\ WriteInv' /\ QueueInv' /\ SweepInv'
  BY <1>1, <1>2 DEF UseInv, TailInv, WriteInv, QueueInv, SweepInv
<1>5. LifeInv'
  BY <1>1, <1>2 DEF LifeInv, InFlight
<1>6. SizeInv'
  BY <1>1, <1>2 DEF SizeInv, CachedOnes, ClosingOnes, Cached
<1> QED
  BY <1>3, <1>4, <1>5, <1>6 DEF IInv

LEMMA CloseHandlesKeeps ==
  ASSUME PoolAssumption, IInv, CloseHandles PROVE IInv'
<1>1. PoolType /\ UseInv /\ TailInv /\ WriteInv /\ QueueInv /\ LifeInv /\ SizeInv /\ SweepInv
  BY DEF IInv
<1>2. /\ admission = <<>> /\ (\A r \in Resources : ~Blocked(r) /\ InFlight(r) = {})
      /\ handle' = [r \in Resources |-> "none"] /\ users' = [r \in Resources |-> {}]
      /\ cut' = cut \cup UNION {users[r] : r \in Resources} /\ store' = "closed"
      /\ UNCHANGED <<call, phase, tail, admission, door, evicting, sweep, life>>
  BY DEF CloseHandles, Quiet, queue
<1>3. failed' \in {0, failed + Cardinality(CachedOnes)}
  BY SizesAre DEF CloseHandles
<1>4. sweeps' = sweeps /\ faults' \in Nat
  BY <1>1, BoundsAre DEF CloseHandles
<1>5. \A r \in Resources : users[r] = {}
  <2>1. \A r \in Resources : \A c \in users[r] : c \in Calls /\ c \in InFlight(r)
    BY <1>1, InFlightIs DEF UseInv, PoolType, Active
  <2> QED
    BY <1>2, <2>1
<1>6. cut' = cut
  BY <1>2, <1>5
<1>7. /\ Cardinality(CachedOnes) \in Nat /\ Cardinality(ClosingOnes) \in Nat
      /\ Cardinality(evicting) \in Nat /\ failed \in Nat /\ MaxOpen \in Nat
  BY <1>1, Sizes DEF PoolType, PoolAssumption
<1>8. failed' \in Nat /\ failed' <= Cardinality(CachedOnes) + failed
  BY <1>3, <1>7
<1>9. /\ handle' \in [Resources -> {"none", "opening", "open"}] /\ users' \in [Resources -> SUBSET Calls]
      /\ \A r \in Resources : ~Cached(r)' /\ users'[r] = {}
  BY <1>2 DEF Cached
<1>10. PoolType'
  BY <1>1, <1>2, <1>4, <1>6, <1>8, <1>9 DEF PoolType
<1>11. UseInv' /\ TailInv' /\ WriteInv' /\ QueueInv' /\ SweepInv'
  BY <1>1, <1>2, <1>4, <1>6, <1>9 DEF UseInv, TailInv, WriteInv, QueueInv, SweepInv
<1>12. LifeInv'
  BY <1>1, <1>2, <1>9 DEF LifeInv, InFlight, Blocked
<1>13. SizeInv'
  <2>1. CachedOnes' = {} /\ ClosingOnes' = ClosingOnes
    BY <1>2, <1>9 DEF CachedOnes, ClosingOnes
  <2>2. 0 + failed' + (Cardinality(ClosingOnes) + Cardinality(evicting)) <= MaxOpen
    BY <1>1, <1>7, <1>8 DEF SizeInv
  <2> QED
    BY <1>1, <1>2, <2>1, <2>2, OneOrNone, FS_EmptySet DEF SizeInv
<1> QED
  BY <1>10, <1>11, <1>12, <1>13 DEF IInv

-----------------------------------------------------------------------------
(***************************************************************************)
(* The invariant, and what it says.                                        *)
(***************************************************************************)
LEMMA InitHolds == PoolAssumption /\ Init => IInv
<1> SUFFICES ASSUME PoolAssumption, Init PROVE IInv
  OBVIOUS
<1> USE DEF Init
<1>1. PoolType
  BY DEF PoolType, PoolAssumption, Places
<1>2. UseInv /\ LifeInv /\ SweepInv
  BY DEF UseInv, LifeInv, InFlight, Cached, SweepInv
<1>3. TailInv /\ WriteInv
  BY DEF TailInv, WriteInv, Active, PoolAssumption
<1>4. QueueInv
  BY DEF QueueInv
<1>5. SizeInv
  <2>1. CachedOnes = {} /\ ClosingOnes = {} /\ evicting = {} /\ failed = 0 /\ MaxOpen \in Nat
    BY DEF CachedOnes, ClosingOnes, Cached, PoolAssumption
  <2>2. IsFiniteSet({}) /\ Cardinality({}) = 0
    BY FS_EmptySet
  <2> QED
    BY <2>1, <2>2 DEF SizeInv
<1> QED
  BY <1>1, <1>2, <1>3, <1>4, <1>5 DEF IInv

LEMMA SameKeeps == IInv /\ UNCHANGED vars => IInv'
<1> SUFFICES ASSUME IInv, UNCHANGED vars PROVE IInv'
  OBVIOUS
<1>1. UNCHANGED <<handle, users, failed, call, phase, tail, admission, door, evicting, sweep, life, store, cut,
                  faults, sweeps>>
  BY DEF vars, pool, queue, bounds
<1>2. PoolType' /\ UseInv' /\ TailInv' /\ WriteInv' /\ QueueInv' /\ SweepInv'
  BY <1>1 DEF IInv, PoolType, UseInv, TailInv, WriteInv, QueueInv, SweepInv
<1>3. LifeInv' /\ SizeInv'
  BY <1>1 DEF IInv, LifeInv, SizeInv, InFlight, Cached, Blocked, CachedOnes, ClosingOnes
<1> QED
  BY <1>2, <1>3 DEF IInv

LEMMA NextKeeps == PoolAssumption /\ IInv /\ Next => IInv'
<1> SUFFICES ASSUME PoolAssumption, IInv, Next PROVE IInv'
  OBVIOUS
<1>1. ASSUME NEW c \in Calls, Step(c) PROVE IInv'
  BY <1>1, ReadKeeps, WriteKeeps, WriteTurnKeeps, EndUseKeeps, NextPhaseKeeps, WriteSettlesKeeps DEF Step
<1>2. ASSUME Door PROVE IInv'
  BY <1>2, AdmitCachedKeeps, AdmitOpeningKeeps, RetryClosesKeeps, EvictKeeps, EvictEndsKeeps, ParkKeeps,
     SweepStartsKeeps, SweepClosesKeeps, SweepClosedKeeps, SweepEndsKeeps DEF Door
<1>3. ASSUME NEW r \in Resources, OpeningEnds(r) \/ Maintain(r) \/ Lifecycle(r) PROVE IInv'
  BY <1>3, OpeningEndsKeeps, MaintainKeeps, MaintainClosesKeeps, MaintainClosedKeeps, MaintainEndsKeeps
     DEF Lifecycle
<1> QED
  BY <1>1, <1>2, <1>3, SweepDueKeeps, CloseKeeps, CloseHandlesKeeps DEF Next

LEMMA PoolHolds == ASSUME PoolAssumption PROVE Spec => []IInv
<1>1. Init => IInv
  BY InitHolds
<1>2. IInv /\ [Next]_vars => IInv'
  BY NextKeeps, SameKeeps
<1> QED
  BY <1>1, <1>2, PTL DEF Spec

LEMMA TypesFollow == PoolAssumption /\ IInv => TypeOK
<1> SUFFICES ASSUME PoolAssumption, IInv PROVE TypeOK
  OBVIOUS
<1>1. PoolType /\ TailInv /\ SizeInv
  BY DEF IInv
<1>2. failed \in 0..(MaxFaults + MaxOpen)
  <2>1. /\ Cardinality(CachedOnes) \in Nat /\ Cardinality(ClosingOnes) \in Nat
        /\ Cardinality(evicting) \in Nat /\ failed \in Nat /\ MaxOpen \in Nat /\ MaxFaults \in Nat
    BY <1>1, Sizes DEF PoolType, PoolAssumption
  <2> QED
    BY <1>1, <2>1 DEF SizeInv
<1>3. ASSUME NEW r \in Resources
      PROVE  {tail[r][i] : i \in 1..Len(tail[r])} = Writes \cap InFlight(r)
  <2>1. tail[r] \in Seq(Writes) /\ InFlight(r) = {c \in Calls : On[c] = r /\ call[c] \in Active}
    BY <1>1, InFlightIs DEF PoolType
  <2>2. \A i \in 1..Len(tail[r]) : tail[r][i] \in Writes /\ tail[r][i] \in InFlight(r)
    BY <1>1, <2>1 DEF TailInv, PoolAssumption
  <2>3. \A c \in Writes \cap InFlight(r) : \E i \in 1..Len(tail[r]) : tail[r][i] = c
    BY <1>1, <2>1 DEF TailInv
  <2> QED
    BY <2>2, <2>3
<1>4. Places = {"new", "queued", "admission", "using", "used"} \cup Settled
  BY DEF Places, Settled
<1> QED
  BY <1>1, <1>2, <1>3, <1>4 DEF PoolType, TypeOK

LEMMA SafetyFollows ==
  PoolAssumption /\ IInv =>
    /\ HandlesBounded /\ MaintainedAlone /\ ClosedIsEmpty
    /\ sweeps = 0 => NobodyCut
<1> SUFFICES ASSUME PoolAssumption, IInv
             PROVE  /\ HandlesBounded /\ MaintainedAlone /\ ClosedIsEmpty
                    /\ sweeps = 0 => NobodyCut
  OBVIOUS
<1>1. HandlesBounded
  BY SizesAre DEF IInv, SizeInv, HandlesBounded, OpenCount
<1>2. MaintainedAlone
  BY DEF IInv, LifeInv, MaintainedAlone
<1>3. ClosedIsEmpty
  <2>1. SUFFICES ASSUME store = "closed" PROVE ClosedIsEmpty
    BY DEF ClosedIsEmpty
  <2>2. \A r \in Resources : ~Cached(r) /\ ~Blocked(r) /\ InFlight(r) = {}
    BY <2>1 DEF IInv, LifeInv
  <2>3. ASSUME NEW c \in Calls PROVE call[c] \in Settled \cup {"new"}
    <3>1. On[c] \in Resources /\ c \notin InFlight(On[c])
      BY <2>2 DEF PoolAssumption
    <3> QED
      BY <3>1 DEF InFlight, Settled
  <2> QED
    BY <2>2, <2>3 DEF ClosedIsEmpty
<1>4. sweeps = 0 => NobodyCut
  BY DEF IInv, SweepInv, NobodyCut
<1> QED
  BY <1>1, <1>2, <1>3, <1>4

\* A resource nobody has a call to has no users.
LEMMA NoCallNoUser ==
  ASSUME IInv, NEW r \in Resources, InFlight(r) = {}
  PROVE  users[r] = {}
<1>1. ASSUME NEW c \in users[r] PROVE FALSE
  <2>1. c \in Calls /\ On[c] = r /\ call[c] = "using"
    BY <1>1 DEF IInv, PoolType, UseInv
  <2> QED
    BY <2>1 DEF InFlight
<1> QED
  BY <1>1

\* Whoever closes a database finds it without users, but for a sweep that has
\* come to a later one of its list.
LEMMA CutsFollow == IInv /\ [Next]_vars => CutStep
<1> SUFFICES ASSUME IInv, [Next]_vars, cut' # cut
             PROVE  door = "sweeping" /\ \E r \in sweep : r \notin sweep' /\ cut' = cut \cup users[r]
  BY DEF CutStep
<1>1. ASSUME NEW r \in Resources, Drops(r), users[r] = {} PROVE FALSE
  BY <1>1 DEF Drops
<1>2. ASSUME NEW c \in Calls, Step(c) PROVE FALSE
  BY <1>2 DEF Step, Read, Write, WriteTurn, EndUse, NextPhase, WriteSettles
<1>3. ASSUME NEW r \in Resources, Evict(r) PROVE FALSE
  BY <1>1, <1>3 DEF Evict, Idle
<1>4. ASSUME SweepStarts PROVE FALSE
  <2>1. PICK expired \in SUBSET {r \in Resources : Idle(r)} :
          \/ cut' = cut
          \/ \E r \in expired : Drops(r)
    BY <1>4 DEF SweepStarts
  <2>2. PICK r \in expired : Drops(r)
    BY <2>1
  <2> QED
    BY <1>1, <2>2 DEF Idle
<1>5. ASSUME NEW r \in Resources, SweepCloses(r)
      PROVE  door = "sweeping" /\ \E s \in sweep : s \notin sweep' /\ cut' = cut \cup users[s]
  <2>1. door = "sweeping" /\ r \in sweep /\ r \notin sweep'
    BY <1>5 DEF SweepCloses
  <2>2. cut' = cut \cup users[r]
    BY <1>5 DEF SweepCloses, Drops
  <2> QED
    BY <2>1, <2>2
<1>6. ASSUME NEW r \in Resources, Lifecycle(r) PROVE FALSE
  <2>1. CASE MaintainCloses(r)
    BY <1>1, <2>1, NoCallNoUser DEF MaintainCloses, Drained
  <2>2. CASE MaintainClosed(r) \/ MaintainEnds(r)
    BY <2>2 DEF MaintainClosed, MaintainEnds
  <2> QED
    BY <1>6, <2>1, <2>2 DEF Lifecycle
<1>7. ASSUME CloseHandles PROVE FALSE
  <2>1. \A r \in Resources : users[r] = {}
    BY <1>7, NoCallNoUser DEF CloseHandles, Quiet
  <2>2. UNION {users[r] : r \in Resources} = {}
    BY <2>1
  <2> QED
    BY <1>7, <2>2 DEF CloseHandles
<1>8. CASE UNCHANGED vars
  BY <1>8 DEF vars
<1>9. CASE AdmitCached \/ AdmitOpening \/ RetryCloses \/ EvictEnds \/ Park \/ SweepClosed \/ SweepEnds
  BY <1>9 DEF AdmitCached, AdmitOpening, RetryCloses, EvictEnds, Park, SweepClosed, SweepEnds, pool
<1>10. CASE SweepDue \/ Close \/ \E r \in Resources : OpeningEnds(r) \/ Maintain(r)
  BY <1>10 DEF SweepDue, Close, OpeningEnds, Maintain
<1> QED
  BY <1>2, <1>3, <1>4, <1>5, <1>6, <1>7, <1>8, <1>9, <1>10 DEF Next, Door

\* At most MaxOpen databases are open, half open, half closed or closed in
\* vain, however calls, the door, sweeps, maintenance and shutdown interleave
\* and whatever closes fail (openHandleCount).
THEOREM HandlesStayBounded ==
  ASSUME PoolAssumption PROVE Spec => []HandlesBounded
<1>1. IInv => HandlesBounded
  BY SafetyFollows
<1> QED
  BY <1>1, PoolHolds, PTL

\* Deletion and verification have the files to themselves, and a store that
\* closed left nothing open and nobody waiting (deleteResource, close).
THEOREM MaintenanceIsAlone ==
  ASSUME PoolAssumption PROVE Spec => [](MaintainedAlone /\ ClosedIsEmpty)
<1>1. IInv => MaintainedAlone /\ ClosedIsEmpty
  BY SafetyFollows
<1> QED
  BY <1>1, PoolHolds, PTL

\* As long as no sweep of idle handles ran, no database was closed under a
\* call: eviction, deletion, verification and shutdown close idle ones only.
THEOREM OnlySweepsCut ==
  ASSUME PoolAssumption PROVE Spec => [](sweeps = 0 => NobodyCut)
<1>1. IInv => (sweeps = 0 => NobodyCut)
  BY SafetyFollows
<1> QED
  BY <1>1, PoolHolds, PTL

\* Nor does a sweep, for a handle that nobody took since it was listed: what a
\* step closes under its calls is a handle of the list that the running sweep
\* made earlier, and nothing else (closeExpiredIdleHandles).
THEOREM CutsAreListed == ASSUME PoolAssumption PROVE Spec => OnlyListedAreCut
<1>1. Init => IInv
  BY InitHolds
<1>2. IInv /\ [Next]_vars => IInv'
  BY NextKeeps, SameKeeps
<1>3. IInv /\ [Next]_vars => [CutStep]_vars
  BY CutsFollow
<1> QED
  BY <1>1, <1>2, <1>3, PTL DEF Spec, OnlyListedAreCut
================================================================================
