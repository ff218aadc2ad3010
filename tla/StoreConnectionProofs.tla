------------------------- MODULE StoreConnectionProofs -------------------------
(***************************************************************************)
(* One operation at a time holds the connection, for any operations, in    *)
(* any order of calls, failures and drops of the tail.                     *)
(*                                                                         *)
(* The chain is a linear order although each operation knows only the one  *)
(* before it and the scope only the last.  ChainInv says so without paths: *)
(* every set of live operations that lacks the tail has a successor        *)
(* outside of it.  Hence a ready tail is alone, the tail is dropped only   *)
(* when nobody is live, and at most one live operation is ready.           *)
(***************************************************************************)
EXTENDS StoreConnection, TLAPS

\* Called outside of a lease and not settled yet.
Live == {t \in Tasks : phase[t] \in {"waiting", "active"} /\ t \notin nested}

\* What it waits for has settled.
Ready(t) == prev[t] # None => phase[prev[t]] = "settled"

ChainType ==
  /\ phase \in [Tasks -> {"idle", "waiting", "active", "settled"}]
  /\ nested \subseteq Tasks
  /\ prev \in [Tasks -> Tasks \cup {None}]
  /\ tail \in Tasks \cup {None}
  /\ open \in Tasks \cup {None}
  /\ step \in [Tasks -> Steps]

ChainInv ==
  /\ Live # {} => tail \in Live
  /\ \A S \in SUBSET Live : S # {} /\ tail \notin S =>
       \E s \in S, u \in Live \ S : prev[u] = s
  /\ \A t, u \in Live : Ready(t) /\ Ready(u) => t = u
  /\ \A t, u \in Live : prev[t] = prev[u] /\ prev[t] \in Live => t = u
  /\ \A t \in Tasks : prev[t] # None => phase[prev[t]] # "idle" /\ prev[t] \notin nested
  /\ tail # None => phase[tail] # "idle" /\ tail \notin nested
                    /\ \A t \in Tasks : prev[t] # tail
  /\ \A t \in Owners : Ready(t)

NestedInv ==
  \A n \in nested : /\ phase[n] \in {"active", "settled"} /\ Kind[n] = "write" /\ Parent[n] \in Tasks
                    /\ phase[n] = "active" => Parent[n] \in Owners

OpenInv ==
  /\ open # None => open \in Owners /\ step[open] # "begin"
  /\ \A t \in Tasks : phase[t] = "active" /\ step[t] # "begin" => open = t
  /\ \A t \in Tasks : phase[t] \in {"idle", "waiting"} => step[t] = "begin"

IInv == ChainType /\ ChainInv /\ NestedInv /\ OpenInv

-----------------------------------------------------------------------------
(***************************************************************************)
(* What the chain does.                                                    *)
(***************************************************************************)
\* A ready tail is the only live operation: another one would have the
\* successor that ChainInv names for all live operations but the tail.
LEMMA ReadyTailIsAlone ==
  ASSUME ChainInv, tail \in Live, Ready(tail)
  PROVE  Live = {tail}
<1>1. SUFFICES ASSUME Live \ {tail} # {} PROVE FALSE
  OBVIOUS
<1>2. PICK s \in Live \ {tail}, u \in Live \ (Live \ {tail}) : prev[u] = s
  BY <1>1 DEF ChainInv
<1>3. u = tail /\ prev[tail] = s
  BY <1>2
<1>4. s # None /\ phase[s] # "settled"
  BY <1>2, ParentAssumption DEF Live
<1> QED
  BY <1>3, <1>4 DEF Ready

\* An operation that settles, inside a lease or as the owner of one, leaves a
\* chain behind: whoever waited for it becomes the one that is ready.
LEMMA SettleKeepsChain ==
  ASSUME ChainType, ChainInv, NEW t \in Tasks, phase[t] = "active",
         phase' = [phase EXCEPT ![t] = "settled"], UNCHANGED <<nested, prev, tail>>
  PROVE  ChainInv'
<1>1. Live' = Live \ {t}
  BY DEF Live, ChainType
<1>2. Owners' = Owners \ {t}
  BY DEF Owners, ChainType
<1>3. \A u \in Tasks : Ready(u)' <=> (Ready(u) \/ prev[u] = t)
  BY ParentAssumption DEF Ready, ChainType
<1>4. ASSUME t \in Live PROVE Ready(t)
  BY <1>4 DEF ChainInv, Live, Owners
<1>5. Live' # {} => tail' \in Live'
  <2>1. CASE t = tail
    BY <2>1, <1>1, <1>4, ReadyTailIsAlone DEF ChainInv
  <2>2. CASE t # tail
    BY <2>2, <1>1 DEF ChainInv
  <2> QED
    BY <2>1, <2>2
<1>6. ASSUME NEW S \in SUBSET Live', S # {}, tail' \notin S
      PROVE  \E s \in S, u \in Live' \ S : prev'[u] = s
  <2>1. PICK s \in S, u \in Live \ S : prev[u] = s
    BY <1>1, <1>6 DEF ChainInv
  <2>2. u # t
    <3>1. s # None /\ phase[s] # "settled"
      BY <1>1, <1>6, <2>1, ParentAssumption DEF Live
    <3> QED
      BY <2>1, <3>1, <1>4 DEF Ready
  <2> QED
    BY <1>1, <2>1, <2>2
<1>7. ASSUME NEW u \in Live', NEW v \in Live', Ready(u)', Ready(v)' PROVE u = v
  <2>1. u \in Live /\ v \in Live /\ u # t /\ v # t /\ u \in Tasks /\ v \in Tasks
    BY <1>1 DEF Live
  <2>2. CASE t \in Live
    <3>1. ~Ready(u) /\ ~Ready(v)
      BY <1>4, <2>1, <2>2 DEF ChainInv
    <3>2. prev[u] = t /\ prev[v] = t
      BY <1>3, <1>7, <2>1, <3>1
    <3> QED
      BY <2>1, <2>2, <3>2 DEF ChainInv
  <2>3. CASE t \notin Live
    <3>1. t \in nested /\ t # None
      BY <2>3, ParentAssumption DEF Live
    <3>2. prev[u] # t /\ prev[v] # t
      BY <2>1, <3>1 DEF ChainInv
    <3> QED
      BY <2>1, <3>2, <1>3, <1>7 DEF ChainInv
  <2> QED
    BY <2>2, <2>3
<1>8. ASSUME NEW u \in Live', NEW v \in Live', prev'[u] = prev'[v], prev'[u] \in Live'
      PROVE  u = v
  BY <1>1, <1>8 DEF ChainInv
<1>9. \A u \in Tasks : prev'[u] # None => phase'[prev'[u]] # "idle" /\ prev'[u] \notin nested'
  BY DEF ChainInv, ChainType
<1>10. tail' # None => phase'[tail'] # "idle" /\ tail' \notin nested'
                       /\ \A u \in Tasks : prev'[u] # tail'
  BY DEF ChainInv, ChainType
<1>11. ASSUME NEW u \in Owners' PROVE Ready(u)'
  BY <1>2, <1>3, <1>11 DEF ChainInv, Owners
<1> QED
  BY <1>5, <1>6, <1>7, <1>8, <1>9, <1>10, <1>11 DEF ChainInv

LEMMA CallNestedKeepsChain ==
  ASSUME ChainType, ChainInv, NEW t \in Tasks, CallNested(t)
  PROVE  ChainInv'
<1>1. phase[t] = "idle" /\ phase' = [phase EXCEPT ![t] = "active"]
      /\ nested' = nested \cup {t} /\ UNCHANGED <<prev, tail>>
  BY DEF CallNested, Callable
<1>2. Live' = Live /\ Owners' = Owners
  BY <1>1 DEF Live, Owners, ChainType
<1>3. t # None
  BY ParentAssumption
<1>4. \A u \in Tasks : prev[u] # t
  BY <1>1, <1>3 DEF ChainInv
<1>5. \A u \in Tasks : Ready(u)' <=> Ready(u)
  BY <1>1, <1>4 DEF Ready, ChainType
<1>6. \A u \in Tasks : prev'[u] # None => phase'[prev'[u]] # "idle" /\ prev'[u] \notin nested'
  BY <1>1, <1>4 DEF ChainInv, ChainType
<1>7. tail' # None => phase'[tail'] # "idle" /\ tail' \notin nested'
                      /\ \A u \in Tasks : prev'[u] # tail'
  BY <1>1 DEF ChainInv, ChainType
<1>8. Live \subseteq Tasks /\ Owners \subseteq Tasks
  BY DEF Live, Owners
<1> QED
  BY <1>1, <1>2, <1>5, <1>6, <1>7, <1>8 DEF ChainInv

\* The new operation is behind the tail and becomes the tail.
LEMMA CallChainedKeepsChain ==
  ASSUME ChainType, ChainInv, NestedInv, NEW t \in Tasks, CallChained(t)
  PROVE  ChainInv'
<1>1. phase[t] = "idle" /\ phase' = [phase EXCEPT ![t] = "waiting"]
      /\ prev' = [prev EXCEPT ![t] = tail] /\ tail' = t /\ nested' = nested
  BY DEF CallChained, Callable
<1>2. t \notin nested /\ t # tail /\ t # None /\ t \notin Live
  BY <1>1, ParentAssumption DEF NestedInv, ChainInv, Live
<1>3. Live' = Live \cup {t} /\ Owners' = Owners
  BY <1>1, <1>2 DEF Live, Owners, ChainType
<1>4. \A u \in Tasks : prev[u] # t
  BY <1>1, <1>2 DEF ChainInv
<1>5. \A u \in Tasks \ {t} : prev'[u] = prev[u] /\ (Ready(u)' <=> Ready(u))
  BY <1>1, <1>4 DEF Ready, ChainType
<1>6. prev'[t] = tail /\ (Ready(t)' => Live = {})
  <2>1. prev'[t] = tail
    BY <1>1 DEF ChainType
  <2>2. ASSUME Ready(t)' PROVE tail \notin Live
    BY <2>1, <2>2, <1>1, <1>2, ParentAssumption DEF Ready, Live, ChainType
  <2> QED
    BY <2>1, <2>2 DEF ChainInv
<1>7. Live' # {} => tail' \in Live'
  BY <1>1, <1>3
<1>8. ASSUME NEW S \in SUBSET Live', S # {}, tail' \notin S
      PROVE  \E s \in S, u \in Live' \ S : prev'[u] = s
  <2>1. S \subseteq Live
    BY <1>1, <1>3, <1>8
  <2>2. CASE tail \in S
    BY <2>2, <1>1, <1>3, <1>6, <1>8
  <2>3. CASE tail \notin S
    <3>1. PICK s \in S, u \in Live \ S : prev[u] = s
      BY <2>1, <2>3, <1>8 DEF ChainInv
    <3> QED
      BY <3>1, <1>2, <1>3, <1>5 DEF Live
  <2> QED
    BY <2>2, <2>3
<1>9. ASSUME NEW u \in Live', NEW v \in Live', Ready(u)', Ready(v)' PROVE u = v
  BY <1>3, <1>5, <1>6, <1>9 DEF ChainInv, Live
<1>10. ASSUME NEW u \in Live', NEW v \in Live', prev'[u] = prev'[v], prev'[u] \in Live'
       PROVE  u = v
  <2>1. \A w \in Live : prev[w] # tail \/ tail = None
    BY DEF ChainInv, Live
  <2>2. prev'[u] # t /\ prev'[u] # None
    BY <1>10, <1>1, <1>2, <1>4, ParentAssumption DEF Live, ChainType
  <2>3. CASE u = t \/ v = t
    BY <2>1, <2>2, <2>3, <1>3, <1>5, <1>6, <1>10 DEF Live
  <2>4. CASE u # t /\ v # t
    BY <2>2, <2>4, <1>3, <1>5, <1>10 DEF ChainInv, Live
  <2> QED
    BY <2>3, <2>4
<1>11. \A u \in Tasks : prev'[u] # None => phase'[prev'[u]] # "idle" /\ prev'[u] \notin nested'
  BY <1>1, <1>2, <1>4 DEF ChainInv, ChainType
<1>12. tail' # None => phase'[tail'] # "idle" /\ tail' \notin nested'
                       /\ \A u \in Tasks : prev'[u] # tail'
  BY <1>1, <1>2, <1>4 DEF ChainType
<1>13. ASSUME NEW u \in Owners' PROVE Ready(u)'
  BY <1>1, <1>3, <1>5, <1>13 DEF ChainInv, Owners
<1> QED
  BY <1>7, <1>8, <1>9, <1>10, <1>11, <1>12, <1>13 DEF ChainInv

LEMMA StartKeepsChain ==
  ASSUME ChainType, ChainInv, NEW t \in Tasks, Start(t)
  PROVE  ChainInv'
<1>1. phase[t] = "waiting" /\ Ready(t) /\ phase' = [phase EXCEPT ![t] = "active"]
      /\ UNCHANGED <<nested, prev, tail>>
  BY DEF Start, Ready
<1>2. Live' = Live
  BY <1>1 DEF Live, ChainType
<1>3. \A u \in Tasks : Ready(u)' <=> Ready(u)
  BY <1>1 DEF Ready, ChainType
<1>4. \A u \in Owners' : Ready(u)'
  BY <1>1, <1>3 DEF Owners, ChainInv, ChainType
<1>5. Live \subseteq Tasks
  BY DEF Live
<1>6. \A u \in Tasks : phase[u] # "idle" => phase'[u] # "idle"
  BY <1>1 DEF ChainType
<1> QED
  BY <1>1, <1>2, <1>3, <1>4, <1>5, <1>6 DEF ChainInv, ChainType

\* A settled tail is the tail of nobody.
LEMMA DropTailKeepsChain ==
  ASSUME ChainType, ChainInv, DropTail
  PROVE  ChainInv'
<1>1. tail # None /\ phase[tail] = "settled" /\ tail' = None
      /\ UNCHANGED <<phase, nested, prev>>
  BY DEF DropTail
<1>2. Live = {}
  BY <1>1 DEF ChainInv, Live
<1>3. Live' = {} /\ Owners' = {}
  BY <1>1, <1>2 DEF Live, Owners
<1> QED
  BY <1>1, <1>3 DEF ChainInv

-----------------------------------------------------------------------------
(***************************************************************************)
(* What the statements do.                                                 *)
(***************************************************************************)
LEMMA OwnersAreOne ==
  ASSUME ChainInv PROVE \A t, u \in Owners : t = u
<1>1. Owners \subseteq Live
  BY DEF Owners, Live
<1> QED
  BY <1>1 DEF ChainInv

\* An operation that has begun a transaction is its owner.
LEMMA BegunIsOwner ==
  ASSUME IInv, NEW t \in Tasks, NEW s, Runs(t, s), s # "begin"
  PROVE  open = t /\ t \in Owners
<1>1. open = t
  BY DEF Runs, IInv, OpenInv
<1>2. t # None
  BY ParentAssumption
<1> QED
  BY <1>1, <1>2 DEF IInv, OpenInv

\* An operation that is about to begin, and is not nested, meets no transaction.
LEMMA BeginnerIsAlone ==
  ASSUME IInv, NEW t \in Tasks \ nested, Runs(t, "begin")
  PROVE  open = None
<1>1. t \in Owners
  BY DEF Runs, Owners
<1>2. SUFFICES ASSUME open # None PROVE FALSE
  OBVIOUS
<1>3. open = t
  BY <1>1, <1>2, OwnersAreOne DEF IInv, OpenInv
<1> QED
  BY <1>2, <1>3 DEF IInv, OpenInv, Runs

\* A statement inside a transaction.
LEMMA AdvanceKeeps ==
  ASSUME IInv, NEW t \in Tasks, NEW r, NEW s, Runs(t, r), r # "begin",
         s \in Steps \ {"begin"},
         step' = [step EXCEPT ![t] = s] \/ step' = step,
         open' = open, UNCHANGED chain
  PROVE  IInv'
<1>1. open = t /\ step[t] # "begin"
  BY BegunIsOwner DEF Runs
<1>2. ChainType'
  BY DEF IInv, ChainType, chain
<1>3. ChainInv'
  BY DEF IInv, ChainInv, Live, Ready, Owners, chain
<1>4. NestedInv'
  BY DEF IInv, NestedInv, Owners, chain
<1>5. OpenInv'
  BY <1>1 DEF IInv, OpenInv, ChainType, Owners, chain
<1> QED
  BY <1>2, <1>3, <1>4, <1>5 DEF IInv

\* An operation that settles, and ends the transaction if it is its own.
LEMMA SettleKeeps ==
  ASSUME IInv, NEW t \in Tasks, NEW s, Runs(t, s),
         phase' = [phase EXCEPT ![t] = "settled"],
         UNCHANGED <<nested, prev, tail, step>>,
         (open = t /\ open' = None) \/ (open # t /\ open' = open)
  PROVE  IInv'
<1>1. phase[t] = "active" /\ \A n \in nested : Parent[n] = t => phase[n] = "settled"
  BY DEF Runs
<1>2. ChainType'
  BY DEF IInv, ChainType
<1>3. ChainInv'
  BY <1>1, SettleKeepsChain DEF IInv
<1>4. Owners' = Owners \ {t}
  BY DEF Owners, IInv, ChainType
<1>5. NestedInv'
  <2>1. SUFFICES ASSUME NEW n \in nested
                 PROVE  /\ phase'[n] \in {"active", "settled"} /\ Kind[n] = "write" /\ Parent[n] \in Tasks
                        /\ phase'[n] = "active" => Parent[n] \in Owners'
    BY DEF NestedInv
  <2>2. n \in Tasks
    BY DEF IInv, ChainType
  <2>3. phase'[n] = IF n = t THEN "settled" ELSE phase[n]
    BY <2>2 DEF IInv, ChainType
  <2> QED
    BY <2>3, <1>1, <1>4 DEF IInv, NestedInv
<1>6. OpenInv'
  <2>1. open' # None => open' \in Owners' /\ step'[open'] # "begin"
    BY <1>4 DEF IInv, OpenInv
  <2>2. ASSUME NEW u \in Tasks, phase'[u] = "active", step'[u] # "begin" PROVE open' = u
    BY <2>2 DEF IInv, OpenInv, ChainType
  <2>3. ASSUME NEW u \in Tasks, phase'[u] \in {"idle", "waiting"} PROVE step'[u] = "begin"
    BY <2>3 DEF IInv, OpenInv, ChainType
  <2> QED
    BY <2>1, <2>2, <2>3 DEF OpenInv
<1> QED
  BY <1>2, <1>3, <1>5, <1>6 DEF IInv

-----------------------------------------------------------------------------
LEMMA InitInv == Init => IInv
<1> SUFFICES ASSUME Init PROVE IInv
  OBVIOUS
<1>1. Live = {} /\ Owners = {}
  BY DEF Init, Live, Owners
<1>2. ChainType
  BY ParentAssumption DEF Init, ChainType, Steps
<1>3. ChainInv
  BY <1>1 DEF Init, ChainInv
<1> QED
  BY <1>2, <1>3 DEF Init, IInv, NestedInv, OpenInv

LEMMA CallNestedKeeps ==
  ASSUME IInv, NEW t \in Tasks, CallNested(t) PROVE IInv'
<1>1. phase[t] = "idle" /\ phase' = [phase EXCEPT ![t] = "active"]
      /\ nested' = nested \cup {t} /\ UNCHANGED <<prev, tail, open, step>>
      /\ Parent[t] # None /\ phase[Parent[t]] = "active"
  BY DEF CallNested, Callable, InLease, database, locals
<1>2. Parent[t] \in Tasks /\ Kind[Parent[t]] = "batch" /\ Kind[t] = "write"
  BY <1>1, ParentAssumption
<1>3. Parent[t] \in Owners
  BY <1>1, <1>2 DEF IInv, NestedInv, Owners
<1>4. Owners' = Owners
  BY <1>1 DEF Owners, IInv, ChainType
<1>5. ChainType'
  BY <1>1 DEF IInv, ChainType
<1>6. ChainInv'
  BY CallNestedKeepsChain DEF IInv
<1>7. NestedInv'
  BY <1>1, <1>2, <1>3, <1>4 DEF IInv, NestedInv, ChainType
<1>8. step[t] = "begin"
  BY <1>1 DEF IInv, OpenInv
<1>9. OpenInv'
  BY <1>1, <1>4, <1>8 DEF IInv, OpenInv, ChainType
<1> QED
  BY <1>5, <1>6, <1>7, <1>9 DEF IInv

LEMMA CallChainedKeeps ==
  ASSUME IInv, NEW t \in Tasks, CallChained(t) PROVE IInv'
<1>1. phase[t] = "idle" /\ phase' = [phase EXCEPT ![t] = "waiting"]
      /\ prev' = [prev EXCEPT ![t] = tail] /\ tail' = t
      /\ UNCHANGED <<nested, open, step>>
  BY DEF CallChained, Callable, database, locals
<1>2. Owners' = Owners
  BY <1>1 DEF Owners, IInv, ChainType
<1>3. ChainType'
  BY <1>1 DEF IInv, ChainType
<1>4. ChainInv'
  BY CallChainedKeepsChain DEF IInv
<1>5. NestedInv'
  BY <1>1, <1>2 DEF IInv, NestedInv, ChainType
<1>6. OpenInv'
  BY <1>1, <1>2 DEF IInv, OpenInv, ChainType
<1> QED
  BY <1>3, <1>4, <1>5, <1>6 DEF IInv

LEMMA StartKeeps ==
  ASSUME IInv, NEW t \in Tasks, Start(t) PROVE IInv'
<1>1. phase[t] = "waiting" /\ phase' = [phase EXCEPT ![t] = "active"]
      /\ UNCHANGED <<nested, prev, tail, open, step>>
  BY DEF Start, database, locals
<1>2. Owners \subseteq Owners'
  BY <1>1 DEF Owners, IInv, ChainType
<1>3. ChainType'
  BY <1>1 DEF IInv, ChainType
<1>4. ChainInv'
  BY StartKeepsChain DEF IInv
<1>5. NestedInv'
  BY <1>1, <1>2 DEF IInv, NestedInv, ChainType
<1>6. OpenInv'
  BY <1>1, <1>2 DEF IInv, OpenInv, ChainType
<1> QED
  BY <1>3, <1>4, <1>5, <1>6 DEF IInv

LEMMA DropTailKeeps ==
  ASSUME IInv, DropTail PROVE IInv'
<1>1. tail' = None /\ UNCHANGED <<phase, nested, prev, open, step>>
  BY DEF DropTail, database, locals
<1>2. ChainInv'
  BY DropTailKeepsChain DEF IInv
<1> QED
  BY <1>1, <1>2 DEF IInv, ChainType, NestedInv, OpenInv, Owners

LEMMA BeginKeeps ==
  ASSUME IInv, NEW t \in Tasks, Begin(t) PROVE IInv'
<1>1. Kind[t] # "write" /\ Runs(t, "begin") /\ UNCHANGED <<nested, prev, tail>>
  BY DEF Begin
<1>2. t \notin nested
  BY <1>1 DEF IInv, NestedInv
<1>3. open = None
  BY <1>1, <1>2, BeginnerIsAlone
<1>4. open' = t /\ step' = [step EXCEPT ![t] = FirstStep[Kind[t]]] /\ phase' = phase
  BY <1>3 DEF Begin, Goto
<1>5. FirstStep[Kind[t]] \in Steps \ {"begin"}
  <2>1. Kind[t] \in {"commit", "snapshot", "batch"}
    BY <1>1, TaskAssumption DEF Kinds
  <2> QED
    BY <2>1 DEF FirstStep, Steps
<1>6. t \in Owners /\ Owners' = Owners
  BY <1>1, <1>2, <1>4 DEF Runs, Owners
<1>7. ChainType'
  BY <1>1, <1>4, <1>5 DEF IInv, ChainType
<1>8. ChainInv'
  BY <1>1, <1>4 DEF IInv, ChainInv, Live, Ready, Owners
<1>9. NestedInv'
  BY <1>1, <1>4, <1>6 DEF IInv, NestedInv
<1>10. OpenInv'
  <2>1. \A u \in Tasks : phase[u] = "active" /\ step[u] # "begin" => FALSE
    BY <1>3, ParentAssumption DEF IInv, OpenInv
  <2> QED
    BY <2>1, <1>1, <1>4, <1>5, <1>6 DEF Runs, IInv, OpenInv, ChainType
<1> QED
  BY <1>7, <1>8, <1>9, <1>10 DEF IInv

LEMMA WriteKeeps ==
  ASSUME IInv, NEW t \in Tasks, Write(t) PROVE IInv'
<1>1. Runs(t, "begin") /\ phase' = [phase EXCEPT ![t] = "settled"]
      /\ UNCHANGED <<nested, prev, tail, step, open>>
  BY DEF Write, Settle
<1>2. open # t
  BY <1>1, ParentAssumption DEF IInv, OpenInv, Runs
<1> QED
  BY <1>1, <1>2, SettleKeeps

LEMMA CommitKeeps ==
  ASSUME IInv, NEW t \in Tasks, Commit(t) PROVE IInv'
<1>1. Runs(t, "commit") /\ phase' = [phase EXCEPT ![t] = "settled"]
      /\ UNCHANGED <<nested, prev, tail, step>> /\ open' = None
  BY DEF Commit, Settle
<1>2. open = t
  BY <1>1, BegunIsOwner
<1> QED
  BY <1>1, <1>2, SettleKeeps

LEMMA FailKeeps ==
  ASSUME IInv, NEW t \in Tasks, Fail(t) PROVE IInv'
<1>1. PICK s \in Steps : Runs(t, s)
  BY DEF Fail
<1>2. phase' = [phase EXCEPT ![t] = "settled"] /\ UNCHANGED <<nested, prev, tail, step>>
  BY DEF Fail, Settle
<1>3. CASE step[t] = "begin"
  <2>1. open' = open
    BY <1>3 DEF Fail, database
  <2>2. open # t
    BY <1>3, ParentAssumption DEF IInv, OpenInv
  <2> QED
    BY <1>1, <1>2, <2>1, <2>2, SettleKeeps
<1>4. CASE step[t] # "begin"
  <2>1. open = t /\ open' = None
    BY <1>4 DEF Fail, RollBack
  <2> QED
    BY <1>1, <1>2, <2>1, SettleKeeps
<1> QED
  BY <1>3, <1>4

LEMMA StatementKeeps ==
  ASSUME IInv, NEW t \in Tasks, Statement(t) PROVE IInv'
<1> USE DEF Goto, Return
<1>1. CASE ReadReceipt(t)
  BY <1>1, AdvanceKeeps DEF ReadReceipt, database, Steps
<1>2. CASE SwapRevision(t)
  BY <1>2, AdvanceKeeps DEF SwapRevision, Steps
<1>3. CASE WriteItem(t)
  BY <1>3, AdvanceKeeps DEF WriteItem, Steps
<1>4. CASE WriteReceipt(t)
  BY <1>4, AdvanceKeeps DEF WriteReceipt, Steps
<1>5. CASE ReadRevision(t)
  BY <1>5, AdvanceKeeps DEF ReadRevision, database, Steps
<1>6. CASE ReadRows(t)
  BY <1>6, AdvanceKeeps DEF ReadRows, database, Steps
<1>7. CASE KeepRow(t)
  BY <1>7, AdvanceKeeps DEF KeepRow, Steps
<1> QED
  BY <1>1, <1>2, <1>3, <1>4, <1>5, <1>6, <1>7, BeginKeeps, WriteKeeps, CommitKeeps
     DEF Statement

LEMMA IdleKeeps ==
  ASSUME IInv, UNCHANGED <<chain, open, step>> PROVE IInv'
BY DEF IInv, ChainType, ChainInv, NestedInv, OpenInv, Live, Ready, Owners, chain

LEMMA ReadKeeps ==
  ASSUME IInv, NEW q \in Queries, Read(q) PROVE IInv'
BY IdleKeeps DEF Read, QueryRevision, QueryPage, QueryRecheck, database, locals

LEMMA NextInv == IInv /\ [Next]_vars => IInv'
<1> SUFFICES ASSUME IInv, [Next]_vars PROVE IInv'
  OBVIOUS
<1>1. CASE UNCHANGED vars
  BY <1>1, IdleKeeps DEF vars, database, locals
<1>2. CASE Next
  BY <1>2, CallNestedKeeps, CallChainedKeeps, StartKeeps, StatementKeeps, FailKeeps,
     DropTailKeeps, ReadKeeps DEF Next
<1> QED
  BY <1>1, <1>2

THEOREM ChainIsInvariant == Spec => []IInv
BY InitInv, NextInv, PTL DEF Spec

\* One operation at a time holds the connection, and nested work runs inside
\* the operation that holds it (run-database-transaction.ts).
THEOREM OneOwnerOfTheConnection == Spec => []SingleOwner
<1>1. IInv => SingleOwner
  BY OwnersAreOne DEF IInv, NestedInv, SingleOwner
<1> QED
  BY <1>1, ChainIsInvariant, PTL

\* No BEGIN is rejected and no single write joins another store's transaction.
THEOREM NothingIntrudesEver == Spec => []NothingIntrudes
<1>1. IInv => NothingIntrudes
  BY BeginnerIsAlone DEF NothingIntrudes
<1> QED
  BY <1>1, ChainIsInvariant, PTL

-----------------------------------------------------------------------------
(***************************************************************************)
(* The statements of the shared connection implement the atomic operations *)
(* of StoreContract: what the open transaction has written so far is a     *)
(* function of the saved rows and of where the transaction stands, and the *)
(* saved rows change in its last step only.                                *)
(***************************************************************************)

Rest(t) == Changes[t] \ todo[t]

\* What a commit has decided by the time it returns.
Decided(t) ==
  \/ result[t] = "duplicate" /\ Key[t] \in saved.keys /\ view = saved
  \/ /\ result[t] = "conflict" /\ Key[t] \notin saved.keys /\ saved.rev # Expected[t]
     /\ view = saved
  \/ /\ result[t] = "ok" /\ Key[t] \notin saved.keys /\ saved.rev = Expected[t]
     /\ view = Put(Touch(Bump(saved), Changes[t]), {t})

\* The rows of the connection, at each statement of the transaction t.
Progress(t) ==
  /\ Kind[t] = "commit" =>
       /\ step[t] \in {"receipt", "revision", "items", "commit"}
       /\ step[t] = "receipt" => view = saved
       /\ step[t] = "revision" => view = saved /\ Key[t] \notin saved.keys
       /\ step[t] = "items" =>
            /\ Key[t] \notin saved.keys /\ saved.rev = Expected[t]
            /\ todo[t] \subseteq Changes[t]
            /\ view = Touch(Bump(saved), Rest(t))
       /\ step[t] = "commit" => Decided(t)
  /\ Kind[t] = "snapshot" =>
       /\ step[t] \in {"revision", "rows", "commit"} /\ view = saved
       /\ step[t] = "rows" => got[t] = [NoRows EXCEPT !.rev = saved.rev]
       /\ step[t] = "commit" => got[t] = Canvas(saved) /\ result[t] = "ok"
  /\ Kind[t] = "batch" =>
       /\ step[t] \in {"keep", "commit"}
       /\ step[t] = "keep" => \E S \in SUBSET Writes : view = Put(saved, S)
       /\ step[t] = "commit" =>
            result[t] = "ok" /\ \E S \in SUBSET Writes : view = Put(saved, S \cup {t})

DataType ==
  /\ saved \in Rows /\ view \in Rows
  /\ got \in [Tasks -> Rows] /\ todo \in [Tasks -> SUBSET Items]
  /\ result \in [Tasks -> Outcome] /\ outcome \in [Tasks -> Outcome]

DataInv ==
  /\ open = None => view = saved
  /\ open # None => Kind[open] # "write" /\ Progress(open)
  /\ \A t \in Tasks : step[t] \in {"begin", "receipt", "revision"} => todo[t] = Changes[t]
  /\ \A t \in Tasks : Kind[t] # "snapshot" \/ step[t] \in {"begin", "revision"} => got[t] = NoRows
  /\ \A t \in Tasks : outcome[t] # "none" <=> phase[t] = "settled"
  /\ \A n \in nested : phase[n] = "active" => open = Parent[n]

RInv == IInv /\ DataType /\ DataInv

-----------------------------------------------------------------------------
(***************************************************************************)
(* Rows.                                                                   *)
(***************************************************************************)
LEMMA PutFields ==
  ASSUME NEW r \in Rows, NEW S \in SUBSET Tasks
  PROVE  /\ Put(r, S) = [rev |-> r.rev, rows |-> r.rows, keys |-> r.keys \cup {Key[t] : t \in S}]
         /\ Put(r, S) \in Rows
BY DEF Put, Rows, Keys

LEMMA PutPut ==
  ASSUME NEW r \in Rows, NEW S \in SUBSET Tasks, NEW T \in SUBSET Tasks
  PROVE  Put(Put(r, S), T) = Put(r, S \cup T)
<1>1. Put(Put(r, S), T) = [rev |-> r.rev, rows |-> r.rows,
                            keys |-> r.keys \cup {Key[t] : t \in S} \cup {Key[t] : t \in T}]
  BY PutFields
<1>2. Put(r, S \cup T) = [rev |-> r.rev, rows |-> r.rows,
                           keys |-> r.keys \cup {Key[t] : t \in S \cup T}]
  BY PutFields
<1>3. {Key[t] : t \in S} \cup {Key[t] : t \in T} = {Key[t] : t \in S \cup T}
  OBVIOUS
<1> QED
  BY <1>1, <1>2, <1>3

LEMMA BumpFields ==
  ASSUME NEW r \in Rows
  PROVE  Bump(r) = [rev |-> r.rev + 1, rows |-> r.rows, keys |-> r.keys] /\ Bump(r) \in Rows
BY DEF Bump, Rows

LEMMA TouchFields ==
  ASSUME NEW r \in Rows, NEW S \in SUBSET Items
  PROVE  /\ Touch(r, S) = [rev |-> r.rev, keys |-> r.keys,
                           rows |-> [i \in Items |-> IF i \in S THEN r.rev ELSE r.rows[i]]]
         /\ Touch(r, S) \in Rows
<1>1. r \in [rev : Nat, rows : [Items -> Nat], keys : SUBSET Keys]
  BY DEF Rows
<1>2. Touch(r, S) = [rev |-> r.rev, keys |-> r.keys,
                      rows |-> [i \in Items |-> IF i \in S THEN r.rev ELSE r.rows[i]]]
  BY <1>1 DEF Touch
<1>3. [i \in Items |-> IF i \in S THEN r.rev ELSE r.rows[i]] \in [Items -> Nat]
  BY <1>1
<1> QED
  BY <1>1, <1>2, <1>3 DEF Rows

LEMMA TouchTouch ==
  ASSUME NEW r \in Rows, NEW S \in SUBSET Items, NEW T \in SUBSET Items
  PROVE  Touch(Touch(r, S), T) = Touch(r, S \cup T)
<1> DEFINE R(U) == [i \in Items |-> IF i \in U THEN r.rev ELSE r.rows[i]]
<1>1. Touch(Touch(r, S), T)
        = [rev |-> r.rev, keys |-> r.keys,
           rows |-> [i \in Items |-> IF i \in T THEN r.rev ELSE R(S)[i]]]
  BY TouchFields
<1>2. [i \in Items |-> IF i \in T THEN r.rev ELSE R(S)[i]] = R(S \cup T)
  OBVIOUS
<1>3. Touch(r, S \cup T) = [rev |-> r.rev, keys |-> r.keys, rows |-> R(S \cup T)]
  BY TouchFields
<1> QED
  BY <1>1, <1>2, <1>3

LEMMA TouchNothing ==
  ASSUME NEW r \in Rows PROVE Touch(r, {}) = r
<1>1. Touch(r, {}) = [rev |-> r.rev, keys |-> r.keys, rows |-> [i \in Items |-> r.rows[i]]]
  BY TouchFields
<1> QED
  BY <1>1 DEF Rows

LEMMA CanvasFields ==
  ASSUME NEW r \in Rows
  PROVE  Canvas(r) = [rev |-> r.rev, rows |-> r.rows, keys |-> {}] /\ Canvas(r) \in Rows
<1> DEFINE none == {k \in Keys : FALSE}
<1>1. none = {} /\ none \in SUBSET Keys
  OBVIOUS
<1> HIDE DEF none
<1>2. [r EXCEPT !.keys = none] = [rev |-> r.rev, rows |-> r.rows, keys |-> none]
  BY DEF Rows
<1>3. [rev |-> r.rev, rows |-> r.rows, keys |-> none] \in Rows
  BY <1>1 DEF Rows
<1>4. Canvas(r) = [r EXCEPT !.keys = none]
  BY <1>1, Zenon DEF Canvas
<1> QED
  BY <1>1, <1>2, <1>3, <1>4, Zenon

\* A snapshot reads the revision, then the rows.
LEMMA SnapshotFields ==
  ASSUME NEW r, NEW q
  PROVE  [[NoRows EXCEPT !.rev = r] EXCEPT !.rows = q] = [rev |-> r, rows |-> q, keys |-> {}]
<1> DEFINE zero == NoRows.rows
           none == NoRows.keys
<1>1. NoRows = [rev |-> 0, rows |-> zero, keys |-> none] /\ none = {}
  BY DEF NoRows
<1> HIDE DEF zero, none
<1>2. [[rev |-> 0, rows |-> zero, keys |-> none] EXCEPT !.rev = r]
        = [rev |-> r, rows |-> zero, keys |-> none]
  OBVIOUS
<1>3. [[rev |-> r, rows |-> zero, keys |-> none] EXCEPT !.rows = q]
        = [rev |-> r, rows |-> q, keys |-> none]
  OBVIOUS
<1> QED
  BY <1>1, <1>2, <1>3, Zenon

LEMMA SameRows ==
  /\ \A r, S : Contract!Put(r, S) = Put(r, S)
  /\ \A r, S : Contract!Touch(r, S) = Touch(r, S)
  /\ \A r : Contract!Bump(r) = Bump(r) /\ Contract!Canvas(r) = Canvas(r)
  /\ Contract!NoRows = NoRows /\ Contract!Writes = Writes
BY DEF Contract!Put, Put, Contract!Touch, Touch, Contract!Bump, Bump, Contract!Canvas,
       Canvas, Contract!NoRows, NoRows, Contract!Writes, Writes

-----------------------------------------------------------------------------
(***************************************************************************)
(* What the contract sees of an operation that settles or goes on.         *)
(***************************************************************************)
Unseen == UNCHANGED <<saved, Ended, Shown>>

LEMMA ActiveHasNoOutcome ==
  ASSUME DataInv, NEW t \in Tasks, phase[t] = "active" PROVE outcome[t] = "none"
BY DEF DataInv

LEMMA SettleEnds ==
  ASSUME RInv, NEW t \in Tasks \ nested, NEW o, phase[t] = "active",
         outcome' = [outcome EXCEPT ![t] = o], nested' = nested
  PROVE  Contract!End(t, o)
<1>1. outcome[t] = "none"
  BY ActiveHasNoOutcome DEF RInv
<1>2. Ended' = [Ended EXCEPT ![t] = o]
  BY DEF Ended, RInv, DataType
<1>3. Ended[t] = "none"
  BY <1>1 DEF Ended
<1> QED
  BY <1>2, <1>3 DEF Contract!End

LEMMA SettleShows ==
  ASSUME RInv, NEW t \in Tasks, NEW o, phase[t] = "active",
         outcome' = [outcome EXCEPT ![t] = o], got' = got
  PROVE  /\ o # "ok" => Shown' = Shown
         /\ o = "ok" => Shown' = [Shown EXCEPT ![t] = got[t]]
         /\ o = "ok" /\ got[t] = NoRows => Shown' = Shown
<1>1. outcome[t] = "none"
  BY ActiveHasNoOutcome DEF RInv
<1>2. \A u \in Tasks : outcome'[u] = IF u = t THEN o ELSE outcome[u]
  BY DEF RInv, DataType
<1>3. Shown[t] = NoRows
  BY <1>1 DEF Shown
<1>4. Shown' = [u \in Tasks |-> IF (IF u = t THEN o ELSE outcome[u]) = "ok"
                                 THEN got[u] ELSE NoRows]
  BY <1>2 DEF Shown, NoRows
<1>5. \A u \in Tasks : Shown[u] = IF outcome[u] = "ok" THEN got[u] ELSE NoRows
  BY DEF Shown
<1>6. Shown = [u \in Tasks |-> IF outcome[u] = "ok" THEN got[u] ELSE NoRows]
  BY DEF Shown
<1> QED
  BY <1>1, <1>3, <1>4, <1>5, <1>6

\* A statement within the open transaction is invisible.
LEMMA AdvanceData ==
  ASSUME RInv, NEW t \in Tasks, NEW s, Runs(t, s), s # "begin",
         UNCHANGED <<chain, open, saved, outcome>>,
         step'[t] # "begin", \A u \in Tasks \ {t} : step'[u] = step[u],
         \A u \in Tasks \ {t} : todo'[u] = todo[u] /\ got'[u] = got[u],
         Kind[t] # "snapshot" \/ step'[t] \in {"begin", "revision"} => got'[t] = NoRows,
         step'[t] \in {"receipt", "revision"} => todo'[t] = Changes[t],
         Progress(t)'
  PROVE  DataInv' /\ Unseen
<1>1. open = t /\ open # None /\ phase[t] = "active"
  BY BegunIsOwner, ParentAssumption DEF RInv, Runs
<1>2. outcome[t] = "none"
  BY <1>1, ActiveHasNoOutcome DEF RInv
<1>3. Ended' = Ended
  BY DEF Ended, chain
<1>4. Shown' = Shown
  <2>1. \A u \in Tasks : outcome'[u] = "ok" => got'[u] = got[u]
    BY <1>2
  <2>2. Shown' = [u \in Tasks |-> IF outcome[u] = "ok" THEN got'[u] ELSE NoRows]
    BY DEF Shown, NoRows
  <2>3. [u \in Tasks |-> IF outcome[u] = "ok" THEN got'[u] ELSE NoRows]
          = [u \in Tasks |-> IF outcome[u] = "ok" THEN got[u] ELSE NoRows]
    BY <2>1
  <2> QED
    BY <2>2, <2>3 DEF Shown
<1>5. DataInv'
  BY <1>1 DEF RInv, DataInv, chain
<1> QED
  BY <1>3, <1>4, <1>5 DEF Unseen

-----------------------------------------------------------------------------
(***************************************************************************)
(* The statements inside a transaction.                                    *)
(***************************************************************************)
LEMMA ProgressNow ==
  ASSUME RInv, NEW t \in Tasks, NEW s, Runs(t, s), s # "begin"
  PROVE  /\ Progress(t) /\ Kind[t] \in {"commit", "snapshot", "batch"} /\ step[t] = s
         /\ Changes[t] \subseteq Items /\ t # None
<1>1. open = t /\ t # None
  BY BegunIsOwner, ParentAssumption DEF RInv
<1>2. Kind[t] # "write" /\ Progress(t)
  BY <1>1 DEF RInv, DataInv
<1> QED
  BY <1>1, <1>2, TaskAssumption DEF Kinds, Runs

LEMMA ReadReceiptData ==
  ASSUME RInv, NEW t \in Tasks, ReadReceipt(t) PROVE DataType' /\ DataInv' /\ Unseen
<1>1. Runs(t, "receipt") /\ UNCHANGED <<chain, open, saved, view, todo, got, outcome>>
  BY DEF ReadReceipt, database
<1>2. Progress(t) /\ Kind[t] = "commit" /\ view = saved
  BY <1>1, ProgressNow DEF Progress
<1>3. CASE Key[t] \in view.keys
  <2>1. step' = [step EXCEPT ![t] = "commit"] /\ result' = [result EXCEPT ![t] = "duplicate"]
    BY <1>3 DEF ReadReceipt, Return, Goto
  <2>2. DataType'
    BY <1>1, <2>1 DEF RInv, DataType, Outcome
  <2>3. step'[t] = "commit" /\ result'[t] = "duplicate"
    BY <2>1 DEF RInv, DataType, IInv, ChainType
  <2>4. Progress(t)'
    BY <1>1, <1>2, <1>3, <2>3 DEF Progress, Decided
  <2> QED
    BY <1>1, <1>2, <2>1, <2>2, <2>3, <2>4, AdvanceData DEF RInv, DataInv, IInv, ChainType
<1>4. CASE Key[t] \notin view.keys
  <2>1. step' = [step EXCEPT ![t] = "revision"] /\ result' = result
    BY <1>4 DEF ReadReceipt, Goto
  <2>2. DataType'
    BY <1>1, <2>1 DEF RInv, DataType
  <2>3. step'[t] = "revision"
    BY <2>1 DEF RInv, IInv, ChainType
  <2>4. Progress(t)'
    BY <1>1, <1>2, <1>4, <2>3 DEF Progress
  <2>5. todo[t] = Changes[t]
    BY <1>1 DEF Runs, RInv, DataInv
  <2> QED
    BY <1>1, <1>2, <2>1, <2>2, <2>3, <2>4, <2>5, AdvanceData
       DEF RInv, DataInv, IInv, ChainType
<1> QED
  BY <1>3, <1>4

\* After the compare-and-swap the saved rows are the ones it was made against.
LEMMA SwapRevisionData ==
  ASSUME RInv, NEW t \in Tasks, SwapRevision(t) PROVE DataType' /\ DataInv' /\ Unseen
<1>1. Kind[t] = "commit" /\ Runs(t, "revision")
      /\ UNCHANGED <<chain, open, saved, todo, got, outcome>>
  BY DEF SwapRevision
<1>2. Progress(t) /\ view = saved /\ Key[t] \notin saved.keys
  BY <1>1, ProgressNow DEF Progress
<1>3. CASE view.rev # Expected[t]
  <2>1. step' = [step EXCEPT ![t] = "commit"] /\ result' = [result EXCEPT ![t] = "conflict"]
        /\ view' = view
    BY <1>3 DEF SwapRevision, Return, Goto
  <2>2. DataType'
    BY <1>1, <2>1 DEF RInv, DataType, Outcome
  <2>3. step'[t] = "commit" /\ result'[t] = "conflict"
    BY <2>1 DEF RInv, DataType, IInv, ChainType
  <2>4. Progress(t)'
    BY <1>1, <1>2, <1>3, <2>1, <2>3 DEF Progress, Decided
  <2> QED
    BY <1>1, <2>1, <2>2, <2>3, <2>4, AdvanceData DEF RInv, DataInv, IInv, ChainType
<1>4. CASE view.rev = Expected[t]
  <2>1. step' = [step EXCEPT ![t] = "items"] /\ result' = result /\ view' = Bump(view)
    BY <1>4 DEF SwapRevision, Goto
  <2>2. Bump(saved) \in Rows
    BY BumpFields DEF RInv, DataType
  <2>3. DataType'
    BY <1>1, <1>2, <2>1, <2>2 DEF RInv, DataType
  <2>4. step'[t] = "items"
    BY <2>1 DEF RInv, IInv, ChainType
  <2>5. todo[t] = Changes[t]
    BY <1>1 DEF RInv, DataInv, Runs
  <2>6. view' = Touch(Bump(saved), Rest(t))'
    BY <1>1, <1>2, <2>1, <2>2, <2>5, TouchNothing DEF Rest
  <2>7. Progress(t)'
    BY <1>1, <1>2, <1>4, <2>4, <2>5, <2>6 DEF Progress
  <2> QED
    BY <1>1, <2>1, <2>3, <2>4, <2>7, AdvanceData DEF RInv, DataInv, IInv, ChainType
<1> QED
  BY <1>3, <1>4

LEMMA WriteItemData ==
  ASSUME RInv, NEW t \in Tasks, WriteItem(t) PROVE DataType' /\ DataInv' /\ Unseen
<1>1. Runs(t, "items") /\ UNCHANGED <<chain, open, saved, step, got, result, outcome>>
  BY DEF WriteItem
<1>2. PICK i \in todo[t] : view' = Touch(view, {i}) /\ todo' = [todo EXCEPT ![t] = @ \ {i}]
  BY DEF WriteItem
<1>3. Progress(t) /\ Kind[t] = "commit" /\ step[t] = "items" /\ Changes[t] \subseteq Items
  BY <1>1, ProgressNow DEF Progress
<1>4. /\ Key[t] \notin saved.keys /\ saved.rev = Expected[t] /\ todo[t] \subseteq Changes[t]
      /\ view = Touch(Bump(saved), Rest(t))
  BY <1>3 DEF Progress
<1>5. todo'[t] = todo[t] \ {i} /\ \A u \in Tasks \ {t} : todo'[u] = todo[u]
  BY <1>2 DEF RInv, DataType
<1>6. Rest(t)' = Rest(t) \cup {i} /\ i \in Items /\ Rest(t) \subseteq Items
  BY <1>2, <1>3, <1>4, <1>5 DEF Rest
<1>7. Bump(saved) \in Rows /\ Bump(saved)' = Bump(saved)
  BY <1>1, BumpFields DEF RInv, DataType, Bump
<1>8. view' = Touch(Bump(saved), Rest(t) \cup {i})
  BY <1>2, <1>4, <1>6, <1>7, TouchTouch
<1>9. view' = Touch(Bump(saved), Rest(t))'
  BY <1>6, <1>7, <1>8 DEF Touch
<1>10. DataType'
  <2>1. view' \in Rows
    BY <1>6, <1>7, <1>8, TouchFields
  <2>2. todo' \in [Tasks -> SUBSET Items]
    BY <1>2 DEF RInv, DataType
  <2> QED
    BY <2>1, <2>2, <1>1 DEF RInv, DataType
<1>11. Progress(t)'
  BY <1>1, <1>3, <1>4, <1>5, <1>9 DEF Progress
<1> QED
  BY <1>1, <1>3, <1>5, <1>10, <1>11, AdvanceData DEF RInv, DataInv

LEMMA WriteReceiptData ==
  ASSUME RInv, NEW t \in Tasks, WriteReceipt(t) PROVE DataType' /\ DataInv' /\ Unseen
<1>1. Runs(t, "items") /\ todo[t] = {} /\ view' = Put(view, {t})
      /\ step' = [step EXCEPT ![t] = "commit"] /\ result' = [result EXCEPT ![t] = "ok"]
      /\ UNCHANGED <<chain, open, saved, todo, got, outcome>>
  BY DEF WriteReceipt, Return, Goto
<1>2. Progress(t) /\ Kind[t] = "commit" /\ step[t] = "items"
  BY <1>1, ProgressNow DEF Progress
<1>3. /\ Key[t] \notin saved.keys /\ saved.rev = Expected[t]
      /\ view = Touch(Bump(saved), Changes[t])
  BY <1>1, <1>2 DEF Progress, Rest
<1>4. DataType'
  BY <1>1, PutFields DEF RInv, DataType, Outcome
<1>5. step'[t] = "commit" /\ result'[t] = "ok"
  BY <1>1 DEF RInv, DataType, IInv, ChainType
<1>6. view' = Put(Touch(Bump(saved), Changes[t]), {t})'
  BY <1>1, <1>3 DEF Put, Touch, Bump
<1>7. Progress(t)'
  BY <1>1, <1>2, <1>3, <1>5, <1>6 DEF Progress, Decided
<1> QED
  BY <1>1, <1>2, <1>4, <1>5, <1>7, AdvanceData DEF RInv, DataInv, IInv, ChainType

LEMMA ReadRevisionData ==
  ASSUME RInv, NEW t \in Tasks, ReadRevision(t) PROVE DataType' /\ DataInv' /\ Unseen
<1>1. Kind[t] = "snapshot" /\ Runs(t, "revision") /\ step' = [step EXCEPT ![t] = "rows"]
      /\ got' = [got EXCEPT ![t].rev = view.rev]
      /\ UNCHANGED <<chain, open, saved, view, todo, result, outcome>>
  BY DEF ReadRevision, Goto, database
<1>2. Progress(t) /\ view = saved /\ step[t] = "revision"
  BY <1>1, ProgressNow DEF Progress
<1>3. got[t] = NoRows /\ NoRows \in Rows
  BY <1>2 DEF RInv, DataInv, NoRows, Rows
<1>4. got'[t] = [NoRows EXCEPT !.rev = saved.rev] /\ \A u \in Tasks \ {t} : got'[u] = got[u]
  BY <1>1, <1>2, <1>3 DEF RInv, DataType
<1>5. [NoRows EXCEPT !.rev = saved.rev] \in Rows
  BY <1>3 DEF RInv, DataType, Rows
<1>6. got' = [got EXCEPT ![t] = [NoRows EXCEPT !.rev = saved.rev]]
  BY <1>1, <1>2, <1>3 DEF RInv, DataType
<1>7. DataType'
  BY <1>1, <1>5, <1>6 DEF RInv, DataType
<1>8. step'[t] = "rows"
  BY <1>1 DEF RInv, IInv, ChainType
<1>9. Progress(t)'
  BY <1>1, <1>2, <1>4, <1>8 DEF Progress, NoRows
<1> QED
  BY <1>1, <1>4, <1>7, <1>8, <1>9, AdvanceData DEF RInv, IInv, ChainType

LEMMA ReadRowsData ==
  ASSUME RInv, NEW t \in Tasks, ReadRows(t) PROVE DataType' /\ DataInv' /\ Unseen
<1>1. Runs(t, "rows") /\ step' = [step EXCEPT ![t] = "commit"]
      /\ result' = [result EXCEPT ![t] = "ok"] /\ got' = [got EXCEPT ![t].rows = view.rows]
      /\ UNCHANGED <<chain, open, saved, view, todo, outcome>>
  BY DEF ReadRows, Return, Goto, database
<1>2. Progress(t) /\ Kind[t] = "snapshot" /\ view = saved
      /\ got[t] = [NoRows EXCEPT !.rev = saved.rev]
  BY <1>1, ProgressNow DEF Progress
<1>3. [[NoRows EXCEPT !.rev = saved.rev] EXCEPT !.rows = saved.rows] = Canvas(saved)
  <2>1. Canvas(saved) = [rev |-> saved.rev, rows |-> saved.rows, keys |-> {}]
    BY CanvasFields DEF RInv, DataType
  <2>2. [[NoRows EXCEPT !.rev = saved.rev] EXCEPT !.rows = saved.rows]
          = [rev |-> saved.rev, rows |-> saved.rows, keys |-> {}]
    BY SnapshotFields
  <2> QED
    BY <2>1, <2>2
<1>4. got' = [got EXCEPT ![t] = Canvas(saved)]
  BY <1>1, <1>2, <1>3 DEF RInv, DataType
<1>5. Canvas(saved) \in Rows
  BY DEF Canvas, RInv, DataType, Rows
<1>6. DataType'
  BY <1>1, <1>4, <1>5 DEF RInv, DataType, Outcome
<1>7. got'[t] = Canvas(saved) /\ step'[t] = "commit" /\ result'[t] = "ok"
      /\ \A u \in Tasks \ {t} : got'[u] = got[u]
  BY <1>1, <1>4 DEF RInv, DataType, IInv, ChainType
<1>8. Progress(t)'
  BY <1>1, <1>2, <1>7 DEF Progress, Canvas
<1> QED
  BY <1>1, <1>2, <1>6, <1>7, <1>8, AdvanceData DEF RInv, IInv, ChainType

LEMMA KeepRowData ==
  ASSUME RInv, NEW t \in Tasks, KeepRow(t) PROVE DataType' /\ DataInv' /\ Unseen
<1>1. Runs(t, "keep") /\ view' = Put(view, {t}) /\ step' = [step EXCEPT ![t] = "commit"]
      /\ result' = [result EXCEPT ![t] = "ok"]
      /\ UNCHANGED <<chain, open, saved, todo, got, outcome>>
  BY DEF KeepRow, Return, Goto
<1>2. Progress(t) /\ Kind[t] = "batch" /\ step[t] = "keep"
  BY <1>1, ProgressNow DEF Progress
<1>3. PICK S \in SUBSET Writes : view = Put(saved, S)
  BY <1>2 DEF Progress
<1>4. view' = Put(saved, S \cup {t})
  BY <1>1, <1>3, PutPut DEF Writes, RInv, DataType
<1>5. DataType'
  BY <1>1, PutFields DEF RInv, DataType, Outcome
<1>6. step'[t] = "commit" /\ result'[t] = "ok"
  BY <1>1 DEF RInv, DataType, IInv, ChainType
<1>7. Progress(t)'
  <2>1. \E R \in SUBSET Writes : view' = Put(saved', R \cup {t})
    BY <1>1, <1>4
  <2> QED
    BY <1>2, <1>6, <2>1 DEF Progress, Put
<1> QED
  BY <1>1, <1>2, <1>5, <1>6, <1>7, AdvanceData DEF RInv, DataInv, IInv, ChainType

-----------------------------------------------------------------------------
(***************************************************************************)
(* The beginnings and the ends of operations.                              *)
(***************************************************************************)
LEMMA BeginData ==
  ASSUME RInv, NEW t \in Tasks, Begin(t) PROVE DataType' /\ DataInv' /\ Unseen
<1>1. Kind[t] # "write" /\ Runs(t, "begin")
      /\ UNCHANGED <<nested, prev, tail, saved, view, todo, got, result>>
  BY DEF Begin
<1>2. t \notin nested /\ t # None
  BY <1>1, ParentAssumption DEF RInv, IInv, NestedInv
<1>3. open = None
  BY <1>1, <1>2, BeginnerIsAlone DEF RInv
<1>4. open' = t /\ step' = [step EXCEPT ![t] = FirstStep[Kind[t]]]
      /\ UNCHANGED <<phase, outcome>>
  BY <1>3 DEF Begin, Goto
<1>5. view = saved /\ saved \in Rows /\ todo[t] = Changes[t]
  BY <1>1, <1>3 DEF RInv, DataInv, DataType, Runs
<1>6. step'[t] = FirstStep[Kind[t]] /\ Kind[t] \in {"commit", "snapshot", "batch"}
  BY <1>1, <1>4, TaskAssumption DEF RInv, IInv, ChainType, Kinds
<1>7. got[t] = NoRows
  BY <1>1 DEF RInv, DataInv, Runs
<1>8. Put(saved, {}) = saved
  BY <1>5 DEF Put, Rows
<1>9. Progress(t)'
  <2>1. CASE Kind[t] = "commit"
    BY <2>1, <1>1, <1>5, <1>6 DEF Progress, FirstStep
  <2>2. CASE Kind[t] = "snapshot"
    BY <2>2, <1>1, <1>5, <1>6 DEF Progress, FirstStep
  <2>3. CASE Kind[t] = "batch"
    <3>1. \E S \in SUBSET Writes : view' = Put(saved', S)
      BY <1>1, <1>5, <1>8
    <3> QED
      BY <2>3, <3>1, <1>6 DEF Progress, FirstStep
  <2> QED
    BY <2>1, <2>2, <2>3, <1>6
<1>10. DataType'
  BY <1>1, <1>4 DEF RInv, DataType
<1>11. \A n \in nested : phase[n] # "active"
  <2>1. SUFFICES ASSUME NEW n \in nested, phase[n] = "active" PROVE FALSE
    OBVIOUS
  <2>2. Parent[n] = None /\ Parent[n] \in Tasks
    BY <2>1, <1>3 DEF RInv, DataInv, IInv, NestedInv
  <2> QED
    BY <2>2, ParentAssumption
<1>12. \A u \in Tasks \ {t} : step'[u] = step[u]
  BY <1>4 DEF RInv, IInv, ChainType
<1>13. DataInv'
  BY <1>1, <1>2, <1>4, <1>5, <1>6, <1>7, <1>9, <1>11, <1>12 DEF RInv, DataInv
<1> QED
  BY <1>1, <1>4, <1>10, <1>13 DEF Unseen, Ended, Shown

\* An operation settles: what it leaves of the data is what DataInv asks of a
\* connection without a transaction, or with the one around a nested write.
LEMMA SettleData ==
  ASSUME RInv, NEW t \in Tasks, NEW s, NEW o, Runs(t, s), o # "none",
         phase' = [phase EXCEPT ![t] = "settled"], outcome' = [outcome EXCEPT ![t] = o],
         UNCHANGED <<nested, step, todo, got>>,
         \/ open' = None /\ view' = saved' /\ open = t
         \/ open' = None /\ view' = saved' /\ open = None
         \/ open # None /\ open' = open /\ Progress(open)'
  PROVE  DataInv'
<1>1. \A u \in Tasks : phase'[u] = (IF u = t THEN "settled" ELSE phase[u])
                       /\ outcome'[u] = (IF u = t THEN o ELSE outcome[u])
  BY DEF RInv, IInv, ChainType, DataType
<1>2. nested \subseteq Tasks
  BY DEF RInv, IInv, ChainType
<1>3. ASSUME NEW n \in nested, phase'[n] = "active" PROVE open' = Parent[n]
  <2>1. n \in Tasks /\ phase[n] = "active" /\ n # t
    BY <1>1, <1>2, <1>3
  <2>2. open = Parent[n] /\ Parent[n] \in Tasks
    BY <2>1 DEF RInv, DataInv, IInv, NestedInv
  <2>3. open # t
    BY <2>1, <2>2 DEF Runs
  <2> QED
    BY <2>2, <2>3, ParentAssumption
<1>4. \A u \in Tasks : outcome'[u] # "none" <=> phase'[u] = "settled"
  BY <1>1 DEF RInv, DataInv
<1>5. open' = None => view' = saved'
  BY DEF RInv, DataInv
<1>6. open' # None => Kind[open'] # "write" /\ Progress(open)' /\ open' = open
  BY DEF RInv, DataInv
<1> QED
  BY <1>3, <1>4, <1>5, <1>6 DEF RInv, DataInv

\* An operation that settles without a value to show.
LEMMA SettleHides ==
  ASSUME RInv, NEW t \in Tasks, NEW o, phase[t] = "active", Kind[t] # "snapshot",
         outcome' = [outcome EXCEPT ![t] = o], got' = got
  PROVE  Shown' = Shown
<1>1. got[t] = NoRows
  BY DEF RInv, DataInv
<1> QED
  BY <1>1, SettleShows

\* The end of a nested write shows in the end of the transaction around it.
LEMMA NestedEnds ==
  ASSUME RInv, NEW t \in nested, NEW o, nested' = nested,
         outcome' = [outcome EXCEPT ![t] = o]
  PROVE  Ended' = Ended
<1>1. \A u \in Tasks \ nested : outcome'[u] = outcome[u]
  BY DEF RInv, DataType
<1> QED
  BY <1>1 DEF Ended

LEMMA WriteData ==
  ASSUME RInv, NEW t \in Tasks, Write(t)
  PROVE  DataType' /\ DataInv' /\ (Unseen \/ Contract!Write(t))
<1>1. /\ Kind[t] = "write" /\ Runs(t, "begin") /\ view' = Put(view, {t})
      /\ saved' = IF open = None THEN view' ELSE saved
      /\ phase' = [phase EXCEPT ![t] = "settled"] /\ outcome' = [outcome EXCEPT ![t] = "ok"]
      /\ UNCHANGED <<nested, prev, tail, open, step, todo, got, result>>
  BY DEF Write, Settle
<1>2. phase[t] = "active"
  BY <1>1 DEF Runs
<1>3. view' \in Rows /\ saved' \in Rows
  BY <1>1, PutFields DEF RInv, DataType
<1>4. DataType'
  BY <1>1, <1>3 DEF RInv, DataType, Outcome
<1>5. Shown' = Shown
  BY <1>1, <1>2, SettleHides
<1>6. CASE t \in nested
  <2>1. open = Parent[t] /\ open \in Tasks /\ open # None
    BY <1>2, <1>6, ParentAssumption DEF RInv, DataInv, IInv, NestedInv
  <2>2. Kind[open] = "batch" /\ Progress(open)
    BY <2>1, ParentAssumption DEF RInv, DataInv
  <2>3. saved' = saved /\ t \in Writes
    BY <1>1, <2>1 DEF Writes
  <2>4. ASSUME step[open] = "keep"
        PROVE  \E S \in SUBSET Writes : view' = Put(saved', S)
    <3>1. PICK S \in SUBSET Writes : view = Put(saved, S)
      BY <2>2, <2>4 DEF Progress
    <3>2. view' = Put(saved', S \cup {t})
      BY <1>1, <2>3, <3>1, PutPut DEF Writes, RInv, DataType
    <3> QED
      BY <2>3, <3>2
  <2>5. ASSUME step[open] = "commit"
        PROVE  result[open] = "ok" /\ \E S \in SUBSET Writes : view' = Put(saved', S \cup {open})
    <3>1. PICK S \in SUBSET Writes : view = Put(saved, S \cup {open})
      BY <2>2, <2>5 DEF Progress
    <3>2. view' = Put(saved', (S \cup {open}) \cup {t})
      BY <1>1, <2>1, <2>3, <3>1, PutPut DEF Writes, RInv, DataType
    <3>3. (S \cup {open}) \cup {t} = (S \cup {t}) \cup {open}
      OBVIOUS
    <3> QED
      BY <2>2, <2>3, <2>5, <3>2, <3>3 DEF Progress
  <2>6. Progress(open)'
    <3>1. step'[open'] = step[open] /\ result'[open'] = result[open] /\ Kind[open'] = "batch"
      BY <1>1, <2>2
    <3>2. (\E S \in SUBSET Writes : view = Put(saved, S))' <=> \E S \in SUBSET Writes : view' = Put(saved', S)
      BY DEF Put
    <3>3. (\E S \in SUBSET Writes : view = Put(saved, S \cup {open}))'
            <=> \E S \in SUBSET Writes : view' = Put(saved', S \cup {open})
      BY <1>1 DEF Put
    <3> QED
      BY <2>2, <2>4, <2>5, <3>1, <3>2, <3>3 DEF Progress
  <2>7. DataInv'
    BY <1>1, <2>1, <2>6, SettleData
  <2>8. Ended' = Ended
    BY <1>1, <1>6, NestedEnds
  <2> QED
    BY <1>4, <1>5, <2>3, <2>7, <2>8 DEF Unseen
<1>7. CASE t \notin nested
  <2>1. open = None /\ view = saved
    BY <1>1, <1>7, BeginnerIsAlone DEF RInv, DataInv
  <2>2. DataInv'
    BY <1>1, <2>1, SettleData
  <2>3. Contract!End(t, "ok")
    BY <1>1, <1>2, <1>7, SettleEnds
  <2>4. saved' = Contract!Put(saved, {t})
    BY <1>1, <2>1, SameRows
  <2> QED
    BY <1>1, <1>4, <1>5, <2>2, <2>3, <2>4 DEF Contract!Write
<1> QED
  BY <1>6, <1>7

LEMMA CommitData ==
  ASSUME RInv, NEW t \in Tasks, Commit(t)
  PROVE  /\ DataType' /\ DataInv'
         /\ \/ Contract!Commit(t) \/ Contract!Snapshot(t)
            \/ \E S \in SUBSET Contract!Writes : Contract!Batch(t, S)
<1>1. /\ Runs(t, "commit") /\ saved' = view /\ open' = None /\ view' = view
      /\ phase' = [phase EXCEPT ![t] = "settled"]
      /\ outcome' = [outcome EXCEPT ![t] = result[t]]
      /\ UNCHANGED <<nested, prev, tail, step, todo, got, result>>
  BY DEF Commit, Settle
<1>2. Progress(t) /\ Kind[t] \in {"commit", "snapshot", "batch"} /\ step[t] = "commit"
      /\ Changes[t] \subseteq Items
  BY <1>1, ProgressNow
<1>3. phase[t] = "active" /\ open = t /\ t \notin nested
  BY <1>1, BegunIsOwner DEF Runs, Owners, RInv
<1>4. result[t] \in {"ok", "duplicate", "conflict"}
  BY <1>2 DEF Progress, Decided
<1>5. DataType'
  BY <1>1, <1>4 DEF RInv, DataType, Outcome
<1>6. DataInv'
  BY <1>1, <1>3, <1>4, SettleData
<1>7. Contract!End(t, result[t])
  BY <1>1, <1>3, SettleEnds
<1>8. CASE Kind[t] = "commit"
  <2>1. Decided(t)
    BY <1>2, <1>8 DEF Progress
  <2>2. Shown' = Shown
    BY <1>1, <1>3, <1>8, SettleHides
  <2>3. Put(Touch(Bump(saved), Changes[t]), {t})
          = Contract!Put(Contract!Touch(Contract!Bump(saved), Changes[t]), {t})
    BY SameRows
  <2>4. Contract!Commit(t)
    BY <1>1, <1>7, <1>8, <2>1, <2>2, <2>3 DEF Decided, Contract!Commit
  <2> QED
    BY <1>5, <1>6, <2>4
<1>9. CASE Kind[t] = "snapshot"
  <2>1. view = saved /\ got[t] = Canvas(saved) /\ result[t] = "ok"
    BY <1>2, <1>9 DEF Progress
  <2>2. Shown' = [Shown EXCEPT ![t] = Contract!Canvas(saved)]
    BY <1>1, <1>3, <2>1, SettleShows, SameRows
  <2>3. Contract!Snapshot(t)
    BY <1>1, <1>7, <1>9, <2>1, <2>2 DEF Contract!Snapshot
  <2> QED
    BY <1>5, <1>6, <2>3
<1>10. CASE Kind[t] = "batch"
  <2>1. result[t] = "ok"
    BY <1>2, <1>10 DEF Progress
  <2>2. PICK S \in SUBSET Writes : view = Put(saved, S \cup {t})
    BY <1>2, <1>10 DEF Progress
  <2>3. Shown' = Shown
    BY <1>1, <1>3, <1>10, SettleHides
  <2>4. saved' = Contract!Put(saved, S \cup {t}) /\ S \in SUBSET Contract!Writes
    BY <1>1, <2>2, SameRows
  <2>5. Contract!Batch(t, S)
    BY <1>7, <1>10, <2>1, <2>3, <2>4 DEF Contract!Batch
  <2> QED
    BY <1>5, <1>6, <2>4, <2>5
<1> QED
  BY <1>2, <1>8, <1>9, <1>10

LEMMA FailData ==
  ASSUME RInv, NEW t \in Tasks, Fail(t)
  PROVE  DataType' /\ DataInv' /\ (Unseen \/ Contract!Fail(t))
<1>1. PICK s \in Steps : Runs(t, s)
  BY DEF Fail
<1>2. /\ phase' = [phase EXCEPT ![t] = "settled"] /\ outcome' = [outcome EXCEPT ![t] = "failed"]
      /\ UNCHANGED <<nested, prev, tail, step, todo, got, result>>
      /\ IF step[t] = "begin" THEN UNCHANGED database ELSE RollBack(t)
  BY DEF Fail, Settle
<1>3. phase[t] = "active"
  BY <1>1 DEF Runs
<1>4. Shown' = Shown
  <2>1. got' = got /\ outcome' = [outcome EXCEPT ![t] = "failed"] /\ "failed" # "ok"
    BY <1>2
  <2> QED
    BY <1>3, <2>1, SettleShows
<1>5. saved' = saved /\ view' \in Rows
  BY <1>2 DEF RollBack, database, RInv, DataType
<1>6. DataType'
  BY <1>2, <1>5 DEF RInv, DataType, Outcome
<1>7. DataInv'
  <2>1. CASE step[t] = "begin" /\ open = None
    BY <1>1, <1>2, <2>1, SettleData DEF database, RInv, DataInv
  <2>2. CASE step[t] = "begin" /\ open # None
    <3>1. Progress(open) /\ UNCHANGED <<open, saved, view, step, todo, got, result>>
      BY <1>2, <2>2 DEF database, RInv, DataInv
    <3>2. Progress(open)'
      BY <3>1 DEF Progress, Decided, Rest, Put, Touch, Bump, Canvas
    <3> QED
      BY <1>1, <1>2, <2>2, <3>1, <3>2, SettleData
  <2>3. CASE step[t] # "begin"
    BY <1>1, <1>2, <2>3, SettleData DEF RollBack
  <2> QED
    BY <2>1, <2>2, <2>3
<1>8. CASE t \in nested
  BY <1>2, <1>4, <1>5, <1>6, <1>7, <1>8, NestedEnds DEF Unseen
<1>9. CASE t \notin nested
  <2>1. Contract!End(t, "failed")
    BY <1>2, <1>3, <1>9, SettleEnds
  <2> QED
    BY <1>4, <1>5, <1>6, <1>7, <2>1 DEF Contract!Fail
<1> QED
  BY <1>8, <1>9

\* A step of the chain, which moves operations between idle, waiting and
\* active, shows nothing.
LEMMA CallNestedData ==
  ASSUME RInv, NEW t \in Tasks, CallNested(t) PROVE DataType' /\ DataInv' /\ Unseen
<1>1. /\ phase[t] = "idle" /\ phase' = [phase EXCEPT ![t] = "active"]
      /\ nested' = nested \cup {t} /\ Parent[t] # None /\ phase[Parent[t]] = "active"
      /\ step[Parent[t]] \in {"keep", "commit"}
      /\ UNCHANGED <<saved, view, open, step, todo, got, result, outcome>>
  BY DEF CallNested, Callable, InLease, database, locals
<1>2. open = Parent[t] /\ open # None
  BY <1>1, ParentAssumption DEF RInv, IInv, OpenInv
<1>3. \A u \in Tasks : phase'[u] = IF u = t THEN "active" ELSE phase[u]
  BY <1>1 DEF RInv, IInv, ChainType
<1>4. outcome[t] = "none"
  BY <1>1 DEF RInv, DataInv
<1>5. Ended' = Ended
  BY <1>1, <1>4 DEF Ended
<1>6. Shown' = Shown
  BY <1>1 DEF Shown, NoRows
<1>7. Progress(open)'
  BY <1>1, <1>2 DEF RInv, DataInv, Progress, Decided, Rest, Put, Touch, Bump, Canvas
<1>8. \A n \in nested' : phase'[n] = "active" => open' = Parent[n]
  BY <1>1, <1>2, <1>3 DEF RInv, DataInv, IInv, ChainType
<1>9. \A u \in Tasks : outcome'[u] # "none" <=> phase'[u] = "settled"
  BY <1>1, <1>3, <1>4 DEF RInv, DataInv
<1>10. DataInv'
  BY <1>1, <1>2, <1>7, <1>8, <1>9 DEF RInv, DataInv
<1> QED
  BY <1>1, <1>5, <1>6, <1>10 DEF Unseen, RInv, DataType

LEMMA ChainData ==
  ASSUME RInv, NEW t \in Tasks, NEW p \in {"waiting", "active"},
         phase[t] # "settled", t \notin nested, phase' = [phase EXCEPT ![t] = p],
         nested' = nested, UNCHANGED <<saved, view, open, step, todo, got, result, outcome>>
  PROVE  DataType' /\ DataInv' /\ Unseen
<1>1. \A u \in Tasks : phase'[u] = IF u = t THEN p ELSE phase[u]
  BY DEF RInv, IInv, ChainType
<1>2. \A u \in Tasks : outcome'[u] # "none" <=> phase'[u] = "settled"
  BY <1>1 DEF RInv, DataInv
<1>3. \A n \in nested' : phase'[n] = "active" => open' = Parent[n]
  BY <1>1 DEF RInv, DataInv, IInv, ChainType
<1>4. open # None => Progress(open)'
  BY DEF RInv, DataInv, Progress, Decided, Rest, Put, Touch, Bump, Canvas
<1>5. DataInv'
  BY <1>2, <1>3, <1>4 DEF RInv, DataInv
<1> QED
  BY <1>5 DEF Unseen, RInv, DataType, Ended, Shown

LEMMA IdleData ==
  ASSUME RInv, UNCHANGED <<phase, nested, saved, view, open, step, todo, got, result, outcome>>
  PROVE  DataType' /\ DataInv' /\ Unseen
<1>1. open # None => Progress(open)'
  BY DEF RInv, DataInv, Progress, Decided, Rest, Put, Touch, Bump, Canvas
<1>2. DataInv'
  BY <1>1 DEF RInv, DataInv
<1> QED
  BY <1>2 DEF Unseen, RInv, DataType, Ended, Shown

-----------------------------------------------------------------------------
(***************************************************************************)
(* The refinement.                                                         *)
(***************************************************************************)
LEMMA InitData == Init => RInv /\ Contract!Init
<1> SUFFICES ASSUME Init PROVE RInv /\ Contract!Init
  OBVIOUS
<1>1. NoRows \in Rows
  <2>1. {} \in SUBSET Keys
    OBVIOUS
  <2> QED
    BY <2>1 DEF NoRows, Rows
<1>2. DataType
  BY <1>1, TaskAssumption DEF Init, DataType, Outcome
<1>3. DataInv
  BY DEF Init, DataInv
<1>4. Contract!Init
  BY SameRows DEF Init, Contract!Init, Ended, Shown
<1> QED
  BY <1>2, <1>3, <1>4, InitInv DEF RInv

LEMMA StepData ==
  ASSUME RInv, [Next]_vars
  PROVE  DataType' /\ DataInv' /\ (Unseen \/ Contract!Next)
<1>1. CASE UNCHANGED vars
  BY <1>1, IdleData DEF vars, chain, database, locals
<1>2. ASSUME NEW q \in Queries, Read(q) PROVE DataType' /\ DataInv' /\ Unseen
  BY <1>2, IdleData DEF Read, QueryRevision, QueryPage, QueryRecheck, chain, database, locals
<1>3. CASE DropTail
  BY <1>3, IdleData DEF DropTail, database, locals
<1>4. ASSUME NEW t \in Tasks, CallChained(t) PROVE DataType' /\ DataInv' /\ Unseen
  <2>1. phase[t] = "idle" /\ phase' = [phase EXCEPT ![t] = "waiting"] /\ nested' = nested
        /\ UNCHANGED <<saved, view, open, step, todo, got, result, outcome>>
    BY <1>4 DEF CallChained, Callable, database, locals
  <2>2. t \notin nested
    BY <2>1 DEF RInv, IInv, NestedInv
  <2> QED
    BY <2>1, <2>2, ChainData
<1>5. ASSUME NEW t \in Tasks, Start(t) PROVE DataType' /\ DataInv' /\ Unseen
  <2>1. phase[t] = "waiting" /\ phase' = [phase EXCEPT ![t] = "active"] /\ nested' = nested
        /\ UNCHANGED <<saved, view, open, step, todo, got, result, outcome>>
    BY <1>5 DEF Start, database, locals
  <2>2. t \notin nested
    BY <2>1 DEF RInv, IInv, NestedInv
  <2> QED
    BY <2>1, <2>2, ChainData
<1>6. ASSUME NEW t \in Tasks, Statement(t)
      PROVE  DataType' /\ DataInv' /\ (Unseen \/ Contract!Next)
  <2>1. CASE Write(t)
    BY <2>1, WriteData DEF Contract!Next
  <2>2. CASE Commit(t)
    BY <2>2, CommitData DEF Contract!Next
  <2> QED
    BY <1>6, <2>1, <2>2, BeginData, ReadReceiptData, SwapRevisionData, WriteItemData,
       WriteReceiptData, ReadRevisionData, ReadRowsData, KeepRowData DEF Statement
<1>7. ASSUME NEW t \in Tasks, Fail(t)
      PROVE  DataType' /\ DataInv' /\ (Unseen \/ Contract!Next)
  BY <1>7, FailData DEF Contract!Next
<1> QED
  BY <1>1, <1>2, <1>3, <1>4, <1>5, <1>6, <1>7, CallNestedData DEF Next

LEMMA RInvStep == RInv /\ [Next]_vars => RInv'
BY StepData, NextInv DEF RInv

\* Every operation on the shared connection takes effect at once and entirely
\* or not at all, whatever else its statements run between
\* (run-database-transaction.ts, CanvasService.applyMutations, getSnapshot).
THEOREM ConnectionImplementsContract == Spec => ImplementsContract
<1>1. RInv /\ [Next]_vars => [Contract!Next]_(Contract!contractVars)
  BY StepData DEF Unseen, Contract!contractVars
<1> QED
  BY <1>1, InitData, RInvStep, PTL DEF Spec, ImplementsContract, Contract!Spec

-----------------------------------------------------------------------------
(***************************************************************************)
(* What queryItems returns although its statements run between those of an *)
(* open transaction: as long as nothing is rolled back, the revision that  *)
(* the connection shows only grows and is at most one ahead of the saved   *)
(* one, so that a page read under one revision mixes two at most.          *)
(***************************************************************************)

\* The open transaction is at most one revision ahead of what is saved, and
\* what it has written carries that revision.
Near ==
  \/ view.rev = saved.rev /\ view.rows = saved.rows
  \/ /\ view.rev = saved.rev + 1
     /\ \A i \in Items : view.rows[i] \in {saved.rows[i], view.rev}

Recorded ==
  /\ DOMAIN record = 0 .. saved.rev
  /\ record[saved.rev].rows = saved.rows

\* As PageSpansOneCommit asks it of the page of a query.
Spans(q) ==
  \A i \in Items :
    \/ query[q].page[i] = query[q].seen
    \/ \E r \in DOMAIN record :
         query[q].seen \in {r, r + 1} /\ query[q].page[i] = record[r].rows[i]

\* A page that was read under the revision the query saw is in order as long
\* as the connection shows that revision, and it shows no revision again.
QueryInv ==
  \A q \in Queries :
    /\ query[q].at # "idle" => query[q].seen <= view.rev
    /\ query[q].at = "recheck" /\ query[q].seen = view.rev => Spans(q)
    /\ query[q].at = "done" => Spans(q)

PageInv ==
  /\ query \in [Queries -> Query] /\ faults \in Nat
  /\ Recorded
  /\ faults = 0 => QueryInv

-----------------------------------------------------------------------------
LEMMA ViewIsNear == ASSUME RInv PROVE Near
<1>1. saved \in Rows /\ view \in Rows /\ saved.rev \in Nat /\ saved.rows \in [Items -> Nat]
  BY DEF RInv, DataType, Rows
<1>2. CASE open = None
  BY <1>2 DEF RInv, DataInv, Near
<1>3. CASE open # None
  <2>1. open \in Tasks /\ Kind[open] \in {"commit", "snapshot", "batch"} /\ Progress(open)
    BY <1>3, TaskAssumption DEF RInv, DataInv, IInv, ChainType, Kinds
  <2>2. Changes[open] \subseteq Items /\ Rest(open) \subseteq Items
    BY <2>1, TaskAssumption DEF Rest
  <2>3. \A S \in SUBSET Items :
          /\ Touch(Bump(saved), S) \in Rows
          /\ Touch(Bump(saved), S).rev = saved.rev + 1
          /\ \A i \in Items : Touch(Bump(saved), S).rows[i] \in {saved.rows[i], saved.rev + 1}
    BY <1>1, BumpFields, TouchFields
  <2>4. \A r \in Rows, S \in SUBSET Tasks : Put(r, S).rev = r.rev /\ Put(r, S).rows = r.rows
    BY PutFields
  <2>5. CASE Kind[open] = "commit"
    <3>1. CASE view = saved
      BY <3>1 DEF Near
    <3>2. CASE \E S \in SUBSET Items : view = Touch(Bump(saved), S)
      BY <3>2, <2>3 DEF Near
    <3>3. CASE view = Put(Touch(Bump(saved), Changes[open]), {open})
      <4> DEFINE w == Touch(Bump(saved), Changes[open])
      <4>1. w \in Rows /\ w.rev = saved.rev + 1
            /\ \A i \in Items : w.rows[i] \in {saved.rows[i], saved.rev + 1}
        BY <2>2, <2>3
      <4>2. {open} \in SUBSET Tasks /\ view = Put(w, {open})
        BY <2>1, <3>3
      <4> HIDE DEF w
      <4>3. view.rev = w.rev /\ view.rows = w.rows
        BY <2>4, <4>1, <4>2
      <4> QED
        BY <4>1, <4>3 DEF Near
    <3> QED
      BY <2>1, <2>2, <2>5, <3>1, <3>2, <3>3 DEF Progress, Decided
  <2>6. CASE Kind[open] = "snapshot"
    BY <2>1, <2>6 DEF Progress, Near
  <2>7. CASE Kind[open] = "batch"
    <3>1. \E S \in SUBSET Tasks : view = Put(saved, S)
      <4>1. CASE step[open] = "keep"
        BY <2>1, <2>7, <4>1 DEF Progress, Writes
      <4>2. CASE step[open] = "commit"
        <5>1. PICK S \in SUBSET Writes : view = Put(saved, S \cup {open})
          BY <2>1, <2>7, <4>2 DEF Progress
        <5>2. S \cup {open} \in SUBSET Tasks
          BY <2>1 DEF Writes
        <5> QED
          BY <5>1, <5>2
      <4> QED
        BY <2>1, <2>7, <4>1, <4>2 DEF Progress
    <3> QED
      BY <3>1, <2>4, <1>1 DEF Near
  <2> QED
    BY <2>1, <2>5, <2>6, <2>7
<1> QED
  BY <1>2, <1>3

-----------------------------------------------------------------------------
(***************************************************************************)
(* A step that saves no canvas and rolls nothing back.                     *)
(***************************************************************************)
Quiet ==
  /\ saved'.rev = saved.rev /\ saved'.rows = saved.rows
  /\ view'.rev \in Nat /\ view'.rev >= view.rev
  /\ UNCHANGED <<record, query, faults>>

LEMMA QuietKeeps ==
  ASSUME RInv, PageInv, Quiet PROVE PageInv'
<1>1. Recorded'
  BY DEF PageInv, Recorded, Quiet
<1>2. ASSUME faults' = 0 PROVE QueryInv'
  <2>1. SUFFICES ASSUME NEW q \in Queries
                 PROVE  /\ query[q].at # "idle" => query[q].seen <= view'.rev
                        /\ query[q].at = "recheck" /\ query[q].seen = view'.rev => Spans(q)
                        /\ query[q].at = "done" => Spans(q)
    BY DEF QueryInv, Spans, Quiet
  <2>2. query[q].seen \in Nat /\ view.rev \in Nat /\ view'.rev \in Nat /\ view'.rev >= view.rev
    BY DEF PageInv, Query, RInv, DataType, Rows, Quiet
  <2>3. /\ query[q].at # "idle" => query[q].seen <= view.rev
        /\ query[q].at = "recheck" /\ query[q].seen = view.rev => Spans(q)
        /\ query[q].at = "done" => Spans(q)
    BY <1>2 DEF PageInv, QueryInv, Quiet
  <2> HIDE DEF PageInv
  <2> QED
    BY <2>2, <2>3
<1> QED
  BY <1>1, <1>2 DEF PageInv, Quiet

\* The statements inside a transaction.
LEMMA StatementIsQuiet ==
  ASSUME RInv, NEW t \in Tasks, Statement(t), ~Commit(t) PROVE Quiet
<1>1. view \in Rows /\ saved \in Rows /\ view.rev \in Nat
  BY DEF RInv, DataType, Rows
<1>2. \A r \in Rows : Put(r, {t}).rev = r.rev /\ Put(r, {t}).rows = r.rows
  BY PutFields
<1>3. CASE Begin(t) \/ ReadReceipt(t) \/ ReadRevision(t) \/ ReadRows(t)
  BY <1>1, <1>3 DEF Begin, ReadReceipt, ReadRevision, ReadRows, database, Quiet
<1>4. CASE Write(t)
  <2>1. view' = Put(view, {t}) /\ saved' = (IF open = None THEN view' ELSE saved)
        /\ UNCHANGED <<record, query, faults>>
    BY <1>4 DEF Write
  <2>2. open = None => view = saved
    BY DEF RInv, DataInv
  <2> QED
    BY <1>1, <1>2, <2>1, <2>2 DEF Quiet
<1>5. CASE SwapRevision(t)
  <2>1. Bump(view).rev = view.rev + 1
    BY <1>1, BumpFields
  <2> QED
    BY <1>1, <1>5, <2>1 DEF SwapRevision, Quiet
<1>6. CASE WriteItem(t)
  <2>1. PICK i \in todo[t] : view' = Touch(view, {i})
    BY <1>6 DEF WriteItem
  <2>2. i \in Items
    BY <2>1 DEF RInv, DataType
  <2>3. view'.rev = view.rev
    BY <1>1, <2>1, <2>2, TouchFields
  <2> QED
    BY <1>1, <1>6, <2>3 DEF WriteItem, Quiet
<1>7. CASE WriteReceipt(t) \/ KeepRow(t)
  BY <1>1, <1>2, <1>7 DEF WriteReceipt, KeepRow, Quiet
<1> QED
  BY <1>3, <1>4, <1>5, <1>6, <1>7 DEF Statement

\* A commit records a revision that is the next one, or none.
LEMMA CommitKeepsPages ==
  ASSUME RInv, PageInv, NEW t \in Tasks, Commit(t) PROVE PageInv'
<1>1. /\ saved' = view /\ view' = view /\ UNCHANGED <<query, faults>>
      /\ record' = IF view.rev \in DOMAIN record THEN record
                   ELSE [r \in 0 .. view.rev |->
                           IF r = view.rev THEN Canvas(view) ELSE record[r]]
  BY DEF Commit
<1>2. view \in Rows /\ view.rev \in Nat /\ saved.rev \in Nat
  BY DEF RInv, DataType, Rows
<1>3. DOMAIN record = 0 .. saved.rev /\ record[saved.rev].rows = saved.rows
  BY DEF PageInv, Recorded
<1>4. Recorded' /\ \A r \in DOMAIN record : r \in DOMAIN record' /\ record'[r] = record[r]
  <2>1. CASE view.rev = saved.rev /\ view.rows = saved.rows
    BY <1>1, <1>2, <1>3, <2>1 DEF Recorded
  <2>2. CASE view.rev = saved.rev + 1
    <3>1. view.rev \notin DOMAIN record
      BY <1>2, <1>3, <2>2
    <3>2. record' = [r \in 0 .. view.rev |-> IF r = view.rev THEN Canvas(view) ELSE record[r]]
      BY <1>1, <3>1
    <3>3. Canvas(view).rows = view.rows
      BY <1>2, CanvasFields
    <3>4. DOMAIN record' = 0 .. view.rev /\ view.rev \in 0 .. view.rev
      BY <1>2, <3>2
    <3>5. record'[view.rev].rows = view.rows
      BY <3>2, <3>3, <3>4
    <3>6. ASSUME NEW r \in DOMAIN record
          PROVE  r \in DOMAIN record' /\ record'[r] = record[r]
      <4>1. r \in 0 .. view.rev /\ r # view.rev
        BY <1>2, <1>3, <2>2, <3>6
      <4> QED
        BY <3>2, <3>4, <4>1
    <3> QED
      BY <1>1, <3>4, <3>5, <3>6 DEF Recorded
  <2> QED
    BY <2>1, <2>2, ViewIsNear DEF Near
<1>5. ASSUME NEW q \in Queries, Spans(q) PROVE Spans(q)'
  BY <1>1, <1>4, <1>5 DEF Spans
<1> QED
  BY <1>1, <1>4, <1>5 DEF PageInv, QueryInv

-----------------------------------------------------------------------------
(***************************************************************************)
(* The statements of queryItems.                                           *)
(***************************************************************************)
LEMMA ReadKeepsPages ==
  ASSUME RInv, PageInv, NEW q \in Queries, Read(q) PROVE PageInv'
<1>1. UNCHANGED <<saved, view, record, faults>>
  BY DEF Read, QueryRevision, QueryPage, QueryRecheck, database
<1>2. query[q] \in Query /\ view.rev \in Nat /\ saved.rev \in Nat
      /\ view.rows \in [Items -> Nat] /\ query \in [Queries -> Query]
  BY DEF PageInv, RInv, DataType, Rows
<1>3. PICK e : /\ query' = [query EXCEPT ![q] = e] /\ e \in Query
               /\ \/ e.at = "page" /\ e.seen = view.rev
                  \/ /\ e.at = "recheck" /\ e.seen = query[q].seen /\ e.page = view.rows
                     /\ query[q].at = "page"
                  \/ /\ e.at \in {"done", "revision", "refused"} /\ e.seen = query[q].seen
                     /\ e.page = query[q].page /\ query[q].at = "recheck"
                     /\ e.at = "done" => query[q].seen = view.rev
  <2>1. CASE QueryRevision(q)
    <3> DEFINE e == [query[q] EXCEPT !.at = "page", !.seen = view.rev, !.attempt = @ + 1]
    <3>1. query' = [query EXCEPT ![q] = e]
      BY <2>1 DEF QueryRevision
    <3>2. query[q].attempt + 1 \in Nat
      BY <1>2 DEF Query
    <3>3. PICK n \in Nat : n = query[q].attempt + 1
      BY <3>2
    <3>4. e = [query[q] EXCEPT !.at = "page", !.seen = view.rev, !.attempt = n]
      BY <3>3
    <3> HIDE DEF e
    <3>5. e \in Query /\ e.at = "page" /\ e.seen = view.rev
      BY <1>2, <3>3, <3>4 DEF Query
    <3> QED
      BY <3>1, <3>5
  <2>2. CASE QueryPage(q)
    <3> DEFINE e == [query[q] EXCEPT !.at = "recheck", !.page = view.rows]
    <3>1. query' = [query EXCEPT ![q] = e] /\ query[q].at = "page"
      BY <2>2 DEF QueryPage
    <3>2. e \in Query /\ e.at = "recheck" /\ e.seen = query[q].seen /\ e.page = view.rows
      BY <1>2 DEF Query
    <3> QED
      BY <3>1, <3>2
  <2>3. CASE QueryRecheck(q)
    <3> DEFINE w == IF query[q].seen = view.rev THEN "done"
                    ELSE IF query[q].attempt < MaxAttempts THEN "revision" ELSE "refused"
               e == [query[q] EXCEPT !.at = w]
    <3>1. query' = [query EXCEPT ![q] = e] /\ query[q].at = "recheck"
      BY <2>3 DEF QueryRecheck
    <3>2. w \in {"done", "revision", "refused"} /\ (w = "done" => query[q].seen = view.rev)
      OBVIOUS
    <3> HIDE DEF w
    <3>3. e \in Query /\ e.at = w /\ e.seen = query[q].seen /\ e.page = query[q].page
      BY <1>2, <3>2 DEF Query
    <3> QED
      BY <3>1, <3>2, <3>3
  <2> QED
    BY <2>1, <2>2, <2>3 DEF Read
<1>4. query' \in [Queries -> Query] /\ query'[q] = e
      /\ \A p \in Queries \ {q} : query'[p] = query[p]
  BY <1>2, <1>3
<1>5. ASSUME faults = 0 PROVE QueryInv'
  <2>1. QueryInv
    BY <1>5 DEF PageInv
  <2>2. ASSUME NEW p \in Queries \ {q}
        PROVE  /\ query'[p].at # "idle" => query'[p].seen <= view'.rev
               /\ query'[p].at = "recheck" /\ query'[p].seen = view'.rev => Spans(p)'
               /\ query'[p].at = "done" => Spans(p)'
    BY <1>1, <1>4, <2>1 DEF QueryInv, Spans
  <2>3. e.seen <= view.rev
    BY <1>2, <1>3, <2>1 DEF QueryInv
  <2>4. ASSUME e.at = "recheck", e.seen = view.rev PROVE Spans(q)'
    <3>1. e.page = view.rows
      BY <1>3, <2>4
    <3>2. DOMAIN record = 0 .. saved.rev /\ record[saved.rev].rows = saved.rows
      BY DEF PageInv, Recorded
    <3>3. saved.rev \in DOMAIN record
      BY <1>2, <3>2
    <3>4. \A i \in Items : \/ e.page[i] = e.seen
                           \/ e.seen \in {saved.rev, saved.rev + 1}
                              /\ e.page[i] = record[saved.rev].rows[i]
      BY <2>4, <3>1, <3>2, ViewIsNear DEF Near
    <3> QED
      BY <1>1, <1>4, <3>3, <3>4 DEF Spans
  <2>5. ASSUME e.at = "done" PROVE Spans(q)'
    <3>1. Spans(q) /\ e.seen = query[q].seen /\ e.page = query[q].page
      BY <1>3, <2>1, <2>5 DEF QueryInv
    <3> QED
      BY <1>1, <1>4, <3>1 DEF Spans
  <2> QED
    BY <1>1, <1>4, <2>2, <2>3, <2>4, <2>5 DEF QueryInv
<1> QED
  BY <1>1, <1>4, <1>5 DEF PageInv, Recorded

-----------------------------------------------------------------------------
LEMMA InitPages == Init => PageInv
<1> SUFFICES ASSUME Init PROVE PageInv
  OBVIOUS
<1>1. NoRows.rev = 0 /\ NoRows.rows \in [Items -> Nat]
  BY DEF NoRows
<1>2. query \in [Queries -> Query]
  BY <1>1 DEF Init, Query
<1>3. Recorded
  BY <1>1 DEF Init, Recorded
<1>4. QueryInv
  BY <1>1 DEF Init, QueryInv
<1> QED
  BY <1>2, <1>3, <1>4 DEF PageInv, Init

LEMMA StepPages ==
  ASSUME RInv, PageInv, [Next]_vars PROVE PageInv'
<1>1. view.rev \in Nat
  BY DEF RInv, DataType, Rows
<1>2. CASE UNCHANGED <<saved, view, record, query, faults>>
  BY <1>1, <1>2, QuietKeeps DEF Quiet
<1>3. ASSUME NEW t \in Tasks, Statement(t) PROVE PageInv'
  BY <1>3, QuietKeeps, StatementIsQuiet, CommitKeepsPages
<1>4. ASSUME NEW t \in Tasks, Fail(t) PROVE PageInv'
  <2>1. faults' = faults + 1 /\ UNCHANGED <<query, record>>
    BY <1>4 DEF Fail
  <2>2. saved' = saved
    BY <1>4 DEF Fail, RollBack, database
  <2>3. faults' \in Nat /\ faults' # 0
    BY <2>1 DEF PageInv
  <2> QED
    BY <2>1, <2>2, <2>3 DEF PageInv, Recorded
<1>5. ASSUME NEW q \in Queries, Read(q) PROVE PageInv'
  BY <1>5, ReadKeepsPages
<1>6. ASSUME NEW t \in Tasks, CallNested(t) \/ CallChained(t) \/ Start(t)
      PROVE  UNCHANGED <<saved, view, record, query, faults>>
  BY <1>6 DEF CallNested, CallChained, Start, database
<1>7. DropTail => UNCHANGED <<saved, view, record, query, faults>>
  BY DEF DropTail, database
<1>8. UNCHANGED vars => UNCHANGED <<saved, view, record, query, faults>>
  BY DEF vars, database
<1> QED
  BY <1>2, <1>3, <1>4, <1>5, <1>6, <1>7, <1>8 DEF Next

\* A page that queryItems returns spans one commit at most, for any operations
\* and any callers, as long as no transaction is rolled back
\* (CanvasService.queryItems).
THEOREM PagesSpanOneCommit == Spec => []PageSpansOneCommit
<1>1. RInv /\ PageInv => PageSpansOneCommit
  BY DEF PageInv, QueryInv, Spans, PageSpansOneCommit
<1>2. RInv /\ PageInv /\ [Next]_vars => RInv' /\ PageInv'
  BY StepPages, RInvStep
<1> QED
  BY <1>1, <1>2, InitData, InitPages, PTL DEF Spec
=============================================================================
