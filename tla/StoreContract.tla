---------------------------- MODULE StoreContract ----------------------------
(***************************************************************************)
(* What the stores on one connection promise their callers, without        *)
(* statements, promises or leases: an operation takes effect on the saved  *)
(* rows in one step or not at all, and ends once.                          *)
(***************************************************************************)
EXTENDS StoreRows

VARIABLES
  saved,    \* the durable rows
  outcome,  \* how each operation ended
  shown     \* the canvas each snapshot returned

contractVars == <<saved, outcome, shown>>

Init ==
  /\ saved = NoRows
  /\ outcome = [t \in Tasks |-> "none"]
  /\ shown = [t \in Tasks |-> NoRows]

End(t, o) == outcome[t] = "none" /\ outcome' = [outcome EXCEPT ![t] = o]

Commit(t) ==
  /\ Kind[t] = "commit"
  /\ \/ Key[t] \in saved.keys /\ End(t, "duplicate") /\ UNCHANGED saved
     \/ /\ Key[t] \notin saved.keys /\ saved.rev # Expected[t]
        /\ End(t, "conflict") /\ UNCHANGED saved
     \/ /\ Key[t] \notin saved.keys /\ saved.rev = Expected[t]
        /\ End(t, "ok") /\ saved' = Put(Touch(Bump(saved), Changes[t]), {t})
  /\ UNCHANGED shown

Snapshot(t) ==
  /\ Kind[t] = "snapshot" /\ End(t, "ok")
  /\ shown' = [shown EXCEPT ![t] = Canvas(saved)]
  /\ UNCHANGED saved

\* A batch takes with it the writes nested in it.
Batch(t, nested) ==
  /\ Kind[t] = "batch" /\ End(t, "ok")
  /\ saved' = Put(saved, nested \cup {t})
  /\ UNCHANGED shown

Write(t) ==
  /\ Kind[t] = "write" /\ End(t, "ok")
  /\ saved' = Put(saved, {t})
  /\ UNCHANGED shown

Fail(t) == End(t, "failed") /\ UNCHANGED <<saved, shown>>

Next ==
  \E t \in Tasks :
    \/ Commit(t) \/ Snapshot(t) \/ Write(t) \/ Fail(t)
    \/ \E nested \in SUBSET Writes : Batch(t, nested)

Spec == Init /\ [][Next]_contractVars
=============================================================================
