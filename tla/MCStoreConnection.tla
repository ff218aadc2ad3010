-------------------------- MODULE MCStoreConnection --------------------------
(***************************************************************************)
(* Instances of StoreConnection for TLC: two commits validated against     *)
(* revision 0 and one against revision 1, a retried command, a snapshot, a *)
(* transaction of another store with a write launched from its context,    *)
(* which runs inside it or after it, and a write of its own.               *)
(***************************************************************************)
EXTENDS StoreConnection, TLC

CONSTANTS a, b, add, edit, again, after, read, batch, inner, row

Commits == {add, edit, again, after}

MCKind ==
  [t \in Tasks |-> CASE t \in Commits -> "commit"
                     [] t = read -> "snapshot"
                     [] t = batch -> "batch"
                     [] OTHER -> "write"]
MCKey == [t \in Tasks |-> IF t = again THEN add ELSE t]
MCChanges ==
  [t \in Tasks |-> CASE t \in {add, again} -> {a, b}
                     [] t \in {edit, after} -> {a}
                     [] OTHER -> {}]
MCExpected == [t \in Tasks |-> IF t = after THEN 1 ELSE 0]
MCParent == [t \in Tasks |-> IF t = inner THEN batch ELSE None]
===============================================================================
