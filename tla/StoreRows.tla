------------------------------ MODULE StoreRows ------------------------------
(***************************************************************************)
(* The operations the stores run on the shared connection and the rows     *)
(* they write: the revision and the items of one canvas, and the keys that *)
(* mark what else was written (command receipts, rows of other tables).    *)
(***************************************************************************)
EXTENDS Naturals

CONSTANTS
  Items,    \* items of the canvas
  Tasks,    \* operations the callers may start
  Kind,     \* Kind[t]: what operation t is
  Key,      \* Key[t]: the receipt or row that t writes
  Changes,  \* Changes[t]: the items a commit writes
  Expected  \* Expected[t]: the revision a commit was validated against

\* applyMutations, getSnapshot, a transaction of another store, and a single
\* write of another store.
Kinds == {"commit", "snapshot", "batch", "write"}

ASSUME TaskAssumption ==
  /\ Kind \in [Tasks -> Kinds]
  /\ Changes \in [Tasks -> SUBSET Items]
  /\ Expected \in [Tasks -> Nat]

Writes == {t \in Tasks : Kind[t] = "write"}

Keys == {Key[t] : t \in Tasks}
Rows == [rev : Nat, rows : [Items -> Nat], keys : SUBSET Keys]
NoRows == [rev |-> 0, rows |-> [i \in Items |-> 0], keys |-> {}]

Outcome == {"none", "ok", "duplicate", "conflict", "failed"}

Put(r, S) == [r EXCEPT !.keys = @ \cup {Key[t] : t \in S}]
Canvas(r) == [r EXCEPT !.keys = {}]

\* A row carries the revision that wrote it last.
Bump(r) == [r EXCEPT !.rev = @ + 1]
Touch(r, S) == [r EXCEPT !.rows = [i \in Items |-> IF i \in S THEN r.rev ELSE @[i]]]
=============================================================================
