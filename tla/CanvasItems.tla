----------------------------- MODULE CanvasItems -----------------------------
(***************************************************************************)
(* The items of one canvas and the pure command policy over them: what an  *)
(* operation demands of the item it names, what it makes of it, and which  *)
(* documents are well formed.  Nothing here has state; the authority, the  *)
(* durable store and the contract all read a document with these operators.*)
(*                                                                         *)
(* An item is abstracted to what the policy tells apart: its item revision *)
(* (0 when the row is absent), its parent, the node it refers to (as clip, *)
(* label or obstacle), and one guarded value standing for the JSON paths   *)
(* that path preconditions compare.                                        *)
(***************************************************************************)
EXTENDS Naturals, FiniteSets

CONSTANTS
  Items,   \* item identifiers of the canvas
  Root     \* no item: the parent of a top-level item, the absent reference

ASSUME RootAssumption == Root \notin Items

Parents == Items \cup {Root}

Item   == [rev : Nat, parent : Parents, ref : Parents, val : Nat]
Absent == [rev |-> 0, parent |-> Root, ref |-> Root, val |-> 0]

Document == [Items -> Item]
EmptyDocument == [i \in Items |-> Absent]

Present(doc) == {i \in Items : doc[i].rev > 0}

-----------------------------------------------------------------------------
(***************************************************************************)
(* Operations.  A command has at most one operation per item; the guard is *)
(* the precondition the document service sends with it: item-absent for an *)
(* insert, path-value for a patch, item-revision for a move (reparent or   *)
(* reorder) and for a delete.                                              *)
(***************************************************************************)
Operation ==
  [kind : {"insert", "patch", "move", "delete"},
   parent : Parents, ref : Parents, val : Nat, guard : Nat]

IsBatch(ops) == \E S \in SUBSET Items : ops \in [S -> Operation]

GuardHolds(o, x) ==
  \/ o.kind = "insert" /\ x.rev = 0
  \/ o.kind = "patch"  /\ x.rev > 0 /\ x.val = o.guard
  \/ o.kind \in {"move", "delete"} /\ x.rev > 0 /\ x.rev = o.guard

GuardsHold(ops, doc) == \A i \in DOMAIN ops : GuardHolds(ops[i], doc[i])

\* Does the operation leave the item different from what it was?
Alters(o, x) ==
  \/ o.kind \in {"insert", "delete"}
  \/ o.kind = "patch" /\ o.val # x.val
  \/ o.kind = "move"  /\ o.parent # x.parent

Apply(o, x) ==
  IF o.kind = "delete" THEN Absent
  ELSE [rev    |-> x.rev + 1,
        parent |-> IF o.kind \in {"insert", "move"} THEN o.parent ELSE x.parent,
        ref    |-> IF o.kind = "insert" THEN o.ref ELSE x.ref,
        val    |-> IF o.kind \in {"insert", "patch"} THEN o.val ELSE x.val]

Altered(ops, doc) == {i \in DOMAIN ops : Alters(ops[i], doc[i])}

\* The document after the batch; items it leaves equal keep their revision.
Result(ops, doc) ==
  [i \in Items |-> IF i \in DOMAIN ops /\ Alters(ops[i], doc[i])
                   THEN Apply(ops[i], doc[i])
                   ELSE doc[i]]

-----------------------------------------------------------------------------
(***************************************************************************)
(* Well-formed documents, and the bounded check the authority makes.       *)
(***************************************************************************)
\* No non-empty set of items in which every parent is again in the set.
NoCycleAmong(doc, S) ==
  \A C \in SUBSET S : C # {} => \E i \in C : doc[i].parent \notin C

WellFormed(doc) ==
  /\ \A i \in Present(doc) : doc[i].parent \in Present(doc) \cup {Root}
  /\ NoCycleAmong(doc, Present(doc))

\* What the store asserts of the whole document before it serves a snapshot.
Readable(doc) ==
  /\ WellFormed(doc)
  /\ \A i \in Present(doc) : doc[i].ref \in Present(doc) \cup {Root}

\* The items reachable from S by parents and references, S included.
Closure(doc, S) ==
  {i \in Items : \A C \in SUBSET Items :
     (S \subseteq C /\ \A x \in C : {doc[x].parent, doc[x].ref} \subseteq C \cup {Root})
       => i \in C}

Children(doc, S) == {i \in Present(doc) : doc[i].parent \in S}

(***************************************************************************)
(* Validation reads only the changed items, what they reach, and the rows  *)
(* `children` that the store holds under what is deleted, never the whole  *)
(* canvas.                                                                 *)
(***************************************************************************)
\* Mutant: the children of deleted items are not looked at.
LocallyValidAbove(doc, changed, children) ==
  LET seen == Closure(doc, changed \cap Present(doc))
  IN  seen \subseteq Present(doc) /\ NoCycleAmong(doc, seen)

LocallyValid(doc, changed, children) ==
  LET kept == changed \cap Present(doc)
      gone == changed \ Present(doc)
      seen == Closure(doc, kept)
  IN  /\ children \cap Children(doc, gone) = {}
      /\ seen \subseteq Present(doc)
      /\ NoCycleAmong(doc, seen)
=============================================================================
