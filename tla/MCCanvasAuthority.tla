--------------------------- MODULE MCCanvasAuthority ---------------------------
(***************************************************************************)
(* Instances of CanvasAuthority for TLC: a frame p, an item q and commands *)
(* that depend on each other through revisions and through the hierarchy.  *)
(***************************************************************************)
EXTENDS CanvasAuthority, TLC

CONSTANTS p, q, addP, addQ, rootQ, clipQ, dropP, moveP, patchP, sameP

MCItems == {p, q}

Op(k, parent, val, guard) ==
  [kind |-> k, parent |-> parent, ref |-> Root, val |-> val, guard |-> guard]

Insert(parent) == Op("insert", parent, 1, 0)
Clip(o, i) == [o EXCEPT !.ref = i]

\* addQ puts q under p and clips it there, clipQ only clips it there; dropP
\* deletes p, which is legal only without children; moveP puts p under q, a
\* cycle after addQ, and restates the value of q; sameP changes nothing.
MCCatalogue ==
  addP   :> [base |-> 0, ops |-> p :> Insert(Root)] @@
  addQ   :> [base |-> 1, ops |-> q :> Clip(Insert(p), p)] @@
  rootQ  :> [base |-> 0, ops |-> q :> Insert(Root)] @@
  clipQ  :> [base |-> 1, ops |-> q :> Clip(Insert(Root), p)] @@
  dropP  :> [base |-> 1, ops |-> p :> Op("delete", Root, 0, 1)] @@
  moveP  :> [base |-> 0, ops |-> p :> Op("move", q, 0, 1) @@ q :> Op("patch", Root, 1, 1)] @@
  patchP :> [base |-> 0, ops |-> p :> Op("patch", Root, 2, 1)] @@
  sameP  :> [base |-> 0, ops |-> p :> Op("patch", Root, 1, 1)]

MCCommandCatalogue == [c \in Commands |-> MCCatalogue[c]]

\* Another authority adds q, or rewrites p behind the cache's back.
MCForeignBatches == {q :> Insert(p), q :> Insert(Root), p :> Op("patch", Root, 2, 1)}
===============================================================================
