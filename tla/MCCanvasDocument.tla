-------------------------- MODULE MCCanvasDocument --------------------------
(***************************************************************************)
(* Small instances of CanvasDocument: a user who edits one item or two at  *)
(* once, or removes one, and other clients who set the same items.         *)
(***************************************************************************)
EXTENDS CanvasDocument, TLC

CONSTANTS x, y, c1, c2, c3, r1, r2

SetX == [i \in {x} |-> "set"]
SetBoth == [i \in {x, y} |-> "set"]
DropX == [i \in {x} |-> "remove"]

MCEdits == {SetX, SetBoth, DropX}
MCRemoteEdit == [r \in RemoteIds |-> IF r = r1 THEN SetX ELSE SetBoth]

\* Command ids are fresh: taking them in this order loses nothing.
Used(c) == c \in Ids /\ fiber'[c].at # "idle"
Committed(r) == \E k \in DOMAIN log' : log'[k].cmd = r
InOrder == (Used(c2) => Used(c1)) /\ (Used(c3) => Used(c2))

\* Bound: a third command only where nothing fails and others commit once.
ThirdAlone == Used(c3) => faults' = 0 /\ ~Committed(r2)

MCSpec == Init /\ [][Next /\ InOrder /\ ThirdAlone]_vars
MCFairSpec == MCSpec /\ Fairness
=============================================================================
