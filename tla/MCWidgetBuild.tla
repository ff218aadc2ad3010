--------------------------- MODULE MCWidgetBuild ---------------------------
(* Instances of WidgetBuild: one caller of each kind.                       *)
EXTENDS WidgetBuild

CONSTANTS s1, s2, c1, c2

MCKind == [c \in {c1, c2} |-> IF c = c1 THEN "ensure" ELSE "rebuild"]
=============================================================================
