------------------------ MODULE MCWidgetPublication ------------------------
(* Instances of WidgetPublication.                                          *)
EXTENDS WidgetPublication

CONSTANTS s1, s2, p1, p2, m1, r1, r2, x1, x2

\* Every operation on one slug; the tests restore with two journals of one.
MCOneSlugP == [o \in {p1, p2} |-> s1]
=============================================================================
