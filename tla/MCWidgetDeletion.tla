------------------------- MODULE MCWidgetDeletion --------------------------
(* Instances of WidgetDeletion: a published frame and a preview.            *)
EXTENDS WidgetDeletion

CONSTANTS i1, i2, m1

MCTypeOfItem == [i \in {i1, i2} |->
    IF i = i1 THEN "widget-instance" ELSE "widget-preview"]
=============================================================================
