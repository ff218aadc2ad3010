-------------------------- MODULE MCKeyValueHandles --------------------------
(* Instances of KeyValueHandles: three or four calls to two or three        *)
(* resources, with room for one or two handles.                             *)
EXTENDS KeyValueHandles, TLC

CONSTANTS a, b, c, r1, r2, w1, w2

MCOnTwo == (r1 :> a) @@ (r2 :> b) @@ (w1 :> a) @@ (w2 :> b)
MCOnThree == (r1 :> a) @@ (r2 :> b) @@ (w1 :> c)
MCOnWaiting == (w1 :> a) @@ (r1 :> b)
=============================================================================
