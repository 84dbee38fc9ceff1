--------------------------- MODULE MCJoinRequests ---------------------------
(* Instances of JoinRequests for TLC: two strangers ask to join, and one by  *)
(* this node's own address.                                                 *)
EXTENDS JoinRequests

CONSTANTS e1, e2, me, t1, t2

Asking == {e1, e2, me}
\* only e1 renews its request
Joins == [e \in Asking |-> IF e = e1 THEN 2 ELSE 1]
NoneKnown == {}
TwoThreads == {t1, t2}
=============================================================================
