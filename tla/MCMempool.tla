----------------------------- MODULE MCMempool -----------------------------
(* Instances of Mempool for TLC: two senders, one with two transactions.    *)
EXTENDS Mempool

CONSTANTS s1, s2, x1, x2, y, t1, t2

TwoSenders == {s1, s2}
ThreeTxs == {x1, x2, y}
OwnerMap == [tx \in ThreeTxs |-> IF tx = y THEN s2 ELSE s1]
TwoThreads == {t1, t2}
=============================================================================
