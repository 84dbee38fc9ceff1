----------------------------- MODULE MCExecute -----------------------------
(* Instances of Execute for TLC: two challenges, and a transaction of       *)
(* another node, which comes as often as it likes.                         *)
EXTENDS Execute, TLC

CONSTANTS n1, n2, f1, s1, s2, t1, t2

TwoNonces == {n1, n2}
OneForeign == {f1}
TwoSenders == {s1, s2}
TwoThreads == {t1, t2}

\* nonces, senders and connections are only compared
Alike == Permutations(TwoNonces) \cup Permutations(TwoSenders) \cup Permutations(TwoThreads)
=============================================================================
