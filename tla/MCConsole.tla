----------------------------- MODULE MCConsole -----------------------------
(* Instances of Console for TLC.                                            *)
EXTENDS Console

CONSTANTS c1, t, own, other, demo, torn, f, g

OneClick == {c1}
OneTerminal == {t}
FourPairs == {own, other, demo, torn}
OnlyDemo == {demo}
OnlyTorn == {torn}
TwoFunctions == {f, g}
OnlyG == {g}
=============================================================================
