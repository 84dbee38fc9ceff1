---------------------------- MODULE MCChainSync ----------------------------
(* Instances of ChainSync for TLC.                                          *)
EXTENDS ChainSync

CONSTANTS root, left, right, p, q, r, A, B

OneContent == {root, left}
TwoContents == {root, left, right}
TwoNodes == {p, q}
ThreeNodes == {p, q, r}
None == {}
OnlyQ == {q}

\* who mines what: p and q a content each, or p alone, with one or with both
EachMines == [n \in Nodes |-> IF n = p THEN {left} ELSE {right}]
OneMiner == [n \in Nodes |-> IF n = p THEN {left} ELSE {}]
NobodyMines == [n \in Nodes |-> {}]
OneMinerOfBoth == [n \in Nodes |-> IF n = p THEN {left, right} ELSE {}]

\* everybody dials everybody else
EachOther == {<<p, q>>, <<q, p>>}
\* the two others dial p, who mines
ToMiner == {<<q, p>>, <<r, p>>}
\* p has approved q
Approved == {<<p, q>>}
\* p and q are nodes of one organization, r of another; or each of its own
Allied == [n \in Nodes |-> IF n = r THEN B ELSE A]
Apart == [n \in Nodes |-> IF n = p THEN A ELSE B]
\* whose users submit what is mined
ByA == [c \in Payload \ {root} |-> A]
ByBoth == [c \in Payload \ {root} |-> IF c = left THEN A ELSE B]
QToP == {<<q, p>>}
=============================================================================
