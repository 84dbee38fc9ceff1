----------------------------- MODULE MCPeerMesh -----------------------------
(* Instances of PeerMesh for TLC.                                           *)
EXTENDS PeerMesh

CONSTANTS p, q, r

TwoNodes == {p, q}
ThreeNodes == {p, q, r}
\* the generated configurations: everybody lists everybody else
EachOther == {<<p, q>>, <<q, p>>}
\* r lists one node of a network and joins it
Newcomer == EachOther \cup {<<r, p>>}
NewcomerApproved == {<<p, r>>}
NoneApproved == {}
BackApproved == {<<q, p>>}
=============================================================================
