-------------------------- MODULE MCContractState --------------------------
(* Instances of ContractState for TLC: two keys; peers that mine x, y and z, *)
(* local clients that send v; a sender nobody knows the permission of, and a *)
(* user who calls a function for administrators.                            *)
EXTENDS ContractState

CONSTANTS k1, k2, v, x, y, z, bad, fails, admin, user, nobody, g1, g2

OneThread == {g1}
TwoThreads == {g1, g2}
TwoKeys == {k1, k2}
AllTxs == {v, x, y, z, bad, fails}
Key == [tx \in AllTxs |-> IF tx \in {v, x, y, bad, fails} THEN k1 ELSE k2]
TwoRoles == {admin, user}
RoleOf == [tx \in AllTxs |-> CASE tx = bad   -> nobody
                               [] tx = fails -> user
                               [] OTHER      -> admin]
ForAdmins == [tx \in AllTxs |-> {admin}]
OneLocal == {v}
OneGossiped == {x}
None == {}

Both == <<x, z>>
Other == <<y, fails, z>>
Broken == <<x, bad>>

\* a chain of two blocks, a fork of its second and a block that is refused
MCOffered == {<<Both>>, <<Both, Other>>, <<Other>>, <<Broken>>}
\* parts of that chain, a longer one, one with a gap and one without its root
MCBatches ==
    {<<<<Both>>, <<Both, Other>>>>, <<<<Both, Other>>>>,
     <<<<Other>>, <<Other, Both>>>>, <<<<Both>>, <<Other, Both>>>>, <<<<Broken>>>>}

\* for two threads: a block of each kind
FewOffered == {<<Both>>, <<<<fails>>>>}
FewBatches == {<<<<Both>>, <<Both, <<y>>>>>>}
=============================================================================
