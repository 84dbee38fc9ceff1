---------------------------- MODULE MCTransport ----------------------------
(* Instances of Transport for TLC.                                          *)
EXTENDS Transport

CONSTANTS a, b

BothEnds == {a, b}
Get == [kind |-> "GET_CHAIN", id |-> 1]
Mined == [kind |-> "NEW_BLOCK", id |-> 2]

\* both ask for a chain and announce a block, as nodes that start together do
EachAsks == [e \in Ends |-> {Get, Mined}]

Sizes == [k \in Kind |-> IF k = "SEND_CHAIN" THEN 2 ELSE 1]
=============================================================================
