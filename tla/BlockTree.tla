----------------------------- MODULE BlockTree -----------------------------
(***************************************************************************)
(* What the block store promises, whatever the interleaving of its callers *)
(* and whenever the process stops: a tree with this network's genesis      *)
(* block as its only root, that only grows, each new block under a block   *)
(* it already holds, and a tip that always names one of its blocks and is  *)
(* never lost again.                                                       *)
(***************************************************************************)
EXTENDS Blocks

VARIABLES tree,  \* the hashes of the stored blocks
          tip    \* the block the store names as its latest, or NoHash

vars == <<tree, tip>>

Init == tree = {} /\ tip = NoHash

Grow(h) ==
    /\ h = Genesis \/ Prev(h) \in tree
    /\ tree' = tree \cup {h}
    /\ UNCHANGED tip

Point(h) ==
    /\ h \in tree
    /\ tip' = h
    /\ UNCHANGED tree

Next == \E h \in Hash : Grow(h) \/ Point(h)

Spec == Init /\ [][Next]_vars
=============================================================================
