--------------------------- MODULE MCCancellation ---------------------------
(* Three tokens in a line, each the child of the one before it. *)
EXTENDS CancellationToken, TLC

CONSTANTS root, mid, leaf, t1, t2

ChainParent == (root :> None) @@ (mid :> root) @@ (leaf :> mid)
=============================================================================
