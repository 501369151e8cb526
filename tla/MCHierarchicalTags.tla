------------------------- MODULE MCHierarchicalTags -------------------------
(***************************************************************************)
(* The tag tree the model-checking runs use:                               *)
(*                                                                         *)
(*   root -+- A -+- a1            (leaf)                                   *)
(*         |     +- a2 -+- x      (a2 is a branch, x a leaf)               *)
(*         +- B --- b1            (leaf, displayed with a1's name)         *)
(*         +- E                   (has_children, but lists no child)       *)
(*                                                                         *)
(* Three levels deep, so that a stale level can survive below a shallower  *)
(* pick; two branches at the root, so that two loads can race at depth 2;  *)
(* one name shared by two leaves, so that texts can agree on different     *)
(* paths; one empty branch (the server's EmptyResult).                     *)
(***************************************************************************)
EXTENDS TLC

CONSTANTS A, B, E, a1, a2, x, b1, nA, nB, nE, n1, n2, nx

MCTags == {A, B, E, a1, a2, x, b1}

MCParentOf ==
    (A :> "root") @@ (B :> "root") @@ (E :> "root")
      @@ (a1 :> A) @@ (a2 :> A) @@ (x :> a2) @@ (b1 :> B)

MCBranches == {A, B, E, a2}

MCNames == {nA, nB, nE, n1, n2, nx}

MCDisplayName ==
    (A :> nA) @@ (B :> nB) @@ (E :> nE)
      @@ (a1 :> n1) @@ (a2 :> n2) @@ (x :> nx) @@ (b1 :> n1)
=============================================================================
