------------------------- MODULE MCSchemeLifecycle -------------------------
(* Instances of SchemeLifecycle for TLC.                                   *)
EXTENDS SchemeLifecycle, TLC

(* The fuzzy search at its worst: it returns every task.                   *)
AllSimilar == Names \X Names

(* The slots are interchangeable.                                          *)
Symmetry == Permutations(Reqs)
=============================================================================
