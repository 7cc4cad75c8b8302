----------------------------- MODULE MCRepoPanel -----------------------------
(* Two repositories that share the name of a branch.                       *)
EXTENDS RepoPanel

TwoRepositories ==
  [r1 |-> [f |-> "unmerged_stale", g |-> "merged_stale"], r2 |-> [f |-> "merged_stale", g |-> None]]
=============================================================================
