------------------------------ MODULE MCParts -------------------------------
(* Small instances of the pages and the two services.                      *)
EXTENDS Parts

(* Two schemes of the list, one with attributes and one without.           *)
FormLangs == [r \in {"r1", "r2"} |-> IF r = "r1" THEN {"go"} ELSE {}]
TwoSchemes ==
  {[id |-> "s1", repo |-> "r1", target |-> "pipe", branchs |-> {"m"}, langs |-> {"go"},
    mr |-> TRUE, daily |-> FALSE, attrs |-> [params |-> "p0", types |-> {"SCH"}, sel |-> None]],
   [id |-> "s2", repo |-> "r2", target |-> "pipe", branchs |-> {"f*"}, langs |-> {},
    mr |-> FALSE, daily |-> TRUE, attrs |-> None]}
(* Two repositories that share the name of a branch.                       *)
TwoRepositories ==
  [r1 |-> [f |-> "unmerged_stale", g |-> "merged_stale"], r2 |-> [f |-> "merged_stale", g |-> None]]
(* A scheme in sync, and one of another pipeline with the same branch.     *)
OneInSync ==
  [rows |-> {[id |-> 1, pipe |-> "p", ext |-> 2, name |-> "n", branch |-> "b", mr |-> TRUE,
              binding |-> 2, daily |-> FALSE, plan |-> 0, planName |-> ""]},
   remote |-> {[id |-> 2, pipe |-> "p", name |-> "n", branch |-> "b",
                bindings |-> {[id |-> 2, branch |-> "b"]}, plans |-> {}],
               [id |-> 3, pipe |-> "q", name |-> "m", branch |-> "b", bindings |-> {},
                plans |-> {}]}]
RequestKind == [p |-> "repo_create", q |-> "protected_branch", s |-> "batch_branch"]
(* One scheme there is and one there may be; the second repository is      *)
(* listed only while nothing is filtered.                                  *)
SchemeOwner == [s |-> "r1", t |-> "r2"]
RepoMatches == [m \in {"", "x"} \X {"", "g"} |-> IF m = <<"", "">> THEN {"r1", "r2"} ELSE {"r1"}]
(* A group and its subgroup, a user and the user's department.              *)
GroupParent == <<None, 1>>
UserDept == [u |-> "d"]
=============================================================================
