--------------------------- MODULE MCSchemeUpdate ---------------------------
(* Scenarios of SchemeUpdate for TLC.                                      *)
EXTENDS SchemeUpdate

One(S) == {CHOOSE x \in S : TRUE}
OneSimilar == {CHOOSE pair \in Names \X Names : pair[1] # pair[2]}
Scenario(slots, forms, similar, faulty, max) ==
  [slots |-> slots, forms |-> forms, similar |-> similar, faults |-> faulty, max |-> max]

(* One update at a time and nothing fails.                                 *)
Plain == Scenario(One(Reqs), {f \in Form : f.name \in One(Names)}, {}, {}, 0)
(* Two calls fail, lose their answers or meet a task made anew by hand.    *)
Failing == Scenario(One(Reqs), {f \in Form : f.name \in One(Names) /\ ~f.daily
                                               /\ f.time \in One(Times)},
                    {}, {"refused", "lost", "recreated"}, 2)
(* Tasks are renamed and made anew by hand, and the fuzzy search for one   *)
(* name also finds the other.                                              *)
ByHand == Scenario(One(Reqs), {f \in Form : f.branch \in One(Branches) /\ ~f.daily
                                              /\ f.time \in One(Times)},
                   OneSimilar, {"refused", "recreated", "renamed"}, 1)
(* Two updates at the same time, and one call fails.                       *)
Together == Scenario(Reqs, {f \in Form : /\ f.name \in One(Names) /\ f.branch \in One(Branches)
                                         /\ f.time \in One(Times) /\ f.langs = NoLangs},
                     {}, {"refused"}, 1)
(* A list cannot be read.                                                  *)
Unread == Scenario(One(Reqs), {f \in Form : f.branch \in One(Branches) /\ f.time \in One(Times)},
                   {}, {"lookup"}, 1)
AllScenarios == {Plain, Failing, ByHand, Together, Unread}

(* For SchemeInSync: nothing fails, and only the branch, or only the       *)
(* languages change.                                                       *)
Lone(forms) == {Scenario(One(Reqs), forms, {}, {}, 0)}
Same(field) == {f \in Form : /\ ~f.mr /\ ~f.daily /\ f.time \in One(Times)
                             /\ \A x \in {"name", "branch", "attrs", "langs"} \ {field} :
                                  f[x] = (CHOOSE g \in Form : g.langs = NoLangs)[x]}
OnlyBranch == Lone(Same("branch"))
OnlyLangs == Lone(Same("langs"))

(* A call fails while the daily time is changed.                           *)
OneFails == {Scenario(One(Reqs), Form, {}, {"refused"}, 1)}
=============================================================================
