----------------------------- MODULE MCGroupSync -----------------------------
(* Instances of GroupSync for TLC: a chain of groups with a project at its *)
(* end.                                                                    *)
EXTENDS GroupSync

CONSTANTS g1, g2, g3, p1

ChainUp == [g \in Groups |-> IF g = g2 THEN g1 ELSE IF g = g3 THEN g2 ELSE None]
ChainHome == [p \in Projects |-> g2]
=============================================================================
