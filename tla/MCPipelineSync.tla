---------------------------- MODULE MCPipelineSync ----------------------------
(* A scheme in sync, and one of another pipeline with the same branch.     *)
EXTENDS PipelineSync

TwoSchemes ==
  [rows |-> {[id |-> 1, pipe |-> "p", ext |-> 2, name |-> "n", branch |-> "b", mr |-> TRUE,
              binding |-> 2, daily |-> FALSE, plan |-> Nil, planName |-> ""]},
   remote |-> {[id |-> 2, pipe |-> "p", name |-> "n", branch |-> "b",
                bindings |-> {[id |-> 2, branch |-> "b"]}, plans |-> {}],
               [id |-> 3, pipe |-> "q", name |-> "m", branch |-> "b", bindings |-> {},
                plans |-> {}]}]
=============================================================================
