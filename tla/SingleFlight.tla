----------------------------- MODULE SingleFlight -----------------------------
(***************************************************************************)
(* What a page promises that disables a button while its call is in        *)
(* flight: the flag is set from the click until the call has ended, and    *)
(* meanwhile no second call is made.                                       *)
(***************************************************************************)
VARIABLES busy,   \* the flag that disables the button
          calls   \* the calls in flight

Init == busy = FALSE /\ calls = {}
Start == /\ ~busy /\ busy' = TRUE
         /\ calls = {} /\ \E c \in calls' : calls' = {c}
End == /\ busy /\ busy' = FALSE
       /\ \E c \in calls : calls = {c}
       /\ calls' = {}
Next == Start \/ End

Spec == Init /\ [][Next]_<<busy, calls>>
=============================================================================
