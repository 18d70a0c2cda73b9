---------------------------- MODULE SendCompletion ----------------------------
(***************************************************************************)
(* What SendTo() promises for each message it accepts, and all that the    *)
(* application sees of module Sends: the send is outstanding until it is   *)
(* completed, once, with a result that does not change.                    *)
(***************************************************************************)
CONSTANT SendIds

VARIABLE status

Outcome == {"ok", "cancelled", "lost"}

Init == status = [s \in SendIds |-> "new"]

Accept(s) ==
    /\ status[s] = "new"
    /\ status' = [status EXCEPT ![s] = "outstanding"]

Complete(s) ==
    /\ status[s] = "outstanding"
    /\ \E result \in Outcome : status' = [status EXCEPT ![s] = result]

Next == \E s \in SendIds : Accept(s) \/ Complete(s)

Spec == Init /\ [][Next]_status
==============================================================================
