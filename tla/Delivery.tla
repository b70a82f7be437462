------------------------------ MODULE Delivery ------------------------------
(***************************************************************************)
(* What every component that accepts messages promises to the one above:    *)
(* an accepted message is settled with one outcome, once, and for good.      *)
(* Components may settle several messages in one step.                      *)
(***************************************************************************)
CONSTANTS
  Messages,
  Outcomes    \* how a message may be settled; neither "new" nor "held"

VARIABLE status   \* per message: "new", "held" or the outcome it was settled with

Init == status = [m \in Messages |-> "new"]

Accept(m) ==
  /\ status[m] = "new"
  /\ status' = [status EXCEPT ![m] = "held"]

\* Each message of S is settled; the others keep their status.
Settle(S) ==
  /\ \A m \in S : status[m] = "held"
  /\ \E r \in [S -> Outcomes] :
       status' = [m \in Messages |-> IF m \in S THEN r[m] ELSE status[m]]

Next == (\E m \in Messages : Accept(m)) \/ (\E S \in SUBSET Messages : Settle(S))

Spec == Init /\ [][Next]_status
=============================================================================
