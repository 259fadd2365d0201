------------------------------- MODULE Delivery -------------------------------
(***************************************************************************)
(* What the WhatsApp outbox promises the staff who queue messages.  A      *)
(* message is asked for once.  It is delivered at most once while it is    *)
(* open, and then closed as sent; or it is given up, or withdrawn, and the *)
(* customer never has it.  A closed message is never opened again, but one *)
(* that was given up may still be withdrawn.                               *)
(*                                                                         *)
(* A fault (a lost answer, a crash, a claim taken from a slow worker)      *)
(* disturbs its message for good: all that is left is that it stays asked  *)
(* for, and that each fault costs the customer one more copy at most.      *)
(***************************************************************************)
EXTENDS Naturals

CONSTANT Messages

VARIABLES
    state,   \* how each message stands
    copies,  \* how often the customer was sent it
    faults   \* how often it was disturbed

vars == <<state, copies, faults>>

States == {"none", "open", "sent", "failed", "cancelled"}

Init ==
    /\ state = [m \in Messages |-> "none"]
    /\ copies = [m \in Messages |-> 0]
    /\ faults = [m \in Messages |-> 0]

Stands(m) == state'[m] = state[m] /\ copies'[m] = copies[m]

Asked(m) == state[m] = "none" /\ state'[m] = "open" /\ copies'[m] = copies[m]

Delivered(m) ==
    /\ state[m] = "open" /\ state'[m] = "open"
    /\ copies[m] = 0 /\ copies'[m] = 1

\* Sent if the customer has it, and only then.
Closed(m) ==
    /\ state[m] = "open"
    /\ state'[m] = IF copies[m] = 0 THEN "failed" ELSE "sent"
    /\ copies'[m] = copies[m]

Withdrawn(m) ==
    /\ state[m] \in {"open", "failed"} /\ state'[m] = "cancelled"
    /\ copies[m] = 0 /\ copies'[m] = 0

Disturbed(m) ==
    /\ faults'[m] > 0 /\ faults'[m] >= faults[m]
    /\ state[m] # "none" /\ state'[m] # "none"
    /\ copies'[m] \in {copies[m], copies[m] + 1} /\ copies'[m] <= 1 + faults'[m]

\* A step may concern several messages: a worker that dies had several in hand.
Next ==
    /\ state' \in [Messages -> States]
    /\ \A m \in Messages :
          \/ /\ faults'[m] = faults[m]
             /\ Stands(m) \/ Asked(m) \/ Delivered(m) \/ Closed(m) \/ Withdrawn(m)
          \/ Disturbed(m)

Spec == Init /\ [][Next]_vars
===============================================================================
