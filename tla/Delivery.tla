------------------------------ MODULE Delivery ------------------------------
(***************************************************************************)
(* What the outbound pipeline promises about a message, seen from outside: *)
(* its status, and how many copies of it the provider has accepted.        *)
(***************************************************************************)
EXTENDS Naturals

CONSTANT Messages
VARIABLES state, copies

States == {"unsent", "pending", "confirmed", "failed"}

Init == /\ state = [m \in Messages |-> "unsent"]
        /\ copies = [m \in Messages |-> 0]

Settle(m, s) == /\ state[m] # "unsent"
                /\ state' = [state EXCEPT ![m] = s]
                /\ UNCHANGED copies

(* An agent, or the auto-reply, sends the message. *)
Submit(m) == /\ state[m] = "unsent"
             /\ state' = [state EXCEPT ![m] = "pending"]
             /\ UNCHANGED copies

(* A copy goes out, at any time once the message exists. *)
Emit(m) == /\ state[m] # "unsent"
           /\ copies' = [copies EXCEPT ![m] = @ + 1]
           /\ UNCHANGED state

(* It is confirmed only when a copy is out. *)
Confirm(m) == copies[m] > 0 /\ Settle(m, "confirmed")

Fail(m) == Settle(m, "failed")

(* It is queued again by hand. *)
Reopen(m) == Settle(m, "pending")

Next == \E m \in Messages :
            Submit(m) \/ Emit(m) \/ Confirm(m) \/ Fail(m) \/ Reopen(m)

Spec == Init /\ [][Next]_<<state, copies>>
=============================================================================
