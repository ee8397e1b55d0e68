----------------------------- MODULE MCInbound ------------------------------
(* Instances of Inbound for TLC: who writes, and what the environment does. *)
EXTENDS Inbound, TLC

CONSTANTS m1, m2, k1, k2, r1, r2

SameSender == [m \in Messages |-> k1]
TwoSenders == [m \in Messages |-> IF m = m1 THEN k1 ELSE k2]

Nothing == [deliveries |-> 0, expiries |-> 0, closings |-> 0, reopenings |-> 0,
            creations |-> 0, toggles |-> 0, faults |-> 0, crashes |-> 0]

Calm     == [Nothing EXCEPT !.deliveries = 3, !.closings = 1, !.reopenings = 1,
                            !.creations = 1, !.toggles = 1]
Broken   == [Nothing EXCEPT !.deliveries = 2, !.expiries = 1, !.closings = 1,
                            !.creations = 1, !.faults = 2, !.crashes = 1]
Once     == [Nothing EXCEPT !.deliveries = 2]
Restart  == [Nothing EXCEPT !.deliveries = 1, !.crashes = 1]

Renamed == (m1 :> m2) @@ (m2 :> m1) @@ (k1 :> k2) @@ (k2 :> k1)
Renamings == {Renamed} \cup Permutations(Requests)
Interchangeable == Permutations(Messages) \cup Permutations(Requests)
=============================================================================
