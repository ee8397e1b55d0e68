----------------------------- MODULE MCEnquiry ------------------------------
(* Instances of Enquiry for TLC: which requests arrive in each run. *)
EXTENDS Enquiry, TLC

CONSTANTS u1, u2, t1, c1, c2, c3

Nothing == [changes |-> 0, assignments |-> 0, edits |-> 0, notes |-> 0,
            replies |-> 0, outbound |-> 0, reports |-> 0, inbound |-> 0,
            removals |-> 0, faults |-> 0]

HandlersInTurn == [Nothing EXCEPT !.changes = 1, !.assignments = 1, !.edits = 2,
                                  !.replies = 1, !.outbound = 1, !.reports = 1,
                                  !.inbound = 1, !.faults = 1]
Automatic  == [Nothing EXCEPT !.assignments = 1, !.notes = 1, !.replies = 1,
                              !.outbound = 1, !.reports = 2, !.inbound = 2,
                              !.removals = 1, !.faults = 1]
TwoChanges == [Nothing EXCEPT !.changes = 2]

Interchangeable == Permutations(Users) \cup Permutations(Tags) \cup Permutations(Calls)
=============================================================================
