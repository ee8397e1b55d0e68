----------------------------- MODULE MCOutbound -----------------------------
(* Instances of Outbound for TLC: what the environment may do in each run. *)
EXTENDS Outbound, TLC

CONSTANTS m1, m2, c1, c2, c3

Nothing == [composer |-> 0, events |-> 0, retries |-> 0, dlq |-> 0,
            receipts |-> 0, faults |-> 0, crashes |-> 0]

EventPath    == [Nothing EXCEPT !.events = 2, !.receipts = 2]
RetryPath    == [Nothing EXCEPT !.composer = 1, !.retries = 1]
FaultyPath   == [Nothing EXCEPT !.events = 1, !.dlq = 1, !.receipts = 1,
                                !.faults = 1, !.crashes = 1]
OneEvent     == [Nothing EXCEPT !.events = 1]
OneComposer  == [Nothing EXCEPT !.composer = 1]

Slots == Permutations(Calls)
=============================================================================
