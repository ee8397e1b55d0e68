------------------------------ MODULE MCInbox -------------------------------
(* Two browsers look at one contact: messages of two channels and a row    *)
(* clicked; both click; a hidden page; a list fetched while an enquiry is  *)
(* announced; a lost connection.                                           *)
EXTENDS Inbox

Some(some) == [what \in Bounds |-> IF what \in DOMAIN some THEN some[what] ELSE 0]
MCScenarios ==
    {Some([appends |-> 2, others |-> 1, clicks |-> 1, refreshes |-> 1]),
     Some([appends |-> 2, clicks |-> 2]),
     Some([appends |-> 2, clicks |-> 1, looks |-> 1]),
     Some([appends |-> 1, enquiries |-> 1, fetches |-> 2]),
     Some([appends |-> 2, clicks |-> 1, drops |-> 1])}
=============================================================================
