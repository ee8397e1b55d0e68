------------------------------ MODULE MCChat --------------------------------
(* Instances of ChatRooms.  A scenario says how many requests of each kind *)
(* arrive; the scenarios are explored one beside the other.                *)
EXTENDS ChatRooms, TLC

CONSTANTS Ann, Ben, Cleo, Sales, Launch, General

MCRoster ==
    [c \in {Sales, Launch} |->
        IF c = Sales THEN [admins |-> {Ann}, members |-> {Ann, Ben}]
                     ELSE [admins |-> {}, members |-> {}]]

Arrivals(some) == [what \in Limited |-> IF what \in DOMAIN some THEN some[what] ELSE 0]
(* Two users open a direct conversation, perhaps the same one, and one of  *)
(* them tries to leave.                                                    *)
Pairs == Arrivals([dms |-> 2, removals |-> 1])
(* A member opens the channel while members come and go.                   *)
Leaving == Arrivals([removals |-> 1, opens |-> 1, additions |-> 1])
(* The same while a message is written.                                    *)
Talking == Arrivals([removals |-> 1, opens |-> 1, sends |-> 1])
(* A connection drops and comes back while a message is written.           *)
Dropping == Arrivals([opens |-> 1, sends |-> 1, drops |-> 1])
(* A new channel, the common room resolved by two at once, an archive.     *)
Founding == Arrivals([channels |-> 1, sends |-> 1])
Meeting == Arrivals([resolves |-> 2, sends |-> 1, archives |-> 1])
MCScenarios == {Pairs, Leaving, Talking, Dropping, Founding, Meeting}
=============================================================================
