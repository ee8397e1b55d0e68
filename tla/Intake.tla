------------------------------- MODULE Intake -------------------------------
(***************************************************************************)
(* What the inbound path promises about a customer's message, seen from    *)
(* outside: what its provider was last told, how it stands, and where it   *)
(* appears among the enquiries of the customers.                           *)
(***************************************************************************)
EXTENDS Naturals, Sequences

CONSTANTS Messages, Contacts, From
VARIABLES
    told,      \* the last 200 a provider got for the message, if any
    standing,  \* not stored, stored and undecided, or a verdict
    owners,    \* whose each enquiry is, oldest first
    places     \* the enquiries the message appears in

Verdicts == {"REAL_ENQUIRY", "SPAM", "NEEDS_REVIEW"}

Init == /\ told = [m \in Messages |-> "none"]
        /\ standing = [m \in Messages |-> "unknown"]
        /\ owners = <<>>
        /\ places = [m \in Messages |-> <<>>]

Belongs(m, e) == e \in DOMAIN owners /\ owners[e] = From[m]

(* "accepted" is only said of a message that is stored. *)
Tell(m, what) == /\ what = "accepted" => standing[m] # "unknown"
                 /\ told' = [told EXCEPT ![m] = what]
                 /\ UNCHANGED <<standing, owners, places>>

Stand(m, s) == /\ standing' = [standing EXCEPT ![m] = s]
               /\ UNCHANGED <<told, owners, places>>

Receive(m) == standing[m] = "unknown" /\ Stand(m, "received")

(* A message counts as real unseen if its customer has an enquiry. *)
Recognise(m) == /\ standing[m] = "unknown"
                /\ \E e \in DOMAIN owners : Belongs(m, e)
                /\ Stand(m, "REAL_ENQUIRY")

(* A verdict is given once. *)
Judge(m, v) == standing[m] = "received" /\ Stand(m, v)

OpenFor(k) == /\ owners' = Append(owners, k)
              /\ UNCHANGED <<told, standing, places>>

(* A real message is placed once, with its own customer's messages. *)
Unplaced(m) == standing[m] = "REAL_ENQUIRY" /\ places[m] = <<>>
Put(m, e) == /\ places' = [places EXCEPT ![m] = <<e>>]
             /\ UNCHANGED <<told, standing>>

Place(m, e) == Unplaced(m) /\ Belongs(m, e) /\ Put(m, e) /\ UNCHANGED owners

PlaceInNew(m) == /\ Unplaced(m) /\ Put(m, Len(owners) + 1)
                 /\ owners' = Append(owners, From[m])

Next ==
    \/ \E m \in Messages :
          \/ Receive(m) \/ Recognise(m) \/ PlaceInNew(m)
          \/ \E what \in {"accepted", "skipped"} : Tell(m, what)
          \/ \E v \in Verdicts : Judge(m, v)
          \/ \E e \in DOMAIN owners : Place(m, e)
    \/ \E k \in Contacts : OpenFor(k)

Spec == Init /\ [][Next]_<<told, standing, owners, places>>
=============================================================================
