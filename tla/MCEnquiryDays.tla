---------------------------- MODULE MCEnquiryDays ---------------------------
(***************************************************************************)
(* The same enquiry on days of two kinds: either handlers of every kind    *)
(* run one at a time, or the kinds that move the status by themselves      *)
(* overlap.                                                                *)
(***************************************************************************)
EXTENDS MCEnquiry

CONSTANT d1

VARIABLE serial  \* handlers run one at a time

Serial == INSTANCE Enquiry WITH
    Tags <- {t1}, Calls <- {d1}, Budget <- HandlersInTurn,
    Starting <- {"NEW", "OPEN", "AWAITING_CUSTOMER", "STALE", "CLOSED_LOST"}

DaysInit ==
    \/ serial = TRUE /\ Serial!Init
    \/ serial = FALSE /\ Init
DaysNext ==
    /\ UNCHANGED serial
    /\ \/ serial /\ Serial!Next
       \/ ~serial /\ Next
DaysSpec == DaysInit /\ [][DaysNext]_<<vars, serial>>
=============================================================================
