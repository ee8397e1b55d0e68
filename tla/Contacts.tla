------------------------------ MODULE Contacts ------------------------------
(***************************************************************************)
(* ContactService: contacts and the channels they are reached by, written  *)
(* by handlers that read first and write in a transaction of their own.    *)
(***************************************************************************)
EXTENDS Naturals, FiniteSets

CONSTANTS
    People,    \* contacts that may exist; an id is never used again
    Addresses, \* <channel, normalised identifier>
    Handlers,  \* handlers that may be in progress at once
    Books      \* the states to start from: [rows, open, todo]

VARIABLES
    known,   \* contacts that exist
    gone,    \* contacts that were deleted
    rows,    \* ContactChannel
    issued,  \* ids of rows given out
    open,    \* contacts with an enquiry that is not closed
    hand,    \* handler -> the request it serves
    todo,    \* requests that may still come
    overlap  \* contacts whose channels two handlers changed at once

vars == <<known, gone, rows, issued, open, hand, todo, overlap>>

Channel == [id : Nat, who : People, addr : Addresses, isPrimary : BOOLEAN]
Free == [op |-> "none"]
Busy(h) == hand[h] # Free

ChannelsOf(c) == {r \in rows : r.who = c}
Registered(a) == \E r \in rows : r.addr = a

ContactsTypeOK ==
    /\ known \subseteq People /\ gone \subseteq People /\ known \cap gone = {}
    /\ \A r \in rows : r \in Channel /\ r.who \in known /\ r.id <= issued
    /\ \A r, s \in rows : r.id = s.id \/ r.addr = s.addr => r = s
    /\ open \subseteq known /\ overlap \subseteq People
    /\ \A h \in Handlers :
        Busy(h) => hand[h].at \in {"check", "find", "create", "clear", "write"}

(* A database to start from: ids count from one, and every contact has a   *)
(* primary channel.                                                        *)
Ops == {"resolve", "create", "add", "remove", "primary", "delete", "enquiry"}
BooksOK ==
    \A b \in Books :
        /\ IsFiniteSet(b.rows) /\ b.rows \subseteq Channel
        /\ \A r, s \in b.rows : r.id = s.id \/ r.addr = s.addr => r = s
        /\ \A r \in b.rows : r.id <= Cardinality(b.rows)
        /\ \A r \in b.rows : \E s \in b.rows : s.who = r.who /\ s.isPrimary
        /\ b.open \subseteq {r.who : r \in b.rows}
        /\ b.todo \subseteq [op : Ops, who : People, addr : Addresses, isPrimary : BOOLEAN]

Init ==
    \E b \in Books :
        /\ rows = b.rows /\ known = {r.who : r \in b.rows}
        /\ issued = Cardinality(b.rows)
        /\ open = b.open /\ todo = b.todo
        /\ gone = {} /\ overlap = {}
        /\ hand = [h \in Handlers |-> Free]

Doing(h, op, at) == Busy(h) /\ hand[h].op = op /\ hand[h].at = at
Go(h, at) == hand' = [hand EXCEPT ![h].at = at]
Done(h) == hand' = [hand EXCEPT ![h] = Free]

(* A request names a contact, an address or a row that a page has shown.   *)
Begin(h) ==
    /\ ~Busy(h)
    /\ \E q \in todo :
        /\ \E id \in IF q.op \in {"remove", "primary"}
                     THEN {r.id : r \in ChannelsOf(q.who)} ELSE {0} :
              hand' = [hand EXCEPT ![h] =
                  [op |-> q.op, who |-> q.who, addr |-> q.addr,
                   isPrimary |-> q.isPrimary, id |-> id, seen |-> {}, at |-> "check"]]
        /\ todo' = todo \ {q}
    /\ UNCHANGED <<known, gone, rows, issued, open, overlap>>

AddRow(c, a, isPrimary) ==
    /\ rows' = rows \cup
           {[id |-> issued + 1, who |-> c, addr |-> a, isPrimary |-> isPrimary]}
    /\ issued' = issued + 1

-----------------------------------------------------------------------------
(* resolve: a known address touches its contact, which fails when the      *)
(* contact has gone; an unknown one creates a contact, and when another    *)
(* request has just created it (P2002) looks again.                        *)
FindContact(h) ==
    /\ Doing(h, "resolve", "check") \/ Doing(h, "resolve", "find")
    /\ IF Registered(hand[h].addr) \/ hand[h].at = "find" THEN Done(h) ELSE Go(h, "create")
    /\ UNCHANGED <<known, gone, rows, issued, open, todo, overlap>>

NewContact(a) ==
    \E c \in People \ (known \cup gone) :
        /\ known' = known \cup {c}
        /\ AddRow(c, a, TRUE)

CreateResolved(h) ==
    /\ Doing(h, "resolve", "create")
    /\ IF Registered(hand[h].addr)
       THEN Go(h, "find") /\ UNCHANGED <<known, rows, issued>>
       ELSE NewContact(hand[h].addr) /\ Done(h)
    /\ UNCHANGED <<gone, open, todo, overlap>>

(* createContact and addChannel: the address is looked for, and the unique *)
(* index refuses it if it has come since.                                  *)
CheckAddress(h) ==
    /\ Doing(h, "create", "check") \/ Doing(h, "add", "check")
    /\ IF Registered(hand[h].addr) \/ (hand[h].op = "add" /\ hand[h].who \notin known)
       THEN Done(h) ELSE Go(h, "write")
    /\ UNCHANGED <<known, gone, rows, issued, open, todo, overlap>>
CreateContact(h) ==
    /\ Doing(h, "create", "write")
    /\ Done(h)
    /\ IF Registered(hand[h].addr) THEN UNCHANGED <<known, rows, issued>>
       ELSE NewContact(hand[h].addr)
    /\ UNCHANGED <<gone, open, todo, overlap>>
AddChannel(h) ==
    /\ Doing(h, "add", "write")
    /\ Done(h)
    /\ IF Registered(hand[h].addr) \/ hand[h].who \notin known
       THEN UNCHANGED <<rows, issued>>
       ELSE AddRow(hand[h].who, hand[h].addr, hand[h].isPrimary)
    /\ UNCHANGED <<known, gone, open, todo, overlap>>

(* Two handlers have read the channels of one contact, one to remove some. *)
NoteOverlap(h) ==
    overlap' = overlap \cup
        {c \in {hand[h].who} : \E g \in Handlers \ {h} :
            /\ Busy(g) /\ hand[g].who = c /\ hand[g].at \in {"clear", "write"}
            /\ {hand[g].op, hand[h].op} \in {{"remove"}, {"remove", "primary"}}}

-----------------------------------------------------------------------------
MayRemove(c) == Cardinality(ChannelsOf(c)) > 1
CheckRemoval(h) ==
    /\ Doing(h, "remove", "check")
    /\ LET c == hand[h].who IN
       IF MayRemove(c) /\ hand[h].id \in {r.id : r \in ChannelsOf(c)}
       THEN /\ hand' = [hand EXCEPT ![h].at = "write", ![h].seen = ChannelsOf(c)]
            /\ NoteOverlap(h)
       ELSE Done(h) /\ UNCHANGED overlap
    /\ UNCHANGED <<known, gone, rows, issued, open, todo>>

(* The row the rows read before name as the new primary one, if any; the   *)
(* query that read them has no order.                                      *)
(* Mutant: no row is promoted. *)
NoPromotion(seen, id) == {{}}
Promotions(seen, id) ==
    IF \E r \in seen : r.id = id /\ r.isPrimary
    THEN {{r.id} : r \in {s \in seen : s.id # id}} ELSE {{}}

(* One transaction: it fails when the row, or the one to promote, is gone. *)
RemoveChannel(h) ==
    /\ Doing(h, "remove", "write")
    /\ Done(h)
    /\ \E up \in Promotions(hand[h].seen, hand[h].id) :
          rows' = IF up \cup {hand[h].id} \subseteq {r.id : r \in rows}
                  THEN {IF r.id \in up THEN [r EXCEPT !.isPrimary = TRUE] ELSE r :
                           r \in {s \in rows : s.id # hand[h].id}}
                  ELSE rows
    /\ UNCHANGED <<known, gone, issued, open, todo, overlap>>

(* The first statement clears the rows that were primary when it began,    *)
(* waiting for a transaction that holds them; the second one fails, and    *)
(* with it the transaction, when the row is gone.                          *)
CheckPrimary(h) ==
    /\ Doing(h, "primary", "check")
    /\ IF hand[h].id \in {r.id : r \in ChannelsOf(hand[h].who)}
       THEN Go(h, "clear") /\ NoteOverlap(h)
       ELSE Done(h) /\ UNCHANGED overlap
    /\ UNCHANGED <<known, gone, rows, issued, open, todo>>
ClearPrimary(h) ==
    /\ Doing(h, "primary", "clear")
    /\ hand' = [hand EXCEPT ![h].at = "write",
                   ![h].seen = {r.id : r \in {s \in ChannelsOf(hand[h].who) : s.isPrimary}}]
    /\ UNCHANGED <<known, gone, rows, issued, open, todo, overlap>>
SetPrimaryChannel(h) ==
    /\ Doing(h, "primary", "write")
    /\ Done(h)
    /\ rows' = IF hand[h].id \in {r.id : r \in rows}
               THEN {[r EXCEPT !.isPrimary =
                         r.id = hand[h].id \/ (@ /\ r.id \notin hand[h].seen)] : r \in rows}
               ELSE rows
    /\ UNCHANGED <<known, gone, issued, open, todo, overlap>>

-----------------------------------------------------------------------------
(* deleteContact and deleteContacts: the enquiries are counted first, and  *)
(* whatever enquiries there are go with the contact.                       *)
CheckDeletion(h) ==
    /\ Doing(h, "delete", "check")
    /\ IF hand[h].who \in known \ open THEN Go(h, "write") ELSE Done(h)
    /\ UNCHANGED <<known, gone, rows, issued, open, todo, overlap>>
DeleteContact(h) ==
    /\ Doing(h, "delete", "write")
    /\ Done(h)
    /\ LET c == {hand[h].who} \cap known IN
        /\ known' = known \ c /\ gone' = gone \cup c /\ open' = open \ c
        /\ rows' = {r \in rows : r.who \notin c}
    /\ UNCHANGED <<issued, todo, overlap>>

(* The enquiry of a contact is opened, or closed, elsewhere.               *)
TurnEnquiry(h) ==
    /\ Doing(h, "enquiry", "check")
    /\ Done(h)
    /\ LET c == hand[h].who IN
       open' = IF c \in open THEN open \ {c} ELSE open \cup ({c} \cap known)
    /\ UNCHANGED <<known, gone, rows, issued, todo, overlap>>

Next == \E h \in Handlers :
    \/ Begin(h)
    \/ FindContact(h) \/ CreateResolved(h)
    \/ CheckAddress(h) \/ CreateContact(h) \/ AddChannel(h)
    \/ CheckRemoval(h) \/ RemoveChannel(h)
    \/ CheckPrimary(h) \/ ClearPrimary(h) \/ SetPrimaryChannel(h)
    \/ CheckDeletion(h) \/ DeleteContact(h) \/ TurnEnquiry(h)

Spec == Init /\ [][Next]_vars

-----------------------------------------------------------------------------
(* A contact can always be written to, by a channel marked as the primary  *)
(* one, however handlers overlap; only a removal that overlaps another     *)
(* change of the same contact may leave it without (removeChannel: "Cannot *)
(* delete the last remaining channel of a contact").                       *)
KeepsAChannel ==
    \A c \in known \ overlap : \E r \in ChannelsOf(c) : r.isPrimary
=============================================================================
