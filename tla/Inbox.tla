------------------------------- MODULE Inbox --------------------------------
(***************************************************************************)
(* Sequence numbers, the read mark, and the lists of conversations that    *)
(* the browsers keep.  A message takes its number inside the transaction   *)
(* that stores it; a handler then reads the contact's summary and sends it *)
(* to every browser, which patches the row it holds.  Reading a summary    *)
(* and sending it are two steps, and a list may be on its way meanwhile.   *)
(***************************************************************************)
EXTENDS Naturals, FiniteSets, FiniteSetsExt

CONSTANTS
    Browsers, Contacts,
    Channels, Chat,  \* message channels; the one whose list the chat view reads
    Calls,           \* slots for handlers in progress
    Scenarios        \* what happens at most, [Bounds -> Nat]

Bounds == {
    "appends",   \* messages stored
    "others",    \* of those, messages of another channel than Chat
    "refreshes", \* outbound.sent, message.deleted: a summary without a message
    "enquiries", \* enquiry.created for the contact
    "clicks",    \* rows clicked
    "looks",     \* the page hidden or shown
    "fetches",   \* lists fetched
    "drops"}     \* lost connections

ASSUME InboxAssumption ==
    /\ Chat \in Channels
    /\ "nobody" \notin Contacts
    /\ Scenarios \subseteq [Bounds -> Nat]

VARIABLES
    stored,   \* ConversationMessage rows of each contact
    contact,  \* Contact.lastMessageSeq and lastReadSeq
    locked,   \* the slot whose transaction holds the contact's row
    call,     \* handlers in progress
    rows,     \* per browser and channel, the cached row of each listed contact
    fetch,    \* per browser and channel, the list on its way
    online, open, visible, \* the browser: connection, selected contact, tab
    marked,   \* lastMarkedSeqRef
    marks,    \* read:mark events on their way
    crossed,  \* contacts of which two handlers held a summary at once
    missed,   \* browsers that could not patch a row from an event in time
    left      \* what is left of the scenario

server == <<stored, contact, locked, call>>
browser == <<rows, fetch, online, open, visible, marked, marks>>
vars == <<server, browser, crossed, missed, left>>

Nobody == "nobody"
Row == [last: Nat, read: Nat]
Message == [seq: Nat \ {0}, channel: Channels]
Free == [op |-> "free", step |-> "begin", who |-> Nobody, channel |-> Chat,
         row |-> [last |-> 0, read |-> 0]]
NoFetch == [state |-> "none", page |-> <<>>, before |-> TRUE]

TypeOK ==
    /\ \A c \in Contacts : \A m \in stored[c] : m \in Message
    /\ contact \in [Contacts -> Row]
    /\ \A c \in Contacts : locked[c] \subseteq Calls
    /\ \A k \in Calls :
        /\ call[k].op \in {"free", "append", "refresh", "enquiry", "mark"}
        /\ call[k].who \in Contacts \cup {Nobody} /\ call[k].row \in Row
    /\ \A b \in Browsers, ch \in Channels :
        /\ DOMAIN rows[b][ch] \subseteq Contacts
        /\ \A c \in DOMAIN rows[b][ch] : rows[b][ch][c] \in Row
        /\ fetch[b][ch].state \in {"none", "asked", "answered"}
    /\ online \subseteq Browsers /\ visible \subseteq Browsers
    /\ open \in [Browsers -> Contacts \cup {Nobody}]
    /\ marked \in [Browsers -> [Contacts -> Nat]]
    /\ marks \subseteq Browsers \X Contacts
    /\ crossed \subseteq Contacts /\ missed \subseteq Browsers \X Contacts

(* Every contact has written once and been read.  A list is held from an   *)
(* earlier fetch, unless the scenario is about fetching it.                *)
Init ==
    /\ left \in Scenarios
    /\ stored = [c \in Contacts |-> {[seq |-> 1, channel |-> Chat]}]
    /\ contact = [c \in Contacts |-> [last |-> 1, read |-> 1]]
    /\ locked = [c \in Contacts |-> {}]
    /\ call = [k \in Calls |-> Free]
    /\ rows = [b \in Browsers |-> [ch \in Channels |->
           IF left["fetches"] = 0 /\ ch = Chat THEN contact ELSE <<>>]]
    /\ fetch = [b \in Browsers |-> [ch \in Channels |->
           [NoFetch EXCEPT !.before = left["fetches"] = 0]]]
    /\ online = Browsers /\ visible = Browsers
    /\ open = [b \in Browsers |-> Nobody]
    /\ marked = [b \in Browsers |-> [c \in Contacts |-> 0]]
    /\ marks = {} /\ crossed = {} /\ missed = {}

Spend(what) ==
    /\ left[what] > 0
    /\ left' = [left EXCEPT ![what] = @ - 1]

-----------------------------------------------------------------------------
Start(k, op, step, c, ch) ==
    /\ call[k] = Free
    /\ call' = [call EXCEPT ![k] = [@ EXCEPT !.op = op, !.step = step, !.who = c, !.channel = ch]]
    /\ UNCHANGED <<stored, contact, locked, crossed, missed>>
Goto(k, step) == call' = [call EXCEPT ![k].step = step]
Finish(k) == call' = [call EXCEPT ![k] = Free]
At(k, step) == call[k].op # "free" /\ call[k].step = step

AppendMessage(k, c, ch) ==
    /\ left["appends"] > 0 /\ (ch # Chat => left["others"] > 0)
    /\ left' = [left EXCEPT !["appends"] = @ - 1,
                            !["others"] = IF ch = Chat THEN @ ELSE @ - 1]
    /\ Start(k, "append", "begin", c, ch)
    /\ UNCHANGED browser
Refresh(k, c) ==
    /\ Spend("refreshes")
    /\ Start(k, "refresh", "contact", c, Chat)
    /\ UNCHANGED browser
NewEnquiry(k, c) ==
    /\ Spend("enquiries")
    /\ Start(k, "enquiry", "contact", c, Chat)
    /\ UNCHANGED browser

(* Mutant of TakeSeq: the number is taken before the transaction. *)
TakeOutside(k) ==
    /\ At(k, "begin")
    /\ contact' = [contact EXCEPT ![call[k].who].last = @ + 1]
    /\ call' = [call EXCEPT ![k].step = "commit", ![k].row.last = contact[call[k].who].last + 1]
    /\ UNCHANGED <<stored, locked, browser, crossed, missed, left>>
(* nextContactSeq: the update holds the contact's row until the end of the *)
(* transaction; its effect is seen by nobody before.                       *)
TakeSeq(k) ==
    /\ At(k, "begin") /\ locked[call[k].who] = {}
    /\ locked' = [locked EXCEPT ![call[k].who] = {k}]
    /\ call' = [call EXCEPT ![k].step = "commit", ![k].row.last = contact[call[k].who].last + 1]
    /\ UNCHANGED <<stored, contact, browser, crossed, missed, left>>
Commit(k) ==
    LET c == call[k].who  seq == call[k].row.last IN
    /\ At(k, "commit")
    /\ stored' = [stored EXCEPT ![c] = @ \cup {[seq |-> seq, channel |-> call[k].channel]}]
    /\ contact' = [contact EXCEPT ![c].last = seq]
    /\ locked' = [locked EXCEPT ![c] = {}]
    /\ Goto(k, "contact")
    /\ UNCHANGED <<browser, crossed, missed, left>>
RollBack(k) ==
    /\ At(k, "commit")
    /\ locked' = [locked EXCEPT ![call[k].who] = {}]
    /\ Finish(k)
    /\ UNCHANGED <<stored, contact, browser, crossed, missed, left>>

(* The two reads of getContactSummary.                                     *)
HoldsSummary(j, c) == call[j].who = c /\ call[j].step \in {"latest", "emit", "emitRead"}
Cross(k) ==
    crossed' = crossed \cup
        {c \in {call[k].who} : \E j \in Calls \ {k} : HoldsSummary(j, c)}
ReadContact(k) ==
    /\ At(k, "contact")
    /\ call' = [call EXCEPT ![k].step = "latest", ![k].row = contact[call[k].who]]
    /\ Cross(k)
    /\ UNCHANGED <<stored, contact, locked, browser, missed, left>>
Latest(c) == CHOOSE m \in stored[c] : m.seq = Max({n.seq : n \in stored[c]})
ReadLatest(k) ==
    /\ At(k, "latest")
    /\ call' = [call EXCEPT ![k].step = "emit",
           ![k].channel = IF call[k].op = "enquiry" THEN @ ELSE Latest(call[k].who).channel]
    /\ UNCHANGED <<stored, contact, locked, browser, crossed, missed, left>>

(* The event reaches the connected browsers.  A browser that is about to   *)
(* replace its list by a page read before, or holds the contact in the     *)
(* list of another channel, is left with an old row.                       *)
Miss(c, key) == missed' = missed \cup
    {p \in online \X {c} : \E ch \in Channels :
        fetch[p[1]][ch].state = "answered" \/ (ch # key /\ c \in DOMAIN rows[p[1]][ch])}
Patch(held, c, row) == IF c \in DOMAIN held THEN [held EXCEPT ![c] = row] ELSE held
With(held, c, row) == [d \in DOMAIN held \cup {c} |-> IF d = c THEN row ELSE held[d]]
Fetched(b, ch) == fetch[b][ch].before

EmitUpdated(k) ==
    LET c == call[k].who  key == call[k].channel IN
    /\ At(k, "emit") /\ call[k].op # "enquiry"
    /\ rows' = [b \in Browsers |->
           IF b \in online THEN [rows[b] EXCEPT ![key] = Patch(@, c, call[k].row)] ELSE rows[b]]
    /\ Miss(c, key)
    /\ Finish(k)
    /\ UNCHANGED <<stored, contact, locked, fetch, online, open, visible, marked, marks, crossed, left>>

EmitNew(k) ==
    LET c == call[k].who  key == call[k].channel IN
    /\ At(k, "emit") /\ call[k].op = "enquiry"
    /\ rows' = [b \in Browsers |->
           IF b \in online /\ Fetched(b, key) THEN [rows[b] EXCEPT ![key] = With(@, c, call[k].row)]
                                              ELSE rows[b]]
    /\ Miss(c, key)
    /\ Finish(k)
    /\ UNCHANGED <<stored, contact, locked, fetch, online, open, visible, marked, marks, crossed, left>>

-----------------------------------------------------------------------------
(* handleReadMark.                                                         *)
TakeMark(k, b, c) ==
    /\ <<b, c>> \in marks /\ b \in online
    /\ marks' = marks \ {<<b, c>>}
    /\ Start(k, "mark", "check", c, Chat)
    /\ UNCHANGED <<rows, fetch, online, open, visible, marked, left>>
CheckMark(k) ==
    LET row == contact[call[k].who] IN
    /\ At(k, "check")
    /\ IF row.read >= row.last THEN Finish(k)
       ELSE call' = [call EXCEPT ![k].step = "update", ![k].row = row]
    /\ UNCHANGED <<stored, contact, locked, browser, crossed, missed, left>>

(* Mutant of UpdateRead: the number read before is written. *)
WriteSeen(k) ==
    LET c == call[k].who IN
    /\ At(k, "update") /\ locked[c] = {}
    /\ contact' = [contact EXCEPT ![c].read = call[k].row.last]
    /\ call' = [call EXCEPT ![k].step = "emitRead", ![k].row.read = call[k].row.last]
    /\ Cross(k)
    /\ UNCHANGED <<stored, locked, browser, missed, left>>
(* One statement, which waits for a transaction that holds the row.        *)
UpdateRead(k) ==
    LET c == call[k].who IN
    /\ At(k, "update") /\ locked[c] = {}
    /\ contact' = [contact EXCEPT ![c].read = contact[c].last]
    /\ call' = [call EXCEPT ![k].step = "emitRead", ![k].row.read = contact[c].last]
    /\ Cross(k)
    /\ UNCHANGED <<stored, locked, browser, missed, left>>
(* Mutant of EmitRead: only browsers in which the contact is open are told.*)
TellWatchers(k) ==
    LET c == call[k].who IN
    /\ At(k, "emitRead")
    /\ rows' = [b \in Browsers |-> IF b \notin online \/ open[b] # c THEN rows[b] ELSE
           [ch \in Channels |-> IF c \notin DOMAIN rows[b][ch] THEN rows[b][ch]
                                ELSE [rows[b][ch] EXCEPT ![c].read = call[k].row.read]]]
    /\ missed' = missed \cup
           {p \in online \X {c} : \E ch \in Channels : fetch[p[1]][ch].state = "answered"}
    /\ Finish(k)
    /\ UNCHANGED <<stored, contact, locked, fetch, online, open, visible, marked, marks, crossed, left>>
EmitRead(k) ==
    LET c == call[k].who IN
    /\ At(k, "emitRead")
    /\ rows' = [b \in Browsers |-> IF b \notin online THEN rows[b] ELSE
           [ch \in Channels |-> IF c \notin DOMAIN rows[b][ch] THEN rows[b][ch]
                                ELSE [rows[b][ch] EXCEPT ![c].read = call[k].row.read]]]
    /\ missed' = missed \cup
           {p \in online \X {c} : \E ch \in Channels : fetch[p[1]][ch].state = "answered"}
    /\ Finish(k)
    /\ UNCHANGED <<stored, contact, locked, fetch, online, open, visible, marked, marks, crossed, left>>

-----------------------------------------------------------------------------
(* The browser.                                                            *)
AskList(b, ch) ==
    /\ fetch[b][ch].state = "none"
    /\ Spend("fetches")
    /\ fetch' = [fetch EXCEPT ![b][ch].state = "asked"]
    /\ UNCHANGED <<server, rows, online, open, visible, marked, marks, crossed, missed>>
(* listConversations, one reading of the database.                         *)
AnswerList(b, ch) ==
    LET S == {c \in Contacts : \E m \in stored[c] : m.channel = ch} IN
    /\ fetch[b][ch].state = "asked"
    /\ fetch' = [fetch EXCEPT ![b][ch].state = "answered", ![b][ch].page = [c \in S |-> contact[c]]]
    /\ UNCHANGED <<server, rows, online, open, visible, marked, marks, crossed, missed, left>>
ApplyList(b, ch) ==
    /\ fetch[b][ch].state = "answered"
    /\ rows' = [rows EXCEPT ![b][ch] = fetch[b][ch].page]
    /\ fetch' = [fetch EXCEPT ![b][ch] = NoFetch]
    /\ UNCHANGED <<server, online, open, visible, marked, marks, crossed, missed, left>>

(* handleRowClick selects the contact and marks it read at once.           *)
ClickRow(b, c) ==
    /\ c \in DOMAIN rows[b][Chat]
    /\ Spend("clicks")
    /\ open' = [open EXCEPT ![b] = c]
    /\ marks' = marks \cup {<<b, c>>}
    /\ UNCHANGED <<server, rows, fetch, online, visible, marked, crossed, missed>>

Noticed(b, c) ==
    /\ open[b] = c /\ c \in DOMAIN rows[b][Chat]
    /\ rows[b][Chat][c].last > marked[b][c]
(* Mutant of TryMarkRead: the number is noted before the page is looked at.*)
NoteThenLook(b, c) ==
    /\ Noticed(b, c)
    /\ marked' = [marked EXCEPT ![b][c] = rows[b][Chat][c].last]
    /\ marks' = IF b \in visible THEN marks \cup {<<b, c>>} ELSE marks
    /\ UNCHANGED <<server, rows, fetch, online, open, visible, crossed, missed, left>>
(* tryMarkRead, from the row's effect or when the page is shown again.     *)
TryMarkRead(b, c) ==
    /\ Noticed(b, c)
    /\ b \in visible
    /\ marked' = [marked EXCEPT ![b][c] = rows[b][Chat][c].last]
    /\ marks' = marks \cup {<<b, c>>}
    /\ UNCHANGED <<server, rows, fetch, online, open, visible, crossed, missed, left>>

Hide(b) ==
    /\ b \in visible
    /\ Spend("looks")
    /\ visible' = visible \ {b}
    /\ UNCHANGED <<server, rows, fetch, online, open, marked, marks, crossed, missed>>
Show(b) ==
    /\ b \notin visible
    /\ visible' = visible \cup {b}
    /\ UNCHANGED <<server, rows, fetch, online, open, marked, marks, crossed, missed, left>>

(* What is on its way is lost; nothing is fetched again on reconnection.   *)
Disconnect(b) ==
    /\ b \in online
    /\ Spend("drops")
    /\ online' = online \ {b}
    /\ marks' = {p \in marks : p[1] # b}
    /\ missed' = missed \cup ({b} \X Contacts)
    /\ UNCHANGED <<server, rows, fetch, open, visible, marked, crossed>>
Reconnect(b) ==
    /\ b \notin online
    /\ online' = online \cup {b}
    /\ UNCHANGED <<server, rows, fetch, open, visible, marked, marks, crossed, missed, left>>

-----------------------------------------------------------------------------
Advance(k) ==
    \/ TakeSeq(k) \/ Commit(k) \/ RollBack(k)
    \/ ReadContact(k) \/ ReadLatest(k) \/ EmitUpdated(k) \/ EmitNew(k)
    \/ CheckMark(k) \/ UpdateRead(k) \/ EmitRead(k)
Arrive(k, c) ==
    \/ \E ch \in Channels : AppendMessage(k, c, ch)
    \/ Refresh(k, c) \/ NewEnquiry(k, c)
Deliver == \E k \in Calls, b \in Browsers, c \in Contacts : TakeMark(k, b, c)
Effect(b) == \E c \in Contacts : TryMarkRead(b, c)

Next ==
    \/ \E k \in Calls : Advance(k)
    \/ \E k \in Calls, c \in Contacts : Arrive(k, c)
    \/ Deliver
    \/ \E b \in Browsers : Effect(b) \/ Hide(b) \/ Show(b) \/ Disconnect(b) \/ Reconnect(b)
    \/ \E b \in Browsers, ch \in Channels : AskList(b, ch) \/ AnswerList(b, ch) \/ ApplyList(b, ch)
    \/ \E b \in Browsers, c \in Contacts : ClickRow(b, c)

(* Handlers and effects run; users and connections owe nothing.            *)
Fairness ==
    /\ \A k \in Calls : WF_vars(Advance(k))
    /\ \A b \in Browsers : WF_vars(Effect(b))
    /\ WF_vars(Deliver)

Spec == Init /\ [][Next]_vars /\ Fairness

-----------------------------------------------------------------------------
(* Whatever transactions overlap or fail, the numbers of a contact's       *)
(* stored messages are 1 to lastMessageSeq, each once: a reader never sees *)
(* a later message before an earlier one (nextContactSeq).                 *)
ThreadIsGapless ==
    \A c \in Contacts :
        /\ {m.seq : m \in stored[c]} = 1..contact[c].last
        /\ Cardinality(stored[c]) = contact[c].last

(* The team's read mark never moves back and never passes the last stored  *)
(* message, however many tabs mark the contact while messages arrive       *)
(* (handleReadMark: "no read-then-write race").                            *)
ReadOnlyAdvances ==
    [][\A c \in Contacts :
        contact'[c].read >= contact[c].read /\ contact'[c].read <= contact'[c].last]_vars

Quiet(b, c) ==
    /\ \A k \in Calls : call[k].who # c
    /\ \A ch \in Channels : fetch[b][ch].state # "answered"
(* Every agent's cache converges: with no handler of the contact and no    *)
(* list on its way, a cached row is the contact's, unless two handlers     *)
(* held a summary at once, the browser lost its connection, its list was   *)
(* replaced by an older page, or the message was of another list's channel *)
(* (applyConversationUpdate, insertNewConversation, applyReadUpdate).      *)
RowsFollow ==
    \A b \in Browsers, c \in Contacts, ch \in Channels :
        (Quiet(b, c) /\ c \notin crossed /\ <<b, c>> \notin missed /\ c \in DOMAIN rows[b][ch])
            => rows[b][ch][c] = contact[c]

Watching(b, c) ==
    /\ b \in online \cap visible /\ open[b] = c
    /\ c \in DOMAIN rows[b][Chat]
    /\ <<b, c>> \notin missed /\ c \notin crossed
(* A chat that is open in a visible tab is marked read to the end, however *)
(* often the tab is hidden and shown (tryMarkRead), as long as it keeps    *)
(* its connection, its messages are of the list it looks at, and no two    *)
(* summaries cross: a row that goes back before its effect ran is not      *)
(* noticed.                                                                *)
OpenChatIsRead ==
    \A b \in Browsers, c \in Contacts :
        (Watching(b, c) /\ contact[c].read < contact[c].last)
            ~> (contact[c].read = contact[c].last \/ ~Watching(b, c))
=============================================================================
