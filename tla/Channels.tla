------------------------------ MODULE Channels ------------------------------
(***************************************************************************)
(* The channels page of one administrator (ChannelsClient, AddChannelModal)*)
(* over the table of connections (ChannelsService), which others change as *)
(* well.  The page keeps the rows it was loaded with and applies to them   *)
(* what its own calls answer; nothing tells it of anybody else's.          *)
(***************************************************************************)
EXTENDS Naturals, Sequences, FiniteSets

CONSTANTS
    Ids,      \* 1..n, in the order of createdAt; an id is never used again
    Accounts, \* <<provider, externalAccountId>>, as a form may name them
    None,     \* no row
    Weeks     \* the states to start from: [rows, left]

VARIABLES
    rows,   \* ChannelConnection: [id, account, status]
    used,   \* ids of rows there are or were
    open,   \* the page is on the screen
    page,   \* channels, the rows it shows
    busyId, \* the row whose buttons are disabled, or None
    modal,  \* AddChannelModal: its instance and its step
    queue,  \* server actions of the tab that wait for the one before them
    hand,   \* "here", "elsewhere" -> the call the back end serves, or Free
    pacing, \* connections made, shown when the delays of the modal are over
    unseen, \* rows changed in a way the page was not told of
    left    \* what may still happen

vars == <<rows, used, open, page, busyId, modal, queue, hand, pacing, unseen, left>>

Happenings == {"toggles", "deletes", "modals", "leaves", "losses", "others"}
States == {"ACTIVE", "DISABLED"}
Row == [id: Ids, account: Accounts, status: States]
WeeksOK ==
    \A w \in Weeks :
        /\ w.rows \subseteq Row /\ IsFiniteSet(w.rows)
        /\ {r.id : r \in w.rows} = 1..Cardinality(w.rows)
        /\ \A q, r \in w.rows : q.id = r.id \/ q.account = r.account => q = r
        /\ DOMAIN w.left = Happenings

Free == [op |-> "none"]
Spend(what) == left[what] > 0 /\ left' = [left EXCEPT ![what] = @ - 1]

ChannelsTypeOK ==
    /\ used \subseteq Ids /\ {r.id : r \in rows} \subseteq used
    /\ \A q, r \in rows : q.id = r.id \/ q.account = r.account => q = r
    /\ \A r \in rows \cup page : r.status \in States
    /\ modal.step \in {"closed", "form", "verifying", "failed", "success"}
    /\ \A h \in {"here", "elsewhere"} :
        hand[h] # Free => hand[h].at \in {"start", "write", "ok", "failed"}
    /\ DOMAIN left = Happenings

Init ==
    \E w \in Weeks :
        /\ rows = w.rows /\ page = w.rows
        /\ used = {r.id : r \in w.rows}
        /\ open = TRUE /\ busyId = None /\ unseen = {}
        /\ modal = [n |-> 0, step |-> "closed"]
        /\ queue = <<>> /\ pacing = <<>>
        /\ hand = [h \in {"here", "elsewhere"} |-> Free]
        /\ left = w.left

-----------------------------------------------------------------------------
(* The back end.                                                           *)
Call(op, id, account, status, n) ==
    [op |-> op, id |-> id, account |-> account, status |-> status,
     n |-> n, mine |-> TRUE, at |-> "start", row |-> None]
Serving(h, op, at) == hand[h] # Free /\ hand[h].op = op /\ hand[h].at = at
Go(h, at) == hand' = [hand EXCEPT ![h].at = at]
(* Nobody here waits for the answer of a call made elsewhere.              *)
Reply(h, at, row) ==
    hand' = [hand EXCEPT ![h] = IF h = "elsewhere" THEN Free ELSE [@ EXCEPT !.at = at, !.row = row]]
Fail(h) == Reply(h, "failed", None) /\ UNCHANGED <<rows, used, unseen>>
Told(h, id) == unseen' = IF h = "here" /\ hand[h].mine THEN unseen \ {id} ELSE unseen \cup {id}
table == <<rows, used, unseen>>
screen == <<open, page, busyId, modal, queue, pacing>>

(* create: the provider is asked about the credentials, and may refuse.    *)
Validate(h) ==
    /\ Serving(h, "create", "start")
    /\ Go(h, "write") \/ Reply(h, "failed", None)
    /\ UNCHANGED <<table, screen, left>>
Create(h) ==
    /\ Serving(h, "create", "write")
    /\ IF \E r \in rows : r.account = hand[h].account THEN Fail(h)
       ELSE LET id == Cardinality(used) + 1
                row == [id |-> id, account |-> hand[h].account, status |-> "ACTIVE"] IN
            /\ id \in Ids
            /\ rows' = rows \cup {row} /\ used' = used \cup {id}
            /\ Told(h, id) /\ Reply(h, "ok", row)
    /\ UNCHANGED <<screen, left>>

Stored(id) == CHOOSE r \in rows : r.id = id
FindOneOrThrow(h) ==
    /\ hand[h] # Free /\ hand[h].op # "create" /\ hand[h].at = "start"
    /\ IF \E r \in rows : /\ r.id = hand[h].id
                         /\ hand[h].op = "update" => r.account[1] = hand[h].account[1]
       THEN Go(h, "write") ELSE Reply(h, "failed", None)
    /\ UNCHANGED <<table, screen, left>>
(* The guard of the route, or a database that does not answer.             *)
Refuse ==
    /\ hand["here"] # Free /\ hand["here"].at \in {"start", "write"} /\ Spend("losses")
    /\ Reply("here", "failed", None)
    /\ UNCHANGED <<table, screen>>

(* What an update makes of the row, when it is there and the account free. *)
Change(h, row) ==
    /\ IF \/ ~\E r \in rows : r.id = row.id
          \/ \E r \in rows : r.id # row.id /\ r.account = row.account
       THEN Fail(h)
       ELSE /\ rows' = {r \in rows : r.id # row.id} \cup {row}
            /\ Told(h, row.id) /\ Reply(h, "ok", row)
            /\ UNCHANGED used
    /\ UNCHANGED <<screen, left>>
Gone(h) == ~\E r \in rows : r.id = hand[h].id
NotThere(h) == Gone(h) /\ Fail(h) /\ UNCHANGED <<screen, left>>

UpdateStatus(h) ==
    /\ Serving(h, "status", "write")
    /\ \/ NotThere(h)
       \/ ~Gone(h) /\ Change(h, [Stored(hand[h].id) EXCEPT !.status = hand[h].status])
(* Another from-email, of an e-mail connection; no page asks for it.       *)
Update(h) ==
    /\ Serving(h, "update", "write")
    /\ \/ NotThere(h)
       \/ ~Gone(h) /\ Change(h, [Stored(hand[h].id) EXCEPT !.account = hand[h].account])
Remove(h) ==
    /\ Serving(h, "remove", "write")
    /\ \/ NotThere(h)
       \/ /\ ~Gone(h)
          /\ rows' = {r \in rows : r.id # hand[h].id}
          /\ Told(h, hand[h].id) /\ Reply(h, "ok", None)
          /\ UNCHANGED <<used, screen, left>>

Backend(h) == Validate(h) \/ Create(h) \/ FindOneOrThrow(h) \/ UpdateStatus(h) \/ Update(h) \/ Remove(h)

(* Another administrator, or a program that calls the routes.              *)
EmailAccounts == {a \in Accounts : a[1] = "SENDGRID_EMAIL"}
OthersAsk ==
         {Call("create", 0, a, "ACTIVE", 0) : a \in Accounts}
    \cup {Call("update", i, a, "ACTIVE", 0) : i \in used, a \in EmailAccounts}
    \cup {Call("status", i, None, s, 0) : i \in used, s \in States}
    \cup {Call("remove", i, None, "ACTIVE", 0) : i \in used}
Elsewhere ==
    /\ hand["elsewhere"] = Free /\ Spend("others")
    /\ \E c \in OthersAsk :
        hand' = [hand EXCEPT !["elsewhere"] = c]
    /\ UNCHANGED <<table, screen>>

-----------------------------------------------------------------------------
(* The page.  The modal covers it; only one row at a time is disabled.     *)
Offered(r) == open /\ modal.step = "closed" /\ r \in page /\ busyId # r.id
Ask(c) == queue' = Append(queue, c)

HandleToggle(r) ==
    /\ Offered(r) /\ Spend("toggles")
    /\ busyId' = r.id
    /\ Ask(Call("status", r.id, None, IF r.status = "ACTIVE" THEN "DISABLED" ELSE "ACTIVE", 0))
    /\ UNCHANGED <<table, hand, open, page, modal, pacing>>
HandleDelete(r) ==
    /\ Offered(r) /\ Spend("deletes")
    /\ busyId' = r.id
    /\ Ask(Call("remove", r.id, None, r.status, 0))
    /\ UNCHANGED <<table, hand, open, page, modal, pacing>>

OpenModal ==
    /\ open /\ modal.step = "closed" /\ Spend("modals")
    /\ modal' = [n |-> modal.n + 1, step |-> "form"]
    /\ UNCHANGED <<table, hand, open, page, busyId, queue, pacing>>
(* The cross and the background close it, whatever is in progress.         *)
CloseModal ==
    /\ modal.step # "closed"
    /\ modal' = [modal EXCEPT !.step = "closed"]
    /\ UNCHANGED <<table, hand, open, page, busyId, queue, pacing, left>>
HasFailedStep == modal.step = "failed"
GoBack ==
    /\ HasFailedStep
    /\ modal' = [modal EXCEPT !.step = "form"]
    /\ UNCHANGED <<table, hand, open, page, busyId, queue, pacing, left>>
(* The form: what is typed, with all the provider needs.                   *)
Form(a) == Call("create", 0, a, "ACTIVE", modal.n)
HandleConnect ==
    /\ modal.step = "form"
    /\ modal' = [modal EXCEPT !.step = "verifying"]
    /\ \E a \in Accounts : Ask(Form(a))
    /\ UNCHANGED <<table, hand, open, page, busyId, pacing, left>>

(* Next.js sends the server actions of a tab one after the other.          *)
Dispatch ==
    /\ hand["here"] = Free /\ queue # <<>>
    /\ hand' = [hand EXCEPT !["here"] = Head(queue)]
    /\ queue' = Tail(queue)
    /\ UNCHANGED <<table, open, page, busyId, modal, pacing, left>>

Answered(ops) ==
    /\ hand["here"] # Free /\ hand["here"].op \in ops /\ hand["here"].at \in {"ok", "failed"}
    /\ hand' = [hand EXCEPT !["here"] = Free]
(* The step of the modal, when it is still the one that asked.             *)
StepTo(n, step) ==
    modal' = IF modal.n = n /\ modal.step # "closed" THEN [modal EXCEPT !.step = step] ELSE modal

Succeeded(c) == c.mine /\ c.at = "ok"
AfterToggle ==
    /\ Answered({"status"})
    /\ LET c == hand["here"] IN
        /\ busyId' = IF c.mine THEN None ELSE busyId
        /\ page' = IF ~Succeeded(c) THEN page
                   ELSE {IF r.id = c.id THEN c.row ELSE r : r \in page}
    /\ UNCHANGED <<table, open, modal, queue, pacing, left>>
(* Mutant: the row goes whatever the answer says.                          *)
DeletedOnClick ==
    /\ Answered({"remove"})
    /\ LET c == hand["here"] IN
        /\ busyId' = IF c.mine THEN None ELSE busyId
        /\ page' = IF c.mine THEN {r \in page : r.id # c.id} ELSE page
    /\ UNCHANGED <<table, open, modal, queue, pacing, left>>
AfterDelete ==
    /\ Answered({"remove"})
    /\ LET c == hand["here"] IN
        /\ busyId' = IF c.mine THEN None ELSE busyId
        /\ page' = IF Succeeded(c) THEN {r \in page : r.id # c.id} ELSE page
    /\ UNCHANGED <<table, open, modal, queue, pacing, left>>
AfterConnect ==
    /\ Answered({"create"})
    /\ LET c == hand["here"] IN
        /\ pacing' = IF Succeeded(c) THEN Append(pacing, [row |-> c.row, n |-> c.n]) ELSE pacing
        /\ IF c.mine /\ c.at = "failed" THEN StepTo(c.n, "failed") ELSE UNCHANGED modal
    /\ UNCHANGED <<table, open, page, busyId, queue, left>>
OnCreated ==
    /\ pacing # <<>>
    /\ page' = page \cup {Head(pacing).row}
    /\ StepTo(Head(pacing).n, "success")
    /\ pacing' = Tail(pacing)
    /\ UNCHANGED <<table, hand, open, busyId, queue, left>>

-----------------------------------------------------------------------------
(* The page goes; its calls are made all the same.                         *)
Dropped == [i \in DOMAIN queue |-> [queue[i] EXCEPT !.mine = FALSE]]
Away ==
    /\ open' = FALSE /\ page' = {} /\ busyId' = None /\ pacing' = <<>>
    /\ modal' = [modal EXCEPT !.step = "closed"]
    /\ queue' = Dropped
Leave ==
    /\ open /\ Spend("leaves") /\ Away
    /\ hand' = IF hand["here"] = Free THEN hand ELSE [hand EXCEPT !["here"].mine = FALSE]
    /\ UNCHANGED table
(* A request or its answer is lost.  The modal shows it; the transition of *)
(* a toggle or a deletion throws, and nothing on the page catches that.    *)
Lose ==
    /\ hand["here"] # Free /\ hand["here"].mine /\ hand["here"].at # "write" /\ Spend("losses")
    /\ hand' = [hand EXCEPT !["here"] = Free]
    /\ LET c == hand["here"] IN
       IF c.op # "create" THEN Away /\ UNCHANGED table
       ELSE /\ StepTo(c.n, "failed")
            /\ unseen' = IF c.at = "ok" THEN unseen \cup {c.row.id} ELSE unseen
            /\ UNCHANGED <<rows, used, open, page, busyId, queue, pacing>>
Load ==
    /\ ~open
    /\ open' = TRUE
    /\ \/ page' = rows /\ unseen' = {} /\ UNCHANGED left
       \/ page' = {} /\ unseen' = used /\ Spend("losses")
    /\ UNCHANGED <<rows, used, busyId, modal, queue, hand, pacing>>

Next ==
    \/ \E h \in {"here", "elsewhere"} : Backend(h)
    \/ Elsewhere \/ Dispatch \/ AfterToggle \/ AfterDelete \/ AfterConnect \/ OnCreated
    \/ \E r \in page : HandleToggle(r) \/ HandleDelete(r)
    \/ OpenModal \/ CloseModal \/ GoBack \/ HandleConnect
    \/ Refuse \/ Leave \/ Lose \/ Load

Spec == Init /\ [][Next]_vars

-----------------------------------------------------------------------------
(* When nothing is in progress the page shows the table, but for the rows  *)
(* it could not be told of: those changed elsewhere, by the calls of a     *)
(* page left behind, or by a call whose answer was lost.  Toggles of one   *)
(* row may be queued twice, the modal closed before its connection is      *)
(* made, and a call refused for what others did meanwhile.                 *)
Settled == open /\ queue = <<>> /\ hand["here"] = Free /\ pacing = <<>>
PageMatchesTable ==
    Settled => {r \in page : r.id \notin unseen} = {r \in rows : r.id \notin unseen}
=============================================================================
