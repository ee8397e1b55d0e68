---------------------------- MODULE ContactsPage ----------------------------
(***************************************************************************)
(* The page of contacts: lists kept by react-query under the filters and   *)
(* the page they were loaded for, the table whose ticks are row numbers,   *)
(* and the panel of one contact.  Next.js runs the server actions of a tab *)
(* one by one.  What the back end does about a contact is in Contacts.     *)
(***************************************************************************)
EXTENDS Naturals, Sequences, FiniteSets

CONSTANTS
    People,   \* ids of contacts, in the order of the list
    Filters,  \* search, channel and status
    Found,    \* filter -> the contacts it finds
    Limit,    \* rows of a page
    Engaged,  \* contacts with an active enquiry: they are not deleted
    None,     \* nobody, no answer yet
    Visits    \* what a visit may bring

VARIABLES
    db,       \* contacts there are
    made,     \* changes of this tab the back end has made
    told,     \* those the tab was told of
    filter,   \* the filters chosen
    page,     \* the page chosen
    cache,    \* the lists of react-query: key -> list
    queue,    \* server actions of the tab, the first one in progress
    ticks,    \* rowSelection: numbers of rows
    selected, \* selectedIds
    panel,    \* ContactDetailPanel: contactId, and the contact it shows
    strayed,  \* another contact was still to be loaded when one was opened
    left      \* what may still happen

vars == <<db, made, told, filter, page, cache, queue, ticks, selected, panel, strayed, left>>

Happenings == {"filters", "pages", "ticks", "singles", "bulks", "opens", "changes", "creates",
               "ages", "losses", "others"}
Spend(what) == left[what] > 0 /\ left' = [left EXCEPT ![what] = @ - 1]

Keys == Filters \X (1..(Cardinality(People) \div Limit + 1))
PagesOK ==
    /\ People \subseteq Nat /\ IsFiniteSet(People) /\ Limit \in Nat \ {0}
    /\ "all" \in Filters /\ \A f \in Filters : Found[f] \subseteq People
    /\ Visits \subseteq [Happenings -> Nat]
Shown == <<filter, page>>
Unknown == [status |-> "pending", items |-> <<>>, asOf |-> 0, stale |-> TRUE]

ContactsPageTypeOK ==
    /\ db \subseteq People /\ selected \subseteq People /\ told <= made
    /\ Shown \in Keys /\ DOMAIN cache = Keys
    /\ \A k \in Keys : cache[k].status \in {"pending", "success", "error"} /\ cache[k].asOf <= made
    /\ \A i \in DOMAIN queue :
        queue[i].op \in {"list", "detail", "delete", "bulk", "drop", "save", "channel", "create"}
    /\ panel.id = None => panel.contact = None
    /\ DOMAIN left = Happenings

(* findAll: what comes after the pages before.                             *)
Rows(k) ==
    LET found == Found[k[1]] \cap db
        before == (k[2] - 1) * Limit
        place(id) == Cardinality({e \in found : e <= id}) IN
    [i \in {j \in 1..Limit : before + j <= Cardinality(found)} |->
        CHOOSE id \in found : place(id) = before + i]

Init ==
    \E v \in Visits :
        /\ db = People /\ made = 0 /\ told = 0 /\ left = v
        /\ filter = "all" /\ page = 1
        /\ cache = [k \in Keys |-> IF k = <<"all", 1>>
               THEN [status |-> "success", items |-> Rows(k), asOf |-> 0, stale |-> FALSE] ELSE Unknown]
        /\ queue = <<>> /\ ticks = {} /\ selected = {}
        /\ panel = [id |-> None, contact |-> None] /\ strayed = FALSE

Request(op, ids) ==
    [op |-> op, key |-> None, ids |-> ids, about |-> None, tries |-> 1, live |-> TRUE,
     at |-> "asked", answer |-> None]
List(k) == [Request("list", {}) EXCEPT !.key = k]
(* Of the panel: the contact it shows, and the contactId of the closure.   *)
Panel(op) == [Request(op, {panel.contact}) EXCEPT !.about = panel.id]
Fetching(q, k) == \E i \in DOMAIN q : q[i].op = "list" /\ q[i].key = k /\ q[i].live

-----------------------------------------------------------------------------
(* useQuery: a list is loaded when it is chosen and not there, or stale.   *)
Chosen(q, c, k) == IF c[k].stale /\ ~Fetching(q, k) THEN Append(q, List(k)) ELSE q
(* Mutant: only the list that is shown.                                    *)
InvalidatedShown == [cache EXCEPT ![Shown].stale = TRUE]
(* refreshAll.  A list on its way is asked for once more, and its answer   *)
(* will not count, unless there is nothing to show in the meantime.        *)
Invalidated == [k \in Keys |-> [cache[k] EXCEPT !.stale = TRUE]]
Refreshed(q) ==
    IF Fetching(q, Shown) /\ cache[Shown].items = <<>> /\ cache[Shown].status = "pending" THEN q
    ELSE Append([i \in DOMAIN q |-> IF q[i].key = Shown THEN [q[i] EXCEPT !.live = FALSE] ELSE q[i]],
                List(Shown))

HandleFilterChange(f) ==
    /\ f # filter /\ Spend("filters")
    /\ filter' = f /\ page' = 1
    /\ queue' = Chosen(queue, cache, <<f, 1>>)
    /\ UNCHANGED <<db, made, told, cache, ticks, selected, panel, strayed>>
OnPaginationChange(p) ==
    /\ p # page /\ <<filter, p>> \in Keys /\ Spend("pages")
    /\ page' = p
    /\ queue' = Chosen(queue, cache, <<filter, p>>)
    /\ UNCHANGED <<db, made, told, filter, cache, ticks, selected, panel, strayed>>
(* staleTime: five minutes.                                                *)
GrowOld(k) ==
    /\ ~cache[k].stale /\ Spend("ages")
    /\ cache' = [cache EXCEPT ![k].stale = TRUE]
    /\ UNCHANGED <<db, made, told, filter, page, queue, ticks, selected, panel, strayed>>
Retry ==
    /\ cache[Shown].status = "error" /\ ~Fetching(queue, Shown)
    /\ queue' = Append(queue, List(Shown))
    /\ UNCHANGED <<db, made, told, filter, page, cache, ticks, selected, panel, strayed, left>>

-----------------------------------------------------------------------------
(* The table: the numbers that are ticked, and the rows they are now.      *)
Visible == IF cache[Shown].status = "success" THEN cache[Shown].items ELSE <<>>
Ticked(t) == {Visible[i] : i \in t \cap DOMAIN Visible}
HandleRowSelectionChange(i) ==
    /\ Spend("ticks")
    /\ ticks' = IF i \in ticks THEN ticks \ {i} ELSE ticks \cup {i}
    /\ selected' = Ticked(ticks')
    /\ UNCHANGED <<db, made, told, filter, page, cache, queue, panel, strayed>>
ToggleAllPageRows ==
    /\ Visible # <<>> /\ Spend("ticks")
    /\ ticks' = IF DOMAIN Visible \subseteq ticks THEN ticks \ DOMAIN Visible ELSE ticks \cup DOMAIN Visible
    /\ selected' = Ticked(ticks')
    /\ UNCHANGED <<db, made, told, filter, page, cache, queue, panel, strayed>>

Ask(what, request) ==
    /\ Spend(what)
    /\ queue' = Append(queue, request)
    /\ UNCHANGED <<db, made, told, filter, page, cache, ticks, selected, panel, strayed>>
HandleDeleteSingle(id) == id \notin Engaged /\ Ask("singles", Request("delete", {id}))
HandleBulkDelete == selected # {} /\ Ask("bulks", Request("bulk", selected))
HandleSubmit == Ask("creates", Request("create", {}))

(* The contacts a call makes the panel show, whichever was chosen since.   *)
Loads(c) == IF c.op = "detail" THEN c.ids ELSE IF c.op = "channel" THEN {c.about} ELSE {}
(* The panel opens with the row of the list and loads the rest.            *)
Opened(id) == [id |-> id, contact |-> id]
HandleRowClick(id) ==
    /\ panel.id = None /\ Spend("opens")
    /\ panel' = Opened(id)
    /\ queue' = Append(queue, Request("detail", {id}))
    /\ strayed' = \E i \in DOMAIN queue : ~(Loads(queue[i]) \subseteq {id})
    /\ UNCHANGED <<db, made, told, filter, page, cache, ticks, selected>>
RowActions(id) == HandleDeleteSingle(id) \/ HandleRowClick(id)
Close ==
    /\ panel.id # None
    /\ panel' = [id |-> None, contact |-> None]
    /\ UNCHANGED <<db, made, told, filter, page, cache, queue, ticks, selected, strayed, left>>
HandleSaveProfile == panel.id # None /\ Ask("changes", Panel("save"))
(* handleAddChannel, handleDeleteChannel, handleSetPrimary.                *)
ChangeChannel == panel.id # None /\ Ask("changes", Panel("channel"))
HandleDeleteContact ==
    panel.id # None /\ panel.contact \notin Engaged /\ Ask("singles", Panel("drop"))

-----------------------------------------------------------------------------
(* The back end; others delete as well, and open enquiries.                *)
Asked(ops) == queue # <<>> /\ queue[1].op \in ops /\ queue[1].at = "asked"
Answer(at, a) == queue' = [queue EXCEPT ![1].at = at, ![1].answer = a]
shown == <<told, filter, page, cache, ticks, selected, panel, strayed>>

FindAll ==
    /\ Asked({"list"})
    /\ Answer("ok", [status |-> "success", items |-> Rows(queue[1].key), asOf |-> made, stale |-> FALSE])
    /\ UNCHANGED <<db, made, shown, left>>
FindById ==
    /\ Asked({"detail"})
    /\ Answer(IF queue[1].ids \subseteq db THEN "ok" ELSE "failed", None)
    /\ UNCHANGED <<db, made, shown, left>>
Write ==
    /\ Asked({"save", "channel", "create"})
    /\ IF queue[1].ids \subseteq db THEN Answer("ok", None) /\ made' = made + 1
       ELSE Answer("failed", None) /\ UNCHANGED made
    /\ UNCHANGED <<db, shown, left>>
Delete ==
    /\ Asked({"delete", "drop", "bulk"})
    /\ IF queue[1].ids \cap Engaged = {} /\ (queue[1].op # "bulk" => queue[1].ids \subseteq db)
       THEN Answer("ok", None) /\ db' = db \ queue[1].ids /\ made' = made + 1
       ELSE Answer("failed", None) /\ UNCHANGED <<db, made>>
    /\ UNCHANGED <<shown, left>>
Lose ==
    /\ queue # <<>> /\ queue[1].at # "failed" /\ Spend("losses")
    /\ Answer("failed", None)
    /\ UNCHANGED <<db, made, shown>>
Elsewhere ==
    /\ Spend("others")
    /\ \E id \in db : db' = db \ {id}
    /\ UNCHANGED <<made, queue, shown>>

-----------------------------------------------------------------------------
(* What follows an answer.  A list is asked for twice before it is given   *)
(* up; an answer that does not count is dropped.                           *)
Answered(ops) == queue # <<>> /\ queue[1].op \in ops /\ queue[1].at \in {"ok", "failed"}
Ok == queue[1].at = "ok"
Again == [queue[1] EXCEPT !.at = "asked", !.tries = 2]

AfterList ==
    /\ Answered({"list"})
    /\ LET c == queue[1]
           again == c.live /\ ~Ok /\ c.tries = 1 IN
        /\ queue' = Tail(queue) \o (IF again THEN <<Again>> ELSE <<>>)
        /\ cache' = IF ~c.live \/ again THEN cache
                    ELSE IF Ok THEN [cache EXCEPT ![c.key] = c.answer]
                    ELSE [cache EXCEPT ![c.key].status = "error", ![c.key].stale = TRUE]
    /\ UNCHANGED <<db, made, told, filter, page, ticks, selected, panel, strayed, left>>
AfterDetail ==
    /\ Answered({"detail"})
    /\ queue' = Tail(queue)
    /\ panel' = IF Ok /\ panel.id # None THEN [panel EXCEPT !.contact = CHOOSE id \in queue[1].ids : TRUE] ELSE panel
    /\ UNCHANGED <<db, made, told, filter, page, cache, ticks, selected, strayed, left>>
(* The closure asks for the contact it was made with.                      *)
AfterChange ==
    /\ Answered({"save", "channel", "create", "delete", "drop"})
    /\ LET c == queue[1]
           rest == Tail(queue) \o (IF c.op = "channel" THEN <<Request("detail", {c.about})>> ELSE <<>>) IN
        /\ queue' = IF Ok THEN Refreshed(rest) ELSE Tail(queue)
        /\ cache' = IF Ok THEN Invalidated ELSE cache
        /\ told' = IF Ok THEN told + 1 ELSE told
        /\ panel' = IF Ok /\ c.op = "drop" THEN [id |-> None, contact |-> None] ELSE panel
    /\ UNCHANGED <<db, made, filter, page, ticks, selected, strayed, left>>
(* The list that was shown is loaded again, and then that of page 1.       *)
AfterBulk ==
    /\ Answered({"bulk"})
    /\ LET rest == Refreshed(Tail(queue)) IN
        /\ queue' = IF Ok THEN Chosen(rest, Invalidated, <<filter, 1>>) ELSE Tail(queue)
        /\ cache' = IF Ok THEN Invalidated ELSE cache
        /\ told' = IF Ok THEN told + 1 ELSE told
        /\ page' = IF Ok THEN 1 ELSE page
        /\ selected' = IF Ok THEN {} ELSE selected
    /\ UNCHANGED <<db, made, filter, ticks, panel, strayed, left>>

Next ==
    \/ \E f \in Filters : HandleFilterChange(f)
    \/ \E p \in 1..Cardinality(People) : OnPaginationChange(p)
    \/ \E k \in Keys : GrowOld(k)
    \/ Retry \/ ToggleAllPageRows \/ HandleBulkDelete \/ HandleSubmit
    \/ \E i \in DOMAIN Visible :
        HandleRowSelectionChange(i) \/ RowActions(Visible[i])
    \/ Close \/ HandleSaveProfile \/ ChangeChannel \/ HandleDeleteContact
    \/ FindAll \/ FindById \/ Write \/ Delete \/ Lose \/ Elsewhere
    \/ AfterList \/ AfterDetail \/ AfterChange \/ AfterBulk

Spec == Init /\ [][Next]_vars

-----------------------------------------------------------------------------
(* A list that is shown and not being loaded was read after every change   *)
(* the tab was told of, whichever lists were kept from before and whatever *)
(* was on its way; and when nothing is, the panel shows the contact that   *)
(* was chosen, unless another was still to be loaded at the choice.        *)
PageIsCurrent ==
    /\ cache[Shown].status = "success" /\ ~Fetching(queue, Shown) => cache[Shown].asOf >= told
    /\ panel.id # None /\ queue = <<>> /\ ~strayed => panel.contact = panel.id
=============================================================================
