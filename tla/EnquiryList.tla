---------------------------- MODULE EnquiryList -----------------------------
(***************************************************************************)
(* The list of enquiries (EnquiriesClient): filters, a search that waits   *)
(* until nobody types, pages, deletions that load the list again.  Each    *)
(* loads by a server action; Next.js runs those of a tab one by one, but   *)
(* the filters one loads for are those its closure was made with.          *)
(***************************************************************************)
EXTENDS Naturals, Sequences, FiniteSets

CONSTANTS
    Enquiries, \* ids, in the order of the list
    Texts,     \* what may be typed into the search field
    Filters,   \* choices of status, source and number of rows
    Hits,      \* <<text, filter>> -> the enquiries it finds
    Limit,     \* rows of a page
    None,      \* no timer, no answer yet
    Visits     \* the states to start from: [page, left]

VARIABLES
    db,       \* enquiries there are
    search,   \* the text in the field
    filter,   \* the choices shown
    page,     \* the page chosen
    timer,    \* debounceRef: what its closure loads, or None
    queue,    \* server actions of the tab, the first one in progress
    data,     \* the answer shown: what was asked, its rows, totalPages
    selected, \* selectedIds
    gone,     \* enquiries the page was told it deleted
    crossed,  \* something was loaded for filters that had changed
    left      \* what may still happen

vars == <<db, search, filter, page, timer, queue, data, selected, gone, crossed, left>>

Happenings == {"types", "filters", "pages", "singles", "bulks", "ticks", "losses", "others"}
Spend(what) == left[what] > 0 /\ left' = [left EXCEPT ![what] = @ - 1]

Keys == [search : Texts, filter : Filters, page : Nat \ {0}]
VisitsOK ==
    /\ "" \in Texts /\ "all" \in Filters /\ None \notin Keys
    /\ \A v \in Visits : v.page \in Nat \ {0} /\ DOMAIN v.left = Happenings

EnquiryListTypeOK ==
    /\ db \subseteq Enquiries /\ selected \subseteq Enquiries /\ gone \subseteq Enquiries \ db
    /\ search \in Texts /\ filter \in Filters /\ page \in Nat \ {0}
    /\ \A i \in DOMAIN queue : queue[i].op \in {"list", "delete", "bulk", "afterDelete", "afterBulk"}
    /\ \A i \in DOMAIN queue : i > 1 => queue[i].at = "asked"
    /\ DOMAIN left = Happenings

-----------------------------------------------------------------------------
(* findAll: the rows of the page and the number of pages.                  *)
Key(s, f, p) == [search |-> s, filter |-> f, page |-> p]
FindAll(k) ==
    LET found == Hits[k.search, k.filter] \cap db
        place(id) == Cardinality({e \in found : e <= id}) IN
    [key |-> k,
     items |-> {id \in found : place(id) > (k.page - 1) * Limit /\ place(id) <= k.page * Limit},
     pages |-> (Cardinality(found) + Limit - 1) \div Limit]

Init ==
    \E v \in Visits :
        /\ db = Enquiries /\ left = v.left
        /\ search = "" /\ filter = "all" /\ page = v.page
        /\ timer = None /\ queue = <<>>
        /\ data = FindAll(Key("", "all", v.page))
        /\ selected = {} /\ gone = {} /\ crossed = FALSE

Here == Key(search, filter, page)
Request(op, k, ids) == [op |-> op, key |-> k, ids |-> ids, at |-> "asked", answer |-> None]
Load(k) == Request("list", k, {})
(* A deletion has been asked for, and the list after it is not shown yet.  *)
Deleting(q) == \E i \in DOMAIN q : q[i].op # "list"

-----------------------------------------------------------------------------
(* handleSearchChange: the closure keeps the filters of this moment.       *)
HandleSearchChange(text) ==
    /\ text # search /\ Spend("types")
    /\ search' = text
    /\ timer' = Key(text, filter, 1)
    /\ crossed' = Deleting(queue)
    /\ UNCHANGED <<db, filter, page, queue, data, selected, gone>>
(* Mutant: the page stays where it was.                                    *)
SearchOnPage ==
    /\ timer # None
    /\ timer' = None
    /\ queue' = Append(queue, Load(timer))
    /\ UNCHANGED <<db, search, filter, page, data, selected, gone, crossed, left>>
(* When the page changes, the effect loads as well.                        *)
Search ==
    /\ timer # None
    /\ timer' = None /\ page' = 1
    /\ queue' = Append(queue, Load(timer)) \o
                (IF page = 1 THEN <<>> ELSE <<Load(Key(search, filter, 1))>>)
    /\ UNCHANGED <<db, search, filter, data, selected, gone, crossed, left>>

(* The choices above the list, all with setPage(1); the effect loads.      *)
HandleFilterChange(f) ==
    /\ f # filter /\ Spend("filters")
    /\ filter' = f /\ page' = 1
    /\ queue' = Append(queue, Load(Key(search, f, 1)))
    /\ crossed' = (timer # None \/ Deleting(queue))
    /\ UNCHANGED <<db, search, timer, data, selected, gone>>
(* A click on the card of the status chosen takes the choice back.         *)
HandleKpiClick(f) == HandleFilterChange(IF f = filter THEN "all" ELSE f)
(* The numbers, the arrow back and the arrow forth; none without a page.   *)
GetPageNumbers == IF data.pages = 0 THEN {} ELSE (1..data.pages) \cup ({page - 1} \ {0})
HandlePageChange(p) ==
    /\ p # page /\ Spend("pages")
    /\ page' = p
    /\ queue' = Append(queue, Load(Key(search, filter, p)))
    /\ crossed' = (Deleting(queue) \/ (crossed /\ timer # None))
    /\ UNCHANGED <<db, search, filter, timer, data, selected, gone>>

(* The table: each of its rows can be ticked and deleted.                  *)
Shown == data.items
ToggleSelectOne(id) ==
    /\ Spend("ticks")
    /\ selected' = IF id \in selected THEN selected \ {id} ELSE selected \cup {id}
    /\ UNCHANGED <<db, search, filter, page, timer, queue, data, gone, crossed>>
(* It compares numbers: the ticks may be of rows on other pages.           *)
ToggleSelectAll ==
    /\ Spend("ticks")
    /\ selected' = IF Cardinality(selected) = Cardinality(Shown) THEN {} ELSE Shown
    /\ UNCHANGED <<db, search, filter, page, timer, queue, data, gone, crossed>>

HandleDeleteSingle(id) ==
    /\ Spend("singles")
    /\ queue' = Append(queue, Request("delete", Here, {id}))
    /\ crossed' = (crossed \/ timer # None)
    /\ UNCHANGED <<db, search, filter, page, timer, data, selected, gone>>
HandleDeleteBulk ==
    /\ selected # {} /\ Spend("bulks")
    /\ queue' = Append(queue, Request("bulk", Key(search, filter, 1), selected))
    /\ crossed' = (crossed \/ timer # None)
    /\ UNCHANGED <<db, search, filter, page, timer, data, selected, gone>>

-----------------------------------------------------------------------------
(* The back end, one request after the other; others delete as well.       *)
Asked(ops, at) == queue # <<>> /\ queue[1].op \in ops /\ queue[1].at = at
Answer(at, a) == queue' = [queue EXCEPT ![1].at = at, ![1].answer = a]
screen == <<search, filter, page, timer, data, selected, gone, crossed>>

List ==
    /\ Asked({"list", "afterDelete", "afterBulk"}, "asked")
    /\ Answer("ok", FindAll(queue[1].key))
    /\ UNCHANGED <<db, screen, left>>
FindOne ==
    /\ Asked({"delete"}, "asked")
    /\ Answer(IF queue[1].ids \subseteq db THEN "found" ELSE "failed", None)
    /\ UNCHANGED <<db, screen, left>>
RemoveOne ==
    /\ Asked({"delete"}, "found")
    /\ Answer(IF queue[1].ids \subseteq db THEN "ok" ELSE "failed", None)
    /\ db' = db \ queue[1].ids
    /\ UNCHANGED <<screen, left>>
BulkDelete ==
    /\ Asked({"bulk"}, "asked")
    /\ Answer("ok", None)
    /\ db' = db \ queue[1].ids
    /\ UNCHANGED <<screen, left>>
Lose ==
    /\ queue # <<>> /\ queue[1].at # "failed" /\ Spend("losses")
    /\ Answer("failed", None)
    /\ UNCHANGED <<db, screen>>
Elsewhere ==
    /\ Spend("others")
    /\ \E id \in db : db' = db \ {id}
    /\ UNCHANGED <<queue, screen>>

-----------------------------------------------------------------------------
(* What follows an answer.                                                 *)
Answered(ops) == queue # <<>> /\ queue[1].op \in ops /\ queue[1].at \in {"ok", "failed"}
Ok == queue[1].at = "ok"
kept == <<db, search, filter, timer, left>>

(* A list that does not come leaves what is shown.                         *)
Show ==
    /\ data' = IF Ok THEN queue[1].answer ELSE data
    /\ crossed' = (crossed \/ ~Ok)
FetchData ==
    /\ Answered({"list", "afterDelete"})
    /\ Show
    /\ queue' = Tail(queue)
    /\ UNCHANGED <<kept, page, selected, gone>>
AfterDelete ==
    /\ Answered({"delete", "bulk"})
    /\ LET c == queue[1]
           next == IF c.op = "bulk" THEN "afterBulk" ELSE "afterDelete" IN
        /\ queue' = Tail(queue) \o (IF Ok THEN <<Request(next, c.key, {})>> ELSE <<>>)
        /\ gone' = IF Ok THEN gone \cup c.ids ELSE gone
        /\ selected' = IF ~Ok THEN selected ELSE IF c.op = "bulk" THEN {} ELSE selected \ c.ids
    /\ UNCHANGED <<kept, page, data, crossed>>
AfterBulk ==
    /\ Answered({"afterBulk"})
    /\ data' = IF Ok THEN queue[1].answer ELSE data
    /\ page' = IF Ok THEN 1 ELSE page
    /\ LET rest == Tail(queue) IN
        /\ queue' = rest \o (IF page' = page THEN <<>> ELSE <<Load(Key(search, filter, 1))>>)
        /\ crossed' = (crossed \/ ~Ok \/ (page' # page /\ Deleting(rest)))
    /\ UNCHANGED <<kept, selected, gone>>

Next ==
    \/ \E text \in Texts : HandleSearchChange(text)
    \/ Search
    \/ \E f \in Filters : HandleFilterChange(f) \/ HandleKpiClick(f)
    \/ \E p \in GetPageNumbers : HandlePageChange(p)
    \/ \E id \in Shown : ToggleSelectOne(id) \/ HandleDeleteSingle(id)
    \/ ToggleSelectAll \/ HandleDeleteBulk
    \/ List \/ FindOne \/ RemoveOne \/ BulkDelete \/ Lose \/ Elsewhere
    \/ FetchData \/ AfterDelete \/ AfterBulk

Spec == Init /\ [][Next]_vars

-----------------------------------------------------------------------------
(* "Fetch enquiries with current filters": when nothing is waiting, the    *)
(* list is the answer for the text, the choices and the page shown, and no *)
(* enquiry the page deleted is on it.  What the code does nothing about is *)
(* in crossed: a choice changed while a typed text waited, anything that   *)
(* changed while a deletion was under way, and an answer that was lost.    *)
ListMatchesFilters ==
    timer = None /\ queue = <<>> /\ ~crossed => data.key = Here /\ data.items \cap gone = {}
=============================================================================
