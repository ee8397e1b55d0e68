---------------------------- MODULE TemplatesPage ---------------------------
(***************************************************************************)
(* The pages of templates in one tab (TemplateList, TemplateForm) over the *)
(* table of templates.  The list is loaded by an effect that runs again    *)
(* after every change and after every toast: the context of ToastProvider  *)
(* is a new object whenever a toast comes or goes, and the effect names it.*)
(***************************************************************************)
EXTENDS Naturals, Sequences, FiniteSets, SequencesExt

CONSTANTS
    LastId,  \* templates there may ever be; an id is never used again
    Names,   \* what filters and the search tell apart
    None,    \* no template
    Shelves  \* the states to start from: [table, left]

VARIABLES
    table,     \* MessageTemplate, the latest updated first: [id, type, name]
    lastId,    \* ids there were
    hand,      \* the server action that is served, or Free
    queue,     \* those of the tab that wait for it
    where,     \* what the tab shows: "list", "form", "away"
    all,       \* allTemplates
    choice,    \* activeTab, the filters, page and pageSize
    isLoading,
    busyId,
    preview,   \* previewTemplate
    form,      \* the template that is edited, and whether it is being saved
    toasts,    \* how many are up, and how many are going
    behind,    \* the table changed unseen after the list read it
    left       \* what may still happen

vars == <<table, lastId, hand, queue, where, all, choice, isLoading, busyId,
          preview, form, toasts, behind, left>>
backEnd == <<table, lastId, behind>>
list == <<all, choice, isLoading, busyId, preview>>

Free == [op |-> "none"]
Ordinary == [tab |-> "INTERNAL", filter |-> "ALL", page |-> 1, size |-> 1]
NewForm == [row |-> [id |-> None, type |-> "INTERNAL", name |-> None], saving |-> FALSE]
Happenings == {"choices", "uses", "deletes", "copies", "forms", "saves", "leaves", "losses", "others"}
Spend(what) == left[what] > 0 /\ left' = [left EXCEPT ![what] = @ - 1]

(* The ids of a table to start from are the first ones, each once.         *)
ShelvesOK ==
    /\ LastId \in Nat
    /\ \A s \in Shelves :
        /\ s.left \in [Happenings -> Nat]
        /\ s.table \in Seq([id : 1..LastId, type : {"INTERNAL", "WHATSAPP"}, name : Names])
        /\ Len(s.table) <= LastId
        /\ \A i, j \in DOMAIN s.table :
            s.table[i].id <= Len(s.table) /\ (s.table[i].id = s.table[j].id => i = j)

TemplatesPageTypeOK ==
    /\ \A i, j \in DOMAIN table : table[i].id = table[j].id => i = j
    /\ \A i \in DOMAIN table : table[i].id \in 1..lastId
    /\ lastId \in 0..LastId
    /\ where \in {"list", "form", "away"}
    /\ choice.page \in Nat \ {0} /\ choice.size \in {1, 2}
    /\ hand # Free => hand.at \in {"start", "ok", "failed"} /\ hand.tries \in 0..2
    /\ toasts.up \in Nat /\ toasts.going \in Nat
    /\ DOMAIN left = Happenings

-----------------------------------------------------------------------------
(* What a list of templates, a choice and a page show.                     *)
Fits(r) == r.type = choice.tab /\ choice.filter \in {"ALL", r.name}
filteredTemplates == SelectSeq(all, Fits)
totalItems == Cardinality({i \in DOMAIN all : Fits(all[i])})
totalPages == IF totalItems = 0 THEN 1 ELSE (totalItems + choice.size - 1) \div choice.size
paginatedTemplates ==
    {filteredTemplates[i] : i \in {j \in DOMAIN filteredTemplates :
        (choice.page - 1) * choice.size < j /\ j <= choice.page * choice.size}}
(* The four cards above the table, whatever is filtered.                   *)
frequentlyUsed ==
    LET ofTab == SelectSeq(all, LAMBDA r : r.type = choice.tab)
    IN {ofTab[i] : i \in DOMAIN ofTab \cap 1..4}

Call(op, row) == [op |-> op, row |-> row, mine |-> TRUE, at |-> "start", tries |-> 0, rows |-> <<>>]
ListAll == Call("list", None)
Left(c) == IF c = Free THEN c ELSE [c EXCEPT !.mine = FALSE, !.rows = <<>>]
Cancelled(c) == IF c # Free /\ c.op = "list" THEN Left(c) ELSE c
LeftAll(q) == [i \in DOMAIN q |-> Left(q[i])]
(* The effect runs again: what it asked for before is not shown any more.  *)
FetchAll(q) ==
    /\ queue' = Append([i \in DOMAIN q |-> Cancelled(q[i])], ListAll)
    /\ isLoading' = TRUE

Init ==
    \E s \in Shelves :
        /\ table = s.table /\ lastId = Len(s.table) /\ behind = FALSE
        /\ where = "list" /\ all = s.table
        /\ choice = Ordinary /\ busyId = None /\ preview = None /\ form = NewForm
        /\ hand = Free /\ queue = <<ListAll>> /\ isLoading = TRUE
        /\ toasts = [up |-> 0, going |-> 0]
        /\ left = s.left

-----------------------------------------------------------------------------
(* The back end.  How handlers of one template meet is in Templates.       *)
Stored(id) == {i \in DOMAIN table : table[i].id = id}
StoreNew(row) ==
    /\ lastId < LastId /\ lastId' = lastId + 1
    /\ table' = <<[row EXCEPT !.id = lastId + 1]>> \o table
Duplicate(id) == \E i \in Stored(id) : StoreNew(table[i])
Update(row) ==
    \E i \in Stored(row.id) : table' = <<row>> \o RemoveAt(table, i) /\ UNCHANGED lastId
RemoveTemplate(id) ==
    \E i \in Stored(id) : table' = RemoveAt(table, i) /\ UNCHANGED lastId
Write(op, row) ==
    \/ op = "create" /\ StoreNew(row)
    \/ op = "update" /\ Update(row)
    \/ op = "remove" /\ RemoveTemplate(row.id)
    \/ op = "duplicate" /\ Duplicate(row.id)

Serving == hand # Free /\ hand.at = "start"
FindAll ==
    /\ Serving /\ hand.op = "list"
    /\ hand' = [hand EXCEPT !.at = "ok", !.rows = IF hand.mine THEN table ELSE <<>>]
    /\ behind' = (behind /\ ~hand.mine)
    /\ UNCHANGED <<table, lastId, queue, where, list, form, toasts, left>>
Serve ==
    /\ Serving /\ hand.op # "list"
    /\ Write(hand.op, hand.row)
    /\ hand' = [hand EXCEPT !.at = "ok"]
    /\ UNCHANGED <<behind, queue, where, list, form, toasts, left>>
(* A name that is taken, a template that has gone.                         *)
Refuse ==
    /\ Serving /\ hand.op # "list"
    /\ hand.op \in {"create", "update"} \/ Stored(hand.row.id) = {}
    /\ hand' = [hand EXCEPT !.at = "failed"]
    /\ UNCHANGED <<backEnd, queue, where, list, form, toasts, left>>
(* A request of the web server to the back end fails, or its answer is     *)
(* lost: a reading request is repeated twice unless it was refused.        *)
apiClient ==
    /\ hand # Free /\ hand.at # "failed" /\ Spend("losses")
    /\ \/ hand' = [hand EXCEPT !.at = "failed"]
       \/ /\ hand.op = "list" /\ hand.tries < 2
          /\ hand' = [hand EXCEPT !.at = "start", !.tries = @ + 1]
    /\ UNCHANGED <<backEnd, queue, where, list, form, toasts>>
Elsewhere ==
    /\ Spend("others")
    /\ \E i \in 1..lastId, n \in Names :
        Write("create", [id |-> None, type |-> "WHATSAPP", name |-> n])
        \/ Write("update", [id |-> i, type |-> "INTERNAL", name |-> n])
        \/ Write("remove", [id |-> i, type |-> "INTERNAL", name |-> n])
    /\ behind' = TRUE
    /\ UNCHANGED <<hand, queue, where, list, form, toasts>>

-----------------------------------------------------------------------------
(* Toasts outlive the pages; one that appears, fades or goes makes the list*)
(* load again.                                                             *)
Toasted(q) ==
    IF where = "list" THEN FetchAll(q) ELSE queue' = q /\ UNCHANGED isLoading
Success == toasts' = [toasts EXCEPT !.up = @ + 1]
RemoveToast ==
    /\ \/ toasts.up > 0 /\ toasts' = [up |-> toasts.up - 1, going |-> toasts.going + 1]
       \/ toasts.going > 0 /\ toasts' = [toasts EXCEPT !.going = @ - 1]
    /\ Toasted(queue)
    /\ hand' = IF where = "list" THEN Cancelled(hand) ELSE hand
    /\ UNCHANGED <<backEnd, where, all, choice, busyId, preview, form, left>>

Dispatch ==
    /\ hand = Free /\ queue # <<>>
    /\ hand' = Head(queue) /\ queue' = Tail(queue)
    /\ UNCHANGED <<backEnd, where, list, form, toasts, left>>

(* The list.                                                               *)
OnList == where = "list" /\ preview = None
Rows == paginatedTemplates \cup frequentlyUsed
Choose ==
    /\ OnList /\ Spend("choices")
    /\ \/ \E f \in Names \cup {"ALL"} : choice' = [choice EXCEPT !.filter = f, !.page = 1]
       \/ \E t \in {"INTERNAL", "WHATSAPP"} : choice' = [choice EXCEPT !.tab = t, !.page = 1]
       \/ totalPages > 1 /\ ~isLoading /\ \E p \in 1..totalPages : choice' = [choice EXCEPT !.page = p]
       \/ totalPages > 1 /\ ~isLoading /\ \E n \in 1..2 : choice' = [choice EXCEPT !.size = n]
    /\ UNCHANGED <<backEnd, hand, queue, where, all, isLoading, busyId, preview, form, toasts>>
ViewQueue ==
    /\ OnList /\ Spend("choices")
    /\ choice' = [choice EXCEPT !.tab = "WHATSAPP", !.filter = "ALL", !.page = 1]
    /\ Success /\ Toasted(queue) /\ hand' = Cancelled(hand)
    /\ UNCHANGED <<backEnd, where, all, busyId, preview, form>>
HandleUseTemplate ==
    /\ where = "list" /\ (preview # None \/ Rows # {}) /\ Spend("uses")
    /\ Success /\ Toasted(queue) /\ hand' = Cancelled(hand)
    /\ UNCHANGED <<backEnd, where, all, choice, busyId, preview, form>>
Preview ==
    /\ where = "list"
    /\ \/ preview = None /\ Spend("uses") /\ preview' \in Rows
       \/ preview # None /\ preview' = None /\ UNCHANGED left
    /\ UNCHANGED <<backEnd, hand, queue, where, all, choice, isLoading, busyId, form, toasts>>

Act(op, r) ==
    /\ busyId' = r.id /\ queue' = Append(queue, Call(op, r))
    /\ UNCHANGED <<backEnd, hand, where, all, choice, isLoading, preview, form, toasts>>
HandleDuplicate == OnList /\ Spend("copies") /\ \E r \in Rows : Act("duplicate", r)
HandleDelete == OnList /\ Spend("deletes") /\ \E r \in Rows : Act("remove", r)

Answered(ops) == hand # Free /\ hand.op \in ops /\ hand.at \in {"ok", "failed"} /\ hand' = Free
(* Mutant: the user is not told that a load failed.                        *)
FailQuietly ==
    /\ Answered({"list"})
    /\ all' = IF hand.mine /\ hand.at = "ok" THEN hand.rows ELSE all
    /\ isLoading' = (isLoading /\ ~hand.mine)
    /\ UNCHANGED <<backEnd, queue, where, choice, busyId, preview, form, toasts, left>>
AfterList ==
    /\ Answered({"list"})
    /\ IF hand.mine /\ hand.at = "failed"
       THEN Success /\ Toasted(queue) /\ UNCHANGED all
       ELSE /\ all' = IF hand.mine THEN hand.rows ELSE all
            /\ isLoading' = (isLoading /\ ~hand.mine)
            /\ UNCHANGED <<queue, toasts>>
    /\ UNCHANGED <<backEnd, where, choice, busyId, preview, form, left>>
AfterAct ==
    /\ Answered({"remove", "duplicate"})
    /\ busyId' = IF hand.mine THEN None ELSE busyId
    /\ Success /\ Toasted(queue)
    /\ UNCHANGED <<backEnd, where, all, choice, preview, form, left>>

-----------------------------------------------------------------------------
(* From page to page.  A page is made on the server with what it shows;    *)
(* the list asks for its rows once more when it is there.                  *)
Mount(rows) ==
    /\ where' = "list" /\ all' = rows
    /\ choice' = Ordinary /\ busyId' = None /\ preview' = None /\ form' = NewForm
    /\ FetchAll(LeftAll(queue))
Open ==
    /\ where # "list"
    /\ \/ Mount(table) /\ UNCHANGED left
       \/ Mount(<<>>) /\ Spend("losses")
    /\ hand' = Left(hand)
    /\ UNCHANGED <<backEnd, toasts>>
Leave(to, f) ==
    /\ where' = to /\ form' = f
    /\ all' = <<>> /\ choice' = Ordinary /\ busyId' = None /\ preview' = None /\ isLoading' = FALSE
    /\ queue' = LeftAll(queue) /\ hand' = Left(hand)
    /\ UNCHANGED <<backEnd, toasts>>
Away == where # "away" /\ Spend("leaves") /\ Leave("away", NewForm)
NewTemplate == OnList /\ Spend("forms") /\ Leave("form", NewForm)
(* The page of a template that has gone is "not found".                    *)
EditTemplate ==
    /\ where = "list" /\ Spend("forms")
    /\ \E r \in IF preview = None THEN Rows ELSE {preview} :
        \/ Stored(r.id) = {} /\ Leave("away", NewForm)
        \/ \E i \in Stored(r.id) : Leave("form", [NewForm EXCEPT !.row = table[i]])

(* The fields.  The type can be turned to INTERNAL only.                   *)
Fields(type, name) == [form.row EXCEPT !.type = type, !.name = name]
HandleSave ==
    /\ where = "form" /\ ~form.saving /\ Spend("saves")
    /\ form' = [form EXCEPT !.saving = TRUE]
    /\ \E type \in {form.row.type, "INTERNAL"}, name \in Names :
        LET op == IF form.row.id = None THEN "create" ELSE "update"
        IN queue' = Append(queue, Call(op, Fields(type, name)))
    /\ UNCHANGED <<backEnd, hand, where, list, toasts>>
(* A template that was saved takes the user to the list, from wherever.    *)
AfterSave ==
    /\ Answered({"create", "update"})
    /\ Success
    /\ IF hand.at = "ok" /\ where # "list"
       THEN Mount(table)
       ELSE /\ form' = IF hand.mine THEN [form EXCEPT !.saving = FALSE] ELSE form
            /\ Toasted(queue) /\ UNCHANGED <<where, all, choice, busyId, preview>>
    /\ UNCHANGED <<backEnd, left>>

(* An action of the tab is lost on its way.  A load waits for ever; any    *)
(* other was made in a transition, which throws while its page is there,   *)
(* and the document is gone.                                               *)
Lose ==
    /\ hand # Free /\ Spend("losses")
    /\ hand' = Free
    /\ behind' = (behind \/ (hand.op # "list" /\ hand.at = "ok"))
    /\ IF hand.op = "list" \/ ~hand.mine THEN UNCHANGED <<queue, where, list, form, toasts>>
       ELSE /\ where' = "away" /\ form' = NewForm
            /\ all' = <<>> /\ choice' = Ordinary /\ busyId' = None /\ preview' = None
            /\ isLoading' = FALSE
            /\ queue' = <<>> /\ toasts' = [up |-> 0, going |-> 0]
    /\ UNCHANGED <<table, lastId>>

Next ==
    \/ FindAll \/ Serve \/ Refuse \/ apiClient \/ Elsewhere
    \/ RemoveToast \/ Dispatch
    \/ Choose \/ ViewQueue \/ HandleUseTemplate \/ Preview \/ HandleDuplicate \/ HandleDelete
    \/ AfterList \/ AfterAct
    \/ Open \/ Away \/ NewTemplate \/ EditTemplate \/ HandleSave \/ AfterSave
    \/ Lose

Spec == Init /\ [][Next]_vars

-----------------------------------------------------------------------------
(* TemplateList: when nothing is in progress and the last toast has gone,  *)
(* the list is the table, unless it changed since behind the tab's back,   *)
(* and no row is busy: also after loads that failed or were overtaken,     *)
(* deletions of what had gone, answers that were lost behind the web       *)
(* server, and pages left meanwhile.  (A load whose own answer is lost     *)
(* leaves the page loading.)                                               *)
Settled ==
    where = "list" /\ hand = Free /\ queue = <<>> /\ ~isLoading /\ toasts = [up |-> 0, going |-> 0]
ListIsTheTable == Settled => (behind \/ all = table) /\ busyId = None
=============================================================================
