------------------------------- MODULE MCOffice -----------------------------
(***************************************************************************)
(* One instance of each part of Records and Screens.  In a behaviour one   *)
(* part runs and the others stay at an initial state where nothing is      *)
(* asked of them, so the states are the sum of the parts' and not their    *)
(* product.                                                                *)
(***************************************************************************)
EXTENDS Records, Screens, TLC

VARIABLE part   \* the part that runs

-----------------------------------------------------------------------------
Few(w, s, j, r, c, d) ==
    [opens |-> 1, writes |-> w, sends |-> s, jumps |-> j, returns |-> r, scrolls |-> c, drops |-> d]
NoRequests == [Few(0, 0, 0, 0, 0, 0) EXCEPT !.opens = 0]
MCRequests == {NoRequests, Few(1, 0, 1, 1, 1, 0), Few(1, 1, 0, 0, 2, 0), Few(2, 1, 0, 0, 0, 1)}

(* Windows of an author "u1" and of another member "u2": what the day      *)
(* finds pinned and starred, who has the chat open, and what is left.      *)
Wishes(some) == [what \in {"pin", "unpin", "star", "unstar", "edit", "delete", "hide", "react",
                           "opens", "losses"} |-> IF what \in DOMAIN some THEN some[what] ELSE 0]
Chat(pinned, starred, who, some) ==
    [pinned |-> pinned, starred |-> starred, shown |-> who, left |-> Wishes(some)]
NoChat == Chat(FALSE, FALSE, {}, [pin |-> 0])
MCOwner == "u1" :> "u1" @@ "u2" :> "u2"
MCChores ==
    {NoChat,
     Chat(TRUE, FALSE, {"u1"}, [edit |-> 1, delete |-> 1, opens |-> 1]),
     Chat(FALSE, FALSE, {"u1"}, [edit |-> 1, delete |-> 1, star |-> 1]),
     Chat(TRUE, FALSE, {"u2"}, [hide |-> 1, unpin |-> 1, opens |-> 1]),
     Chat(TRUE, FALSE, {"u2"}, [hide |-> 1, pin |-> 1, opens |-> 1]),
     Chat(FALSE, TRUE, {"u1"}, [delete |-> 1, unstar |-> 1, opens |-> 1]),
     Chat(FALSE, FALSE, {"u1", "u2"}, [react |-> 2, losses |-> 1])}

(* Both have the room open: one is removed and added, one reports and      *)
(* closes it.  One opens it while the other writes: a member, a new one.   *)
(* One alone, who is joined by somebody that never looks.                  *)
Work(o, c, s, m, r) ==
    [opens |-> o, closes |-> c, sends |-> s, moves |-> m, reports |-> r]
Evening(who, seated, work) == [members |-> who, open |-> seated, left |-> work]
NoEvening == Evening({}, {}, Work(0, 0, 0, 0, 0))
MCEvenings ==
    {NoEvening,
     Evening({"u1", "u2"}, {"u1", "u2"}, Work(0, 0, 1, 1, 0)),
     Evening({"u1", "u2"}, {"u1", "u2"}, Work(0, 1, 1, 0, 1)),
     Evening({"u1", "u2"}, {"u1"}, Work(1, 0, 1, 0, 0)),
     Evening({"u1"}, {"u1"}, Work(1, 0, 1, 1, 0)),
     Evening({"u1"}, {"u1"}, Work(0, 0, 1, 2, 1))}

(* Two components of one contact and a chat.                               *)
MCHolds == "v1" :> "k1" @@ "v2" :> "k1" @@ "r1" :> "g1"
Luck(mounts, drops, failures, refusals) ==
    [mounts |-> mounts, drops |-> drops, failures |-> failures, refusals |-> refusals]
NoTab == Luck(0, 0, 0, 0)
MCChances == {NoTab, Luck(3, 2, 1, 1), Luck(4, 1, 0, 0)}

Kinds == {"save", "update", "discard", "add", "remove", "send", "expire"}
Asks(some) == [what \in Kinds |-> IF what \in DOMAIN some THEN some[what] ELSE 0]
NoPlan == Asks([add |-> 0])
MCPlans ==
    {NoPlan,
     Asks([add |-> 2, send |-> 1, save |-> 1, update |-> 1]),
     Asks([add |-> 2, send |-> 1, remove |-> 1, expire |-> 1]),
     Asks([add |-> 2, send |-> 1, discard |-> 1, save |-> 1])}

(* Two channels and a change of both; a contact that comes and goes; a     *)
(* deletion while channels change.                                         *)
Call(op, who, addr, isPrimary) == [op |-> op, who |-> who, addr |-> addr, isPrimary |-> isPrimary]
Row(id, addr, isPrimary) == [id |-> id, who |-> "c1", addr |-> addr, isPrimary |-> isPrimary]
Two == {Row(1, "a1", TRUE), Row(2, "a2", FALSE)}
NoCall == [rows |-> Two, open |-> {}, todo |-> {}]
MCBooks ==
    {NoCall,
     [NoCall EXCEPT !.todo = {Call("remove", "c1", "a1", FALSE), Call("remove", "c1", "a2", FALSE),
                              Call("primary", "c1", "a1", FALSE), Call("add", "c1", "a3", TRUE)}],
     [rows |-> {Row(1, "a1", TRUE)}, open |-> {"c1"},
      todo |-> {Call("resolve", "c1", "a2", FALSE), Call("resolve", "c2", "a2", FALSE),
                Call("create", "c1", "a2", FALSE), Call("delete", "c1", "a1", FALSE),
                Call("enquiry", "c1", "a1", FALSE)}],
     [NoCall EXCEPT !.todo = {Call("delete", "c1", "a1", FALSE), Call("resolve", "c1", "a3", FALSE),
                              Call("primary", "c1", "a2", FALSE), Call("add", "c1", "a3", FALSE)}]}

(* A body is a sequence of labels; see Templates for names.                *)
Name(n) == <<n, 0>>
Dto(name, type, body) == [name |-> name, type |-> type, body |-> body]
Edit(op, dto) == [op |-> op, id |-> 1, dto |-> dto]
Alone(shelved, asked0) == [stored |-> 1 :> shelved, todo |-> asked0]
NoEdit == Alone(Dto(Name("n1"), "WHATSAPP", <<"a", "b">>), {})
MCShelves ==
    {NoEdit,
     Alone(Dto(Name("n1"), "WHATSAPP", <<"a", "b", "a">>),
           {Edit("update", Dto(None, None, <<"b", Blank>>)),
            Edit("update", Dto(None, None, <<"a", "b", "a">>)),
            Edit("duplicate", Dto(None, None, None))}),
     Alone(Dto(Name("n1"), "INTERNAL", <<"a">>),
           {Edit("update", Dto(None, "WHATSAPP", None)),
            Edit("update", Dto(Name("n2"), None, <<"b", "a">>)),
            Edit("create", Dto(Name("n2"), "WHATSAPP", <<>>)),
            Edit("remove", Dto(None, None, None))}),
     [NoEdit EXCEPT !.todo =
           {Edit("update", Dto(None, None, <<"b", "a">>)),
            Edit("update", Dto(None, None, <<>>)),
            Edit("create", Dto(Name("n1"), "WHATSAPP", <<"b">>))}]}

(* An administrator u1, and one permission besides the right to everything. *)
Errand(op, by, list, id, role) == [op |-> op, by |-> by, list |-> list, id |-> id, role |-> role]
ReadContact == <<"read", "contact">>
NoErrand ==
    [perm |-> 1 :> <<"manage", "all">> @@ 2 :> ReadContact,
     grants |-> {[id |-> 1, role |-> "ADMIN", perm |-> 1], [id |-> 2, role |-> "SALES", perm |-> 2]},
     user |-> "u1" :> [role |-> "ADMIN", isActive |-> FALSE],
     todo |-> {}]
Day(asked0) == [NoErrand EXCEPT !.user["u1"].isActive = TRUE, !.todo = asked0]
MCOffices ==
    {NoErrand,
     Day({Errand("assign", "u1", <<2, 1>>, 0, "OPS"), Errand("assign", "u1", <<1>>, 0, "OPS"),
          Errand("drop", "u1", <<>>, 2, ""), Errand("move", "u1", <<>>, 2, "OPS"),
          Errand("clear", "u1", <<>>, 0, "OPS")}),
     Day({Errand("bundle", "u1", <<ReadContact, <<"update", "contact">>>>, 0, ""),
          Errand("rename", "u1", <<<<"update", None>>>>, 2, ""),
          Errand("unassign", "u1", <<>>, 2, "")}),
     Day({Errand("hire", "u1", <<>>, "u2", "SALES"), Errand("edit", "u1", <<>>, "u1", "OPS"),
          Errand("fire", "u1", <<>>, "u1", ""), Errand("clear", "u2", <<>>, 0, "OPS")})}

(* An e-mail and a WhatsApp connection, and changes of both; an empty page *)
(* and a modal opened twice, or left and lost.                             *)
MCAccounts == {<<"SENDGRID_EMAIL", 1>>, <<"SENDGRID_EMAIL", 2>>, <<"META_WHATSAPP", 1>>}
Connection(id, provider, state) == [id |-> id, account |-> <<provider, 1>>, status |-> state]
Connected == {Connection(1, "SENDGRID_EMAIL", "ACTIVE"), Connection(2, "META_WHATSAPP", "DISABLED")}
Clicks(toggles, deletes, modals, leaves, losses, others) ==
    [toggles |-> toggles, deletes |-> deletes, modals |-> modals,
     leaves |-> leaves, losses |-> losses, others |-> others]
NoClick == Clicks(0, 0, 0, 0, 0, 0)
Week(found, clicks) == [rows |-> found, left |-> clicks]
MCWeeks ==
    {Week({}, NoClick),
     Week(Connected, Clicks(2, 1, 0, 1, 0, 1)), Week(Connected, Clicks(1, 1, 0, 0, 1, 1)),
     Week({}, Clicks(1, 1, 2, 0, 0, 1)), Week({}, Clicks(1, 0, 1, 1, 1, 1))}

(* Three enquiries, one on a page: the first one, or the second.           *)
MCHits ==
    [k \in {"", "a"} \X {"all", "new"} |->
        (IF k[1] = "" THEN 1..3 ELSE {2, 3}) \ (IF k[2] = "all" THEN {} ELSE {3})]
Fields == {"types", "filters", "pages", "singles", "bulks", "ticks", "losses", "others"}
Visit(p, some) == [page |-> p, left |-> [what \in Fields |-> IF what \in DOMAIN some THEN some[what] ELSE 0]]
NoVisit == Visit(1, [types |-> 0])
MCVisits ==
    {NoVisit,
     Visit(1, [types |-> 2, filters |-> 2, pages |-> 2]),
     Visit(2, [types |-> 1, bulks |-> 1, ticks |-> 2, pages |-> 1, singles |-> 1]),
     Visit(2, [filters |-> 1, types |-> 1, singles |-> 2, losses |-> 1, others |-> 1])}

(* Three contacts, two on a page; the third has an enquiry.                *)
MCFound == "all" :> 1..3 @@ "a" :> {2}
Doings == {"filters", "pages", "ticks", "singles", "bulks", "opens", "changes", "creates",
           "ages", "losses", "others"}
Browse(some) == [what \in Doings |-> IF what \in DOMAIN some THEN some[what] ELSE 0]
NoBrowse == Browse([pages |-> 0])
MCBrowses ==
    {NoBrowse,
     Browse([pages |-> 2, ticks |-> 1, bulks |-> 1, changes |-> 1, opens |-> 1]),
     Browse([opens |-> 2, changes |-> 2, singles |-> 1, losses |-> 1]),
     Browse([pages |-> 2, singles |-> 1, filters |-> 1, creates |-> 1, losses |-> 1]),
     Browse([pages |-> 2, filters |-> 2, singles |-> 1, others |-> 1, ages |-> 1])}

(* Three templates: lists that fail, toasts that overlap, a form.          *)
Errands == {"choices", "uses", "deletes", "copies", "forms", "saves", "leaves", "losses", "others"}
Morning(some) ==
    [table |-> <<[id |-> 1, type |-> "INTERNAL", name |-> "a"], [id |-> 2, type |-> "INTERNAL", name |-> "b"],
                 [id |-> 3, type |-> "WHATSAPP", name |-> "a"]>>,
     left |-> [what \in Errands |-> IF what \in DOMAIN some THEN some[what] ELSE 0]]
NoMorning == [Morning([uses |-> 0]) EXCEPT !.table = <<>>]
MCMornings ==
    {NoMorning,
     Morning([choices |-> 1, deletes |-> 1, losses |-> 1]),
     Morning([uses |-> 1, copies |-> 1, others |-> 1]),
     Morning([forms |-> 1, saves |-> 1, leaves |-> 1, losses |-> 1]),
     Morning([deletes |-> 2, leaves |-> 1]), Morning([deletes |-> 1, losses |-> 3])}

NoLead == [what \in Happenings |-> 0]
MCLimits ==
    {NoLead,
     [created |-> 2, human |-> 1, customer |-> 0, closed |-> 0, restart |-> 1],
     [created |-> 1, human |-> 1, customer |-> 1, closed |-> 1, restart |-> 2]}

-----------------------------------------------------------------------------
replyVars == vars

(* One part has something to do; the others are at one initial state each. *)
Only(p, busy, idle) == busy = (p = part) /\ (~busy => idle)
OfficeInit ==
    /\ part \in {"replies", "window", "message", "ticks", "tab",
                 "drafts", "contacts", "templates", "access", "channels", "list", "people", "catalogue"}
    /\ Init /\ Only("replies", rest # NoLead, TRUE)
    /\ Window!Init /\ Only("window", left # NoRequests, thread = <<>>)
    /\ Message!Init /\ Only("message", chores # NoChat.left, ~row.pinned)
    /\ Ticks!Init /\ Only("ticks", evening # NoEvening.left, TRUE)
    /\ Tab!Init /\ Only("tab", chances # NoTab, TRUE)
    /\ Draft!Init /\ Only("drafts", todo # NoPlan, TRUE) /\ status["d1"] = "active"
    /\ Contact!Init /\ Only("contacts", calls # {}, rows = Two)
    /\ Template!Init /\ Only("templates", edits # {}, shelf[1].body = <<"a", "b">>)
    /\ Rights!Init /\ Only("access", errands # {}, ~user["u1"].isActive)
    /\ Channel!Init /\ Only("channels", week # NoClick, TRUE)
    /\ List!Init /\ Only("list", visit # NoVisit.left, TRUE)
    /\ Contacted!Init /\ Only("people", browse # NoBrowse, TRUE)
    /\ Catalogue!Init /\ Only("catalogue", wishes # NoMorning.left, TRUE)

(* A step of part p leaves the others alone.                               *)
Kept(p, of, itsVars) == IF p = of THEN TRUE ELSE UNCHANGED itsVars
Others(p) ==
    /\ UNCHANGED part
    /\ Kept(p, "replies", replyVars)
    /\ Kept(p, "window", windowVars)
    /\ Kept(p, "message", messageVars)
    /\ Kept(p, "ticks", tickVars)
    /\ Kept(p, "tab", tabVars)
    /\ Kept(p, "drafts", draftVars)
    /\ Kept(p, "contacts", contactVars)
    /\ Kept(p, "templates", templateVars)
    /\ Kept(p, "access", accessVars)
    /\ Kept(p, "channels", channelVars)
    /\ Kept(p, "list", listVars)
    /\ Kept(p, "people", peopleVars)
    /\ Kept(p, "catalogue", catalogueVars)
OfficeNext ==
    \/ part = "replies" /\ Next /\ Others("replies")
    \/ part = "window" /\ Window!Next /\ Others("window")
    \/ part = "message" /\ Message!Next /\ Others("message")
    \/ part = "ticks" /\ Ticks!Next /\ Others("ticks")
    \/ part = "tab" /\ Tab!Next /\ Others("tab")
    \/ part = "drafts" /\ Draft!Next /\ Others("drafts")
    \/ part = "contacts" /\ Contact!Next /\ Others("contacts")
    \/ part = "templates" /\ Template!Next /\ Others("templates")
    \/ part = "access" /\ Rights!Next /\ Others("access")
    \/ part = "channels" /\ Channel!Next /\ Others("channels")
    \/ part = "list" /\ List!Next /\ Others("list")
    \/ part = "people" /\ Contacted!Next /\ Others("people")
    \/ part = "catalogue" /\ Catalogue!Next /\ Others("catalogue")
officeVars == <<replyVars, windowVars, messageVars, tickVars, tabVars, draftVars, contactVars,
                templateVars, accessVars, channelVars, listVars, peopleVars, catalogueVars, part>>
OfficeSpec == OfficeInit /\ [][OfficeNext]_officeVars

-----------------------------------------------------------------------------
(* The variables of the part that runs keep to their types.                *)
TypesOK ==
    /\ part = "replies" => AutoReplyTypeOK
    /\ part = "window" => Window!TypeOK
    /\ part = "message" => Message!ChatMessagesTypeOK
    /\ part = "ticks" => Ticks!ChatReceiptsTypeOK
    /\ part = "tab" => Tab!ConnectionsTypeOK
    /\ part = "drafts" => Draft!DraftsTypeOK
    /\ part = "contacts" => Contact!ContactsTypeOK
    /\ part = "templates" => Template!TemplatesTypeOK
    /\ part = "access" => Rights!AccessTypeOK
    /\ part = "channels" => Channel!ChannelsTypeOK
    /\ part = "list" => List!EnquiryListTypeOK
    /\ part = "people" => Contacted!ContactsPageTypeOK
    /\ part = "catalogue" => Catalogue!TemplatesPageTypeOK
=============================================================================
