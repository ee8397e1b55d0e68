---------------------------- MODULE PagesProofs -----------------------------
(***************************************************************************)
(* Proofs about the pages of Screens: channels, enquiries, contacts and    *)
(* templates.  A section for each part: what it keeps, a lemma for each    *)
(* kind of step, and the theorems.                                         *)
(***************************************************************************)
EXTENDS Screens, FiniteSetTheorems, WellFoundedInduction, TLAPS

-----------------------------------------------------------------------------
(***************************************************************************)
(* Channels.                                                               *)
(***************************************************************************)
Serving == desk["here"]
Held(id) == {r \in cards : r.id = id}
InTable(id) == {r \in links : r.id = id}
Answered == Serving # Channel!Free /\ Serving.mine /\ Serving.at = "ok"
(* Connections made that the page will add when the modal has told.        *)
Announced ==
    {pacing[i].row : i \in DOMAIN pacing} \cup
    IF Answered /\ Serving.op = "create" THEN {Serving.row} ELSE {}
Coming(id) == {r \in Announced : r.id = id}
(* What the page will show of an id when it has done what it was told.     *)
Expected(id) ==
    IF Answered /\ Serving.op = "status" /\ Serving.id = id THEN {Serving.row}
    ELSE IF Answered /\ Serving.op = "remove" /\ Serving.id = id THEN {}
    ELSE Held(id) \cup Coming(id)
PageFollows == onPage => \A id \in linkIds \ unseen : Expected(id) = InTable(id)

(* A call of the page is about a row it shows, or about one that is gone.  *)
About(c) ==
    /\ c.mine => c.op # "update"
    /\ c.mine /\ c.op \in {"status", "remove"} =>
        /\ c.id \in linkIds
        /\ Held(c.id) # {} \/ InTable(c.id) = {}
        /\ Coming(c.id) = {}
        /\ c.op = "status" /\ c.at = "ok" => Held(c.id) # {}
        /\ c.op = "remove" /\ c.at = "ok" => InTable(c.id) = {}
LineAbout == \A i \in DOMAIN line : About(line[i])
ServingAbout == Serving # Channel!Free => About(Serving)
CallsAbout == LineAbout /\ ServingAbout
(* A connection is announced once, before the page shows it.               *)
ComingOnce ==
    /\ \A id \in linkIds : Coming(id) # {} => Held(id) = {}
    /\ \A i, j \in DOMAIN pacing : pacing[i].row.id = pacing[j].row.id => i = j
    /\ Answered /\ Serving.op = "create" =>
        \A i \in DOMAIN pacing : pacing[i].row.id # Serving.row.id
NobodyHere ==
    ~onPage =>
        /\ cards = {} /\ pacing = <<>> /\ modal.step = "closed"
        /\ \A i \in DOMAIN line : ~line[i].mine
        /\ Serving # Channel!Free => ~Serving.mine
Queued ==
    [op : {"create", "status", "remove"}, id : Nat, account : Accounts \cup {Nothing},
     status : Channel!States, n : Nat, mine : BOOLEAN, at : {"start"}, row : {Nothing}]
Served ==
    [op : {"create", "status", "update", "remove"}, id : Nat, account : Accounts \cup {Nothing},
     status : Channel!States, n : Nat, mine : BOOLEAN, at : {"start", "write", "ok", "failed"},
     row : Channel!Row \cup {Nothing}]
CallOK(c) ==
    /\ c.op \in {"create", "update"} => c.account \in Accounts
    /\ c.op \in {"create", "status"} /\ c.at = "ok" => c.row \in Channel!Row /\ c.row.id \in linkIds
    /\ c.op = "status" /\ c.at = "ok" => c.row.id = c.id
LineTyped == line \in Seq(Queued) /\ \A i \in DOMAIN line : CallOK(line[i])
DeskTyped ==
    /\ DOMAIN desk = {"here", "elsewhere"}
    /\ \A h \in {"here", "elsewhere"} : desk[h] # Channel!Free => desk[h] \in Served /\ CallOK(desk[h])
Paused == [row : Channel!Row, n : Nat]
PacingTyped ==
    /\ pacing \in Seq(Paused)
    /\ \A i \in DOMAIN pacing : pacing[i].row.id \in linkIds
TableTyped ==
    /\ links \cup cards \subseteq Channel!Row /\ {r.id : r \in links \cup cards} \subseteq linkIds
    /\ \A q, r \in links : q.id = r.id \/ q.account = r.account => q = r
    /\ linkIds = 1..Cardinality(linkIds) /\ Cardinality(linkIds) \in Nat
    /\ linkIds \subseteq ChannelIds /\ unseen \subseteq linkIds
PageTyped ==
    /\ onPage \in BOOLEAN /\ DOMAIN week = Channel!Happenings
    /\ modal \in [n : Nat, step : {"closed", "form", "verifying", "failed", "success"}]
ChannelsTyped == LineTyped /\ DeskTyped /\ PacingTyped /\ TableTyped /\ PageTyped
ChannelsInv == ChannelsTyped /\ PageFollows /\ CallsAbout /\ ComingOnce /\ NobodyHere

LEMMA ChannelSets ==
    /\ \A S : Channel!Cardinality(S) = Cardinality(S)
    /\ \A S : Channel!IsFiniteSet(S) = IsFiniteSet(S)
BY DEF Channel!Cardinality, Cardinality, Channel!IsFiniteSet, IsFiniteSet

LEMMA ChannelsInit == Channel!WeeksOK /\ Channel!Init => ChannelsInv
<1> SUFFICES ASSUME Channel!WeeksOK, Channel!Init PROVE ChannelsInv
  OBVIOUS
<1>1. PICK w \in Weeks : links = w.rows /\ cards = w.rows /\ linkIds = {r.id : r \in w.rows} /\ week = w.left
  BY DEF Channel!Init
<1>2. /\ onPage = TRUE /\ unseen = {} /\ modal = [n |-> 0, step |-> "closed"]
      /\ line = <<>> /\ pacing = <<>> /\ desk = [h \in {"here", "elsewhere"} |-> Channel!Free]
  BY DEF Channel!Init
<1>3. /\ links \subseteq Channel!Row /\ IsFiniteSet(links) /\ linkIds = 1..Cardinality(links)
      /\ \A q, r \in links : q.id = r.id \/ q.account = r.account => q = r
      /\ DOMAIN week = Channel!Happenings
  BY <1>1, ChannelSets DEF Channel!WeeksOK
<1>4. linkIds = 1..Cardinality(linkIds) /\ Cardinality(linkIds) \in Nat
  <2>1. Cardinality(links) \in Nat
    BY <1>3, FS_CardinalityType
  <2> QED BY <1>3, <2>1, FS_Interval
<1>5. \A r \in links : r.id \in linkIds /\ r.id \in ChannelIds
  BY <1>1, <1>3 DEF Channel!Row
<1>6. TableTyped
  BY <1>1, <1>2, <1>3, <1>4, <1>5 DEF TableTyped
<1>7. LineTyped /\ DeskTyped /\ PacingTyped /\ PageTyped
  BY <1>2, <1>3 DEF LineTyped, DeskTyped, PacingTyped, PageTyped
<1>8. ~Answered /\ Announced = {}
  BY <1>2 DEF Answered, Serving, Announced
<1>9. PageFollows /\ CallsAbout /\ ComingOnce /\ NobodyHere
  BY <1>1, <1>2, <1>8 DEF PageFollows, Expected, Held, InTable, Coming, CallsAbout, LineAbout, ServingAbout, Serving, ComingOnce, NobodyHere
<1> QED BY <1>6, <1>7, <1>9 DEF ChannelsInv, ChannelsTyped

-----------------------------------------------------------------------------
tableAndPage == <<links, linkIds, cards, pacing, onPage, unseen>>

LEMMA AboutStays ==
    ASSUME UNCHANGED tableAndPage, Announced' = Announced, NEW c, About(c)
    PROVE  About(c)'
BY DEF tableAndPage, About, Coming, Held, InTable

(* A step that changes calls only, and none of those that were answered.   *)
LEMMA CallsMove ==
    ASSUME ChannelsInv, UNCHANGED tableAndPage,
           Serving' = Serving \/ (~Answered /\ ~Answered'),
           LineTyped', DeskTyped', PageTyped', NobodyHere',
           LineAbout', Serving' = Serving \/ ServingAbout'
    PROVE  ChannelsInv'
<1>1. /\ Announced' = Announced /\ Answered' = Answered
      /\ \A id : Coming(id)' = Coming(id) /\ Held(id)' = Held(id) /\ InTable(id)' = InTable(id)
      /\ \A id : Expected(id)' = Expected(id)
  BY DEF tableAndPage, Announced, Answered, Coming, Held, InTable, Expected, Serving
<1>2. PageFollows'
  BY <1>1 DEF tableAndPage, ChannelsInv, PageFollows
<1>3. CallsAbout'
  <2>1. CASE Serving' = Serving
    <3>1. PICK c : c = Serving
      OBVIOUS
    <3>2. c # Channel!Free => About(c)'
      BY <1>1, <3>1, AboutStays DEF ChannelsInv, CallsAbout, ServingAbout
    <3>3. ServingAbout'
      BY <2>1, <3>1, <3>2 DEF ServingAbout
    <3> QED BY <3>3 DEF CallsAbout
  <2> QED BY <2>1 DEF CallsAbout
<1>4. ComingOnce'
  BY <1>1 DEF tableAndPage, ChannelsInv, ComingOnce, Answered
<1>5. PacingTyped' /\ TableTyped'
  BY DEF tableAndPage, ChannelsInv, ChannelsTyped, PacingTyped, TableTyped
<1> QED BY <1>2, <1>3, <1>4, <1>5 DEF ChannelsInv, ChannelsTyped

-----------------------------------------------------------------------------
(* The page.                                                               *)
LEMMA AskOK ==
    ASSUME ChannelsInv, NEW c \in Queued, CallOK(c), About(c), line' = Append(line, c),
           UNCHANGED tableAndPage, UNCHANGED desk, onPage, PageTyped'
    PROVE  ChannelsInv'
<1>1. line \in Seq(Queued) /\ \A i \in DOMAIN line : CallOK(line[i]) /\ About(line[i])
  BY DEF ChannelsInv, ChannelsTyped, LineTyped, CallsAbout, LineAbout
<1>2. /\ line' \in Seq(Queued)
      /\ \A i \in DOMAIN line' : (i \in DOMAIN line /\ line'[i] = line[i]) \/ line'[i] = c
  BY <1>1
<1>3. Serving' = Serving /\ Announced' = Announced
  BY DEF tableAndPage, Serving, Announced, Answered
<1>4. LineTyped'
  BY <1>1, <1>2 DEF LineTyped, CallOK, tableAndPage
<1>5. LineAbout'
  <2>1. \A i \in DOMAIN line' : About(line'[i])
    BY <1>1, <1>2
  <2> QED BY <1>3, <2>1, AboutStays DEF LineAbout
<1>6. DeskTyped'
  BY DEF ChannelsInv, ChannelsTyped, DeskTyped, CallOK, tableAndPage
<1>7. NobodyHere'
  BY DEF NobodyHere, tableAndPage
<1> QED BY <1>3, <1>4, <1>5, <1>6, <1>7, CallsMove

LEMMA RowShown ==
    ASSUME ChannelsInv, NEW r \in cards
    PROVE  /\ r.id \in linkIds /\ r.id \in Nat /\ r.status \in Channel!States
           /\ Held(r.id) # {} /\ Coming(r.id) = {}
<1>1. r.id \in linkIds /\ r \in Channel!Row /\ linkIds = 1..Cardinality(linkIds) /\ Cardinality(linkIds) \in Nat
  BY DEF ChannelsInv, ChannelsTyped, TableTyped
<1>2. Held(r.id) # {}
  BY DEF Held
<1> QED BY <1>1, <1>2 DEF ChannelsInv, ComingOnce, Channel!Row

LEMMA ClicksOK ==
    ASSUME ChannelsInv, NEW r \in cards, Channel!HandleToggle(r) \/ Channel!HandleDelete(r)
    PROVE  ChannelsInv'
<1>1. /\ r.id \in linkIds /\ r.id \in Nat /\ r.status \in Channel!States
      /\ Held(r.id) # {} /\ Coming(r.id) = {}
  BY RowShown
<1>2. PICK op \in {"status", "remove"}, s \in Channel!States :
        line' = Append(line, Channel!Call(op, r.id, Nothing, s, 0))
  <2>1. CASE Channel!HandleToggle(r)
    <3>1. PICK s : s = IF r.status = "ACTIVE" THEN "DISABLED" ELSE "ACTIVE"
      OBVIOUS
    <3>2. s \in Channel!States /\ line' = Append(line, Channel!Call("status", r.id, Nothing, s, 0))
      BY <2>1, <3>1 DEF Channel!HandleToggle, Channel!Ask, Channel!States
    <3> QED BY <3>2
  <2>2. CASE Channel!HandleDelete(r)
    BY <1>1, <2>2 DEF Channel!HandleDelete, Channel!Ask
  <2> QED BY <2>1, <2>2
<1>3. UNCHANGED tableAndPage /\ UNCHANGED desk /\ onPage /\ PageTyped'
  <2>1. /\ UNCHANGED <<links, linkIds, unseen, desk, onPage, cards, modal, pacing>> /\ onPage
        /\ \E what : week' = [week EXCEPT ![what] = @ - 1]
    BY DEF Channel!HandleToggle, Channel!HandleDelete, Channel!Offered, Channel!table, Channel!Spend
  <2>2. PageTyped
    BY DEF ChannelsInv, ChannelsTyped
  <2> QED BY <2>1, <2>2 DEF PageTyped, tableAndPage
<1>4. PICK c : c = Channel!Call(op, r.id, Nothing, s, 0)
  OBVIOUS
<1>5. /\ c.mine /\ c.op \in {"status", "remove"} /\ c.id = r.id /\ c.at = "start"
      /\ c \in Queued /\ line' = Append(line, c)
  BY <1>1, <1>2, <1>4 DEF Channel!Call, Queued
<1>6. CallOK(c) /\ About(c)
  BY <1>1, <1>5 DEF CallOK, About
<1> QED BY <1>3, <1>5, <1>6, AskOK

(* The modal: it asks for a connection, opens and closes.                  *)
LEMMA ModalOK ==
    ASSUME ChannelsInv,
           Channel!OpenModal \/ Channel!CloseModal \/ Channel!GoBack \/ Channel!HandleConnect
    PROVE  ChannelsInv'
<1>1. /\ UNCHANGED tableAndPage /\ UNCHANGED desk
      /\ onPage \/ (Channel!CloseModal \/ Channel!GoBack)
  BY DEF Channel!OpenModal, Channel!CloseModal, Channel!GoBack, Channel!HandleConnect, Channel!table,
         tableAndPage, ChannelsInv, NobodyHere
<1>2. PageTyped'
  <2>1. PageTyped
    BY DEF ChannelsInv, ChannelsTyped
  <2>2. CASE Channel!OpenModal
    BY <2>1, <2>2 DEF PageTyped, Channel!OpenModal, Channel!Spend
  <2>3. CASE Channel!CloseModal \/ Channel!GoBack
    BY <2>1, <2>3 DEF PageTyped, Channel!CloseModal, Channel!GoBack
  <2>4. CASE Channel!HandleConnect
    BY <2>1, <2>4 DEF PageTyped, Channel!HandleConnect
  <2> QED BY <2>2, <2>3, <2>4
<1>3. CASE Channel!HandleConnect
  <2>1. PICK a \in Accounts : line' = Append(line, Channel!Call("create", 0, a, "ACTIVE", modal.n))
    BY <1>3 DEF Channel!HandleConnect, Channel!Ask, Channel!Form
  <2>2. PICK c : c = Channel!Call("create", 0, a, "ACTIVE", modal.n)
    OBVIOUS
  <2>3. modal.n \in Nat
    BY DEF ChannelsInv, ChannelsTyped, PageTyped
  <2>4. c \in Queued /\ c.op = "create" /\ c.account \in Accounts /\ c.at = "start"
    BY <2>1, <2>2, <2>3 DEF Channel!Call, Queued, Channel!States
  <2>5. CallOK(c) /\ About(c)
    BY <2>4 DEF CallOK, About
  <2>6. onPage
    BY <1>3 DEF Channel!HandleConnect, ChannelsInv, NobodyHere
  <2> QED BY <1>1, <1>2, <1>3, <2>1, <2>2, <2>4, <2>5, <2>6, AskOK
<1>4. CASE ~Channel!HandleConnect
  <2>1. UNCHANGED line /\ (~onPage => modal'.step = "closed")
    BY <1>4 DEF Channel!OpenModal, Channel!CloseModal, Channel!GoBack, ChannelsInv, NobodyHere,
                ChannelsTyped, PageTyped, Channel!HasFailedStep
  <2>2. LineTyped' /\ DeskTyped'
    BY <1>1, <2>1 DEF ChannelsInv, ChannelsTyped, LineTyped, DeskTyped, CallOK, tableAndPage
  <2>3. Serving' = Serving /\ Announced' = Announced
    BY <1>1 DEF tableAndPage, Serving, Announced, Answered
  <2>4. LineAbout'
    BY <1>1, <2>1, <2>3, AboutStays DEF ChannelsInv, CallsAbout, LineAbout
  <2>5. NobodyHere'
    BY <1>1, <2>1, <2>3 DEF ChannelsInv, NobodyHere, tableAndPage
  <2> QED BY <1>1, <1>2, <2>2, <2>3, <2>4, <2>5, CallsMove
<1> QED BY <1>3, <1>4

-----------------------------------------------------------------------------
(* The back end: a call goes on, or fails.                                 *)
GoesOnHere(c) ==
    /\ Serving # Channel!Free /\ Serving.at # "ok" /\ c.at # "ok" /\ c # Channel!Free
    /\ c.op = Serving.op /\ c.id = Serving.id /\ c.mine = Serving.mine
LEMMA DeskOK ==
    ASSUME ChannelsInv, NEW h \in {"here", "elsewhere"}, NEW c, desk' = [desk EXCEPT ![h] = c],
           UNCHANGED tableAndPage, UNCHANGED <<line, modal>>, DOMAIN week' = Channel!Happenings,
           c = Channel!Free \/ (c \in Served /\ CallOK(c)),
           h = "here" => GoesOnHere(c)
    PROVE  ChannelsInv'
<1>1. DeskTyped'
  BY DEF ChannelsInv, ChannelsTyped, DeskTyped, CallOK, tableAndPage
<1>2. LineTyped' /\ PageTyped'
  BY DEF ChannelsInv, ChannelsTyped, LineTyped, PageTyped, CallOK, tableAndPage
<1>3. h # "here" => Serving' = Serving
  BY DEF ChannelsInv, ChannelsTyped, DeskTyped, Serving
<1>4. h = "here" => Serving' = c /\ ~Answered /\ ~Answered'
  BY DEF ChannelsInv, ChannelsTyped, DeskTyped, Serving, Answered, GoesOnHere
<1>5. Announced' = Announced
  BY <1>3, <1>4 DEF Announced, Answered, tableAndPage
<1>6. LineAbout'
  BY <1>5, AboutStays DEF ChannelsInv, CallsAbout, LineAbout
<1>7. CASE h = "here"
  <2>1. About(c)
    BY <1>7 DEF ChannelsInv, CallsAbout, ServingAbout, About, GoesOnHere
  <2>2. About(c)'
    BY <1>5, <2>1, AboutStays
  <2>3. ServingAbout'
    BY <1>4, <1>7, <2>2 DEF ServingAbout
  <2>4. NobodyHere'
    BY <1>4, <1>7 DEF ChannelsInv, NobodyHere, tableAndPage, GoesOnHere
  <2> QED BY <1>1, <1>2, <1>4, <1>6, <1>7, <2>3, <2>4, CallsMove
<1>8. CASE h # "here"
  <2>1. NobodyHere'
    BY <1>3, <1>8 DEF ChannelsInv, NobodyHere, tableAndPage
  <2> QED BY <1>1, <1>2, <1>3, <1>6, <1>8, <2>1, CallsMove
<1> QED BY <1>7, <1>8

(* What a call in the back end is like.                                    *)
LEMMA DeskAt ==
    ASSUME ChannelsInv, NEW h \in {"here", "elsewhere"}, desk[h] # Channel!Free
    PROVE  desk[h] \in Served /\ CallOK(desk[h])
BY DEF ChannelsInv, ChannelsTyped, DeskTyped

LEMMA GoOK ==
    ASSUME ChannelsInv, NEW h \in {"here", "elsewhere"}, desk[h] # Channel!Free, desk[h].at \in {"start", "write"},
           UNCHANGED tableAndPage, UNCHANGED <<line, modal>>, DOMAIN week' = Channel!Happenings,
           Channel!Go(h, "write") \/ Channel!Reply(h, "failed", Nothing)
    PROVE  ChannelsInv'
<1>1. desk[h] \in Served /\ CallOK(desk[h])
  BY DeskAt
<1>2. CASE Channel!Go(h, "write")
  <2>1. PICK c : c = [desk[h] EXCEPT !.at = "write"]
    OBVIOUS
  <2>2. desk' = [desk EXCEPT ![h] = c]
    BY <1>2, <2>1 DEF Channel!Go
  <2>3. c \in Served /\ c.at = "write" /\ c.op = desk[h].op /\ c.id = desk[h].id /\ c.mine = desk[h].mine
        /\ c.account = desk[h].account
    BY <1>1, <2>1 DEF Served
  <2>4. CallOK(c)
    BY <1>1, <2>3 DEF CallOK
  <2>5. h = "here" => GoesOnHere(c)
    BY <1>1, <2>3 DEF GoesOnHere, Serving, Served, Channel!Free
  <2> QED BY <2>2, <2>3, <2>4, <2>5, DeskOK
<1>3. CASE Channel!Reply(h, "failed", Nothing)
  <2>1. CASE h = "elsewhere"
    <3>1. desk' = [desk EXCEPT ![h] = Channel!Free]
      BY <1>3, <2>1 DEF Channel!Reply
    <3> QED BY <2>1, <3>1, DeskOK
  <2>2. CASE h = "here"
    <3>1. PICK c : c = [desk[h] EXCEPT !.at = "failed", !.row = Nothing]
      OBVIOUS
    <3>2. desk' = [desk EXCEPT ![h] = c]
      BY <1>3, <2>2, <3>1 DEF Channel!Reply
    <3>3. c \in Served /\ c.at = "failed" /\ c.op = desk[h].op /\ c.id = desk[h].id /\ c.mine = desk[h].mine
          /\ c.account = desk[h].account
      BY <1>1, <3>1 DEF Served
    <3>4. CallOK(c)
      BY <1>1, <3>3 DEF CallOK
    <3>5. GoesOnHere(c)
      BY <1>1, <2>2, <3>3 DEF GoesOnHere, Serving, Served, Channel!Free
    <3> QED BY <3>2, <3>3, <3>4, <3>5, DeskOK
  <2> QED BY <2>1, <2>2
<1> QED BY <1>2, <1>3

LEMMA FailsOK ==
    ASSUME ChannelsInv, NEW h \in {"here", "elsewhere"}, desk[h] # Channel!Free, desk[h].at = "write",
           Channel!Fail(h), UNCHANGED <<onPage, cards, busyId, modal, line, pacing, week>>
    PROVE  ChannelsInv'
<1>1. UNCHANGED tableAndPage /\ DOMAIN week' = Channel!Happenings /\ Channel!Reply(h, "failed", Nothing)
  BY DEF Channel!Fail, tableAndPage, ChannelsInv, ChannelsTyped, PageTyped
<1> QED BY <1>1, GoOK

LEMMA LookOK ==
    ASSUME ChannelsInv, NEW h \in {"here", "elsewhere"},
           Channel!Validate(h) \/ Channel!FindOneOrThrow(h) \/ (h = "here" /\ Channel!Refuse)
    PROVE  ChannelsInv'
<1>1. /\ desk[h] # Channel!Free /\ desk[h].at \in {"start", "write"}
      /\ UNCHANGED <<links, linkIds, unseen, onPage, cards, busyId, modal, line, pacing>>
      /\ Channel!Go(h, "write") \/ Channel!Reply(h, "failed", Nothing)
  BY DEF Channel!Validate, Channel!FindOneOrThrow, Channel!Refuse, Channel!Serving, Channel!table, Channel!screen
<1>2. UNCHANGED week \/ \E what : week' = [week EXCEPT ![what] = @ - 1]
  BY DEF Channel!Validate, Channel!FindOneOrThrow, Channel!Refuse, Channel!Spend
<1>3. DOMAIN week' = Channel!Happenings
  BY <1>2 DEF ChannelsInv, ChannelsTyped, PageTyped
<1> QED BY <1>1, <1>3, GoOK DEF tableAndPage

LEMMA ElsewhereOK == ASSUME ChannelsInv, Channel!Elsewhere PROVE ChannelsInv'
<1>1. /\ UNCHANGED <<links, linkIds, unseen, onPage, cards, busyId, modal, line, pacing>>
      /\ week' = [week EXCEPT !["others"] = @ - 1]
  BY DEF Channel!Elsewhere, Channel!table, Channel!screen, Channel!Spend
<1>2. PICK c \in Channel!OthersAsk : desk' = [desk EXCEPT !["elsewhere"] = c]
  BY DEF Channel!Elsewhere
<1>3. \A i \in linkIds : i \in Nat
  BY DEF ChannelsInv, ChannelsTyped, TableTyped
<1>4. c \in Served /\ CallOK(c)
  <2>1. CASE c \in {Channel!Call("create", 0, a, "ACTIVE", 0) : a \in Accounts}
    <3>1. PICK a \in Accounts : c = Channel!Call("create", 0, a, "ACTIVE", 0)
      BY <2>1
    <3> QED BY <3>1 DEF Channel!Call, Served, CallOK, Channel!States
  <2>2. CASE c \in {Channel!Call("update", i, a, "ACTIVE", 0) : i \in linkIds, a \in Channel!EmailAccounts}
    <3>1. PICK i \in linkIds, a \in Accounts : c = Channel!Call("update", i, a, "ACTIVE", 0)
      BY <2>2 DEF Channel!EmailAccounts
    <3> QED BY <1>3, <3>1 DEF Channel!Call, Served, CallOK, Channel!States
  <2>3. CASE c \in {Channel!Call("status", i, Nothing, s, 0) : i \in linkIds, s \in Channel!States}
    <3>1. PICK i \in linkIds, s \in Channel!States : c = Channel!Call("status", i, Nothing, s, 0)
      BY <2>3
    <3> QED BY <1>3, <3>1 DEF Channel!Call, Served, CallOK
  <2>4. CASE c \in {Channel!Call("remove", i, Nothing, "ACTIVE", 0) : i \in linkIds}
    <3>1. PICK i \in linkIds : c = Channel!Call("remove", i, Nothing, "ACTIVE", 0)
      BY <2>4
    <3> QED BY <1>3, <3>1 DEF Channel!Call, Served, CallOK, Channel!States
  <2> QED BY <2>1, <2>2, <2>3, <2>4 DEF Channel!OthersAsk
<1>5. DOMAIN week' = Channel!Happenings
  BY <1>1 DEF ChannelsInv, ChannelsTyped, PageTyped
<1> QED BY <1>1, <1>2, <1>4, <1>5, DeskOK DEF tableAndPage

(* The tab sends the next call.                                            *)
LEMMA DispatchOK == ASSUME ChannelsInv, Channel!Dispatch PROVE ChannelsInv'
<1>1. PICK c : c = line[1]
  OBVIOUS
<1>2. /\ Serving = Channel!Free /\ line # <<>> /\ desk' = [desk EXCEPT !["here"] = c] /\ line' = Tail(line)
      /\ UNCHANGED <<links, linkIds, unseen, onPage, cards, busyId, modal, pacing, week>>
  BY <1>1 DEF Channel!Dispatch, Channel!table, Serving
<1>3. line \in Seq(Queued) /\ \A i \in DOMAIN line : CallOK(line[i]) /\ About(line[i])
  BY DEF ChannelsInv, ChannelsTyped, LineTyped, CallsAbout, LineAbout
<1>4. c \in Queued /\ CallOK(c) /\ About(c)
  BY <1>1, <1>2, <1>3
<1>5. line' \in Seq(Queued) /\ \A i \in DOMAIN line' : i + 1 \in DOMAIN line /\ line'[i] = line[i + 1]
  BY <1>2, <1>3
<1>6. Serving' = c /\ c.at = "start" /\ c \in Served
  BY <1>2, <1>4 DEF ChannelsInv, ChannelsTyped, DeskTyped, Serving, Queued, Served
<1>7. ~Answered /\ ~Answered' /\ Announced' = Announced /\ UNCHANGED tableAndPage
  BY <1>2, <1>6 DEF Answered, Announced, tableAndPage
<1>8. LineTyped' /\ DeskTyped' /\ PageTyped'
  BY <1>2, <1>3, <1>4, <1>5, <1>6 DEF ChannelsInv, ChannelsTyped, LineTyped, DeskTyped, PageTyped, CallOK
<1>9. LineAbout'
  <2>1. \A i \in DOMAIN line' : About(line'[i])
    BY <1>3, <1>5
  <2> QED BY <1>7, <2>1, AboutStays DEF LineAbout
<1>10. ServingAbout'
  <2>1. About(c)'
    BY <1>4, <1>7, AboutStays
  <2> QED BY <1>6, <2>1 DEF ServingAbout
<1>11. NobodyHere'
  <2>1. ~onPage => ~c.mine /\ \A i \in DOMAIN line' : ~line'[i].mine
    BY <1>1, <1>2, <1>3, <1>5 DEF ChannelsInv, NobodyHere
  <2> QED BY <1>2, <1>6, <2>1 DEF ChannelsInv, NobodyHere
<1> QED BY <1>7, <1>8, <1>9, <1>10, <1>11, CallsMove

-----------------------------------------------------------------------------
(* The table.  A step that changes the row of one id, and no page.         *)
screenOfPage == <<onPage, cards, busyId, modal, line, pacing, week>>
LEMMA TableOK ==
    ASSUME ChannelsInv, NEW id, UNCHANGED screenOfPage, linkIds \subseteq linkIds', linkIds' \subseteq linkIds \cup {id},
           TableTyped', DeskTyped', ServingAbout', NobodyHere', ComingOnce',
           \A j \in linkIds \ {id} : InTable(j)' = InTable(j) /\ Expected(j)' = Expected(j),
           \A j \in linkIds : Coming(j)' = Coming(j),
           unseen \subseteq unseen' \cup {id},
           id \in unseen' \/ Expected(id)' = InTable(id)',
           id \notin linkIds \/ InTable(id)' = {} \/ InTable(id) # {}
    PROVE  ChannelsInv'
<1>1. LineTyped' /\ PacingTyped' /\ PageTyped'
  BY DEF screenOfPage, ChannelsInv, ChannelsTyped, LineTyped, PacingTyped, PageTyped, CallOK
<1>2. PageFollows'
  <2> SUFFICES ASSUME onPage, NEW j \in linkIds' \ unseen' PROVE Expected(j)' = InTable(j)'
    BY DEF PageFollows, screenOfPage
  <2>1. CASE j = id
    BY <2>1
  <2>2. CASE j # id
    <3>1. j \in linkIds \ unseen
      BY <2>2
    <3>2. Expected(j) = InTable(j)
      BY <3>1 DEF ChannelsInv, PageFollows
    <3> QED BY <2>2, <3>1, <3>2
  <2> QED BY <2>1, <2>2
<1>3. LineAbout'
  <2> SUFFICES ASSUME NEW i \in DOMAIN line PROVE About(line[i])'
    BY DEF LineAbout, screenOfPage
  <2>1. About(line[i])
    BY DEF ChannelsInv, CallsAbout, LineAbout
  <2>2. \A j : Held(j)' = Held(j)
    BY DEF Held, screenOfPage
  <2>3. line[i] = line'[i]
    BY DEF screenOfPage
  <2>4. PICK c : c = line[i]
    OBVIOUS
  <2>5. CASE c.id = id
    BY <2>1, <2>2, <2>3, <2>4, <2>5 DEF About
  <2>6. CASE c.id # id
    BY <2>1, <2>2, <2>3, <2>4, <2>6 DEF About
  <2> QED BY <2>5, <2>6
<1> QED BY <1>1, <1>2, <1>3 DEF ChannelsInv, ChannelsTyped, CallsAbout

(* A call the page does not wait for.                                      *)
LEMMA OthersOK ==
    ASSUME ChannelsInv, NEW id, UNCHANGED screenOfPage, linkIds \subseteq linkIds', linkIds' \subseteq linkIds \cup {id},
           TableTyped', DeskTyped', unseen' = unseen \cup {id},
           Serving' = Serving \/ (Serving' # Channel!Free /\ Serving # Channel!Free /\ ~Serving.mine /\ ~Serving'.mine),
           \A j \in linkIds \ {id} : InTable(j)' = InTable(j),
           id \notin linkIds \/ InTable(id)' = {} \/ InTable(id) # {}
    PROVE  ChannelsInv'
<1>1. Announced' = Announced /\ Answered' = Answered /\ \A j : Held(j)' = Held(j) /\ Coming(j)' = Coming(j)
  BY DEF Announced, Answered, Held, Coming, screenOfPage
<1>2. \A j : Expected(j)' = Expected(j)
  BY <1>1 DEF Expected, Answered
<1>3. ServingAbout'
  <2>1. CASE Serving' = Serving
    <3>1. PICK c : c = Serving
      OBVIOUS
    <3>2. ServingAbout
      BY DEF ChannelsInv, CallsAbout
    <3> QED BY <1>1, <2>1, <3>1, <3>2 DEF ServingAbout, About
  <2>2. CASE Serving' # Serving
    BY <2>2 DEF ServingAbout, About
  <2> QED BY <2>1, <2>2
<1>4. NobodyHere'
  BY DEF ChannelsInv, NobodyHere, screenOfPage
<1>5. ComingOnce'
  <2>1. \A j \in linkIds' : Coming(j) # {} => Held(j) = {}
    <3>1. \A j : j \notin linkIds => Coming(j) = {}
      BY DeskAt DEF Coming, Announced, ChannelsInv, ChannelsTyped, PacingTyped, Serving, Answered, CallOK
    <3> QED BY <3>1 DEF ChannelsInv, ComingOnce
  <2> QED BY <1>1, <2>1 DEF ChannelsInv, ComingOnce, screenOfPage, Answered
<1> QED BY <1>1, <1>2, <1>3, <1>4, <1>5, TableOK

(* What the back end answers, as DeskTyped wants it.                       *)
LEMMA ReplyTyped ==
    ASSUME ChannelsInv, NEW h \in {"here", "elsewhere"}, desk[h] # Channel!Free, NEW entry,
           Channel!Reply(h, "ok", entry), linkIds \subseteq linkIds',
           entry = Nothing \/ entry \in Channel!Row,
           desk[h].op # "remove" => entry \in Channel!Row /\ entry.id \in linkIds',
           desk[h].op = "status" => entry.id = desk[h].id
    PROVE  /\ DeskTyped'
           /\ h = "elsewhere" => Serving' = Serving
           /\ h = "here" =>
                /\ Serving' # Channel!Free /\ Serving'.mine = Serving.mine /\ Serving'.op = Serving.op
                /\ Serving'.id = Serving.id /\ Serving'.at = "ok" /\ Serving'.row = entry
<1>1. desk[h] \in Served /\ CallOK(desk[h])
  BY DeskAt
<1>2. PICK c : c = [desk[h] EXCEPT !.at = "ok", !.row = entry]
  OBVIOUS
<1>3. /\ c \in Served /\ c.at = "ok" /\ c.row = entry /\ c.op = desk[h].op /\ c.id = desk[h].id
      /\ c.mine = desk[h].mine /\ c.account = desk[h].account /\ c # Channel!Free
  BY <1>1, <1>2 DEF Served, Channel!Free
<1>4. CallOK(c)'
  BY <1>1, <1>3 DEF CallOK, Served
<1>5. \A k \in {"here", "elsewhere"} : desk[k] # Channel!Free => desk[k] \in Served /\ CallOK(desk[k])
  BY DeskAt
<1>6. DOMAIN desk = {"here", "elsewhere"}
  BY DEF ChannelsInv, ChannelsTyped, DeskTyped
<1>7. CASE h = "elsewhere"
  <2>1. desk' = [desk EXCEPT ![h] = Channel!Free]
    BY <1>7 DEF Channel!Reply
  <2> QED BY <1>5, <1>6, <1>7, <2>1 DEF DeskTyped, Serving, CallOK
<1>8. CASE h = "here"
  <2>1. desk' = [desk EXCEPT ![h] = c]
    BY <1>2, <1>8 DEF Channel!Reply
  <2>2. DOMAIN desk' = {"here", "elsewhere"} /\ desk'["here"] = c /\ desk'["elsewhere"] = desk["elsewhere"]
    BY <1>6, <1>8, <2>1
  <2>3. PICK e : e = desk["elsewhere"]
    OBVIOUS
  <2>4. e # Channel!Free => e \in Served /\ CallOK(e)'
    BY <1>5, <2>3 DEF CallOK
  <2>5. DeskTyped'
    BY <1>3, <1>4, <2>2, <2>3, <2>4 DEF DeskTyped
  <2> QED BY <1>3, <1>8, <2>2, <2>5 DEF Serving
<1> QED BY <1>7, <1>8

(* A new connection.                                                       *)
LEMMA NewId ==
    ASSUME TableTyped, NEW id, id = Cardinality(linkIds) + 1
    PROVE  /\ id \notin linkIds /\ id \in Nat
           /\ linkIds \cup {id} = 1..Cardinality(linkIds \cup {id})
           /\ Cardinality(linkIds \cup {id}) \in Nat
<1>1. Cardinality(linkIds) \in Nat /\ linkIds = 1..Cardinality(linkIds)
  BY DEF TableTyped
<1>2. linkIds \cup {id} = 1..id /\ id \in Nat /\ id \notin linkIds
  BY <1>1
<1>3. Cardinality(1..id) = id
  BY <1>2, FS_Interval
<1> QED BY <1>2, <1>3

LEMMA CreateOK ==
    ASSUME ChannelsInv, NEW h \in {"here", "elsewhere"}, Channel!Create(h)
    PROVE  ChannelsInv'
<1>1. /\ desk[h] # Channel!Free /\ desk[h].op = "create" /\ desk[h].at = "write" /\ UNCHANGED screenOfPage
  BY DEF Channel!Create, Channel!Serving, Channel!screen, screenOfPage
<1>2. CASE \E r \in links : r.account = desk[h].account
  <2>1. Channel!Fail(h)
    BY <1>2 DEF Channel!Create
  <2> QED BY <1>1, <2>1, FailsOK DEF screenOfPage
<1>3. CASE ~\E r \in links : r.account = desk[h].account
  <2>1. PICK id : id = Cardinality(linkIds) + 1
    OBVIOUS
  <2>2. PICK entry : entry = [id |-> id, account |-> desk[h].account, status |-> "ACTIVE"]
    OBVIOUS
  <2>3. /\ id \in ChannelIds /\ links' = links \cup {entry} /\ linkIds' = linkIds \cup {id}
        /\ Channel!Told(h, id) /\ Channel!Reply(h, "ok", entry)
    BY <1>3, <2>1, <2>2, ChannelSets DEF Channel!Create
  <2>4. desk[h] \in Served /\ CallOK(desk[h])
    BY <1>1, DeskAt
  <2>5. entry \in Channel!Row /\ entry.id = id /\ entry.account = desk[h].account
    BY <1>1, <2>2, <2>3, <2>4 DEF Channel!Row, CallOK, Channel!States
  <2>6. TableTyped
    BY DEF ChannelsInv, ChannelsTyped
  <2>7. /\ id \notin linkIds /\ id \in Nat
        /\ linkIds' = 1..Cardinality(linkIds') /\ Cardinality(linkIds') \in Nat
    BY <2>1, <2>3, <2>6, NewId
  <2>8. unseen' \subseteq linkIds'
    BY <2>3, <2>6 DEF Channel!Told, TableTyped
  <2>9. TableTyped'
    <3>1. \A q, r \in links' : q.id = r.id \/ q.account = r.account => q = r
      BY <1>3, <2>3, <2>5, <2>6, <2>7 DEF TableTyped
    <3>2. links' \cup cards' \subseteq Channel!Row /\ \A r \in links' \cup cards' : r.id \in linkIds'
      BY <1>1, <2>3, <2>5, <2>6 DEF TableTyped, screenOfPage
    <3>3. {r.id : r \in links' \cup cards'} \subseteq linkIds' /\ linkIds' \subseteq ChannelIds
      BY <2>3, <2>6, <3>2 DEF TableTyped
    <3> QED BY <2>7, <2>8, <3>1, <3>2, <3>3 DEF TableTyped
  <2>10. /\ DeskTyped'
         /\ h = "elsewhere" => Serving' = Serving
         /\ h = "here" =>
              /\ Serving' # Channel!Free /\ Serving'.mine = Serving.mine /\ Serving'.op = Serving.op
              /\ Serving'.id = Serving.id /\ Serving'.at = "ok" /\ Serving'.row = entry
    BY <1>1, <2>3, <2>5, ReplyTyped
  <2>11. \A j \in linkIds : InTable(j)' = InTable(j)
    BY <2>3, <2>5, <2>7 DEF InTable
  <2>12. CASE h = "elsewhere" \/ ~desk[h].mine
    <3>1. unseen' = unseen \cup {id}
      BY <2>3, <2>12 DEF Channel!Told
    <3>2. Serving' = Serving \/ (Serving' # Channel!Free /\ Serving # Channel!Free /\ ~Serving.mine /\ ~Serving'.mine)
      BY <1>1, <2>10, <2>12 DEF Serving
    <3> QED BY <1>1, <2>3, <2>7, <2>9, <2>10, <2>11, <3>1, <3>2, OthersOK
  <2>13. CASE h = "here" /\ desk[h].mine
    <3>1. ~Answered /\ Answered' /\ Serving'.op = "create" /\ Serving'.row = entry
      BY <1>1, <2>10, <2>13 DEF Answered, Serving
    <3>2. Announced' = Announced \cup {entry}
      BY <1>1, <3>1 DEF Announced, screenOfPage
    <3>3. \A r \in Announced \cup cards : r.id \in linkIds
      <4>1. \A r \in cards : r.id \in linkIds
        BY <2>6 DEF TableTyped
      <4>2. \A r \in Announced : r.id \in linkIds
        BY <3>1 DEF Announced, ChannelsInv, ChannelsTyped, PacingTyped
      <4> QED BY <4>1, <4>2
    <3>4. /\ \A j \in linkIds : Coming(j)' = Coming(j)
          /\ \A j : Held(j)' = Held(j)
          /\ Coming(id)' = {entry} /\ Held(id) = {}
      BY <1>1, <2>5, <2>7, <3>2, <3>3 DEF Coming, Held, screenOfPage
    <3>5. \A j \in linkIds : Expected(j)' = Expected(j)
      BY <3>1, <3>4 DEF Expected
    <3>6. InTable(id)' = {entry}
      BY <2>3, <2>5, <2>6, <2>7 DEF InTable, TableTyped
    <3>7. Expected(id)' = InTable(id)'
      BY <3>1, <3>4, <3>6 DEF Expected
    <3>8. ServingAbout'
      BY <3>1 DEF ServingAbout, About
    <3>9. NobodyHere'
      BY <1>1, <2>13 DEF ChannelsInv, NobodyHere, screenOfPage, Serving
    <3>10. ComingOnce'
      <4>1. \A j \in linkIds' : Coming(j)' # {} => Held(j)' = {}
        BY <2>3, <3>4 DEF ChannelsInv, ComingOnce
      <4>2. \A i \in DOMAIN pacing' : pacing'[i].row.id # Serving'.row.id
        BY <1>1, <2>5, <2>7, <3>1 DEF ChannelsInv, ChannelsTyped, PacingTyped, screenOfPage
      <4> QED BY <1>1, <4>1, <4>2 DEF ChannelsInv, ComingOnce, screenOfPage
    <3>11. unseen \subseteq unseen' \cup {id}
      BY <2>3 DEF Channel!Told
    <3> QED BY <1>1, <2>3, <2>7, <2>9, <2>10, <2>11, <3>4, <3>5, <3>7, <3>8, <3>9, <3>10, <3>11, TableOK
  <2> QED BY <2>12, <2>13
<1> QED BY <1>2, <1>3

(* A call of the page about a row it shows.                                *)
LEMMA MineOK ==
    ASSUME ChannelsInv, NEW id, UNCHANGED screenOfPage, linkIds' = linkIds, TableTyped', DeskTyped',
           Serving # Channel!Free, Serving.mine, Serving.op \in {"status", "remove"}, Serving.id = id,
           Serving.at = "write", InTable(id) # {},
           unseen' = unseen \ {id}, \A j \in linkIds \ {id} : InTable(j)' = InTable(j),
           Serving' # Channel!Free, Serving'.mine, Serving'.op = Serving.op, Serving'.id = id, Serving'.at = "ok",
           Serving.op = "status" => InTable(id)' = {Serving'.row},
           Serving.op = "remove" => InTable(id)' = {}
    PROVE  ChannelsInv'
<1>1. Announced' = Announced /\ \A j : Held(j)' = Held(j) /\ Coming(j)' = Coming(j)
  BY DEF Announced, Answered, Held, Coming, screenOfPage
<1>2. Expected(id)' = InTable(id)'
  BY DEF Expected, Answered
<1>3. \A j \in linkIds \ {id} : Expected(j)' = Expected(j)
  BY <1>1 DEF Expected, Answered
<1>4. id \in linkIds /\ Held(id) # {} /\ Coming(id) = {}
  BY DEF ChannelsInv, CallsAbout, ServingAbout, About
<1>5. ServingAbout'
  BY <1>1, <1>4 DEF ServingAbout, About
<1>6. NobodyHere'
  BY DEF ChannelsInv, NobodyHere, screenOfPage
<1>7. ComingOnce'
  BY <1>1 DEF ChannelsInv, ComingOnce, screenOfPage, Answered
<1> QED BY <1>1, <1>2, <1>3, <1>5, <1>6, <1>7, TableOK

LEMMA StoredIs ==
    ASSUME ChannelsInv, NEW id, ~(~\E r \in links : r.id = id)
    PROVE  /\ Channel!Stored(id) \in links /\ Channel!Stored(id).id = id
           /\ id \in linkIds /\ InTable(id) # {}
<1>1. PICK r \in links : r.id = id
  OBVIOUS
<1>2. Channel!Stored(id) \in links /\ Channel!Stored(id).id = id
  BY <1>1 DEF Channel!Stored
<1> QED BY <1>2 DEF InTable, ChannelsInv, ChannelsTyped, TableTyped

LEMMA ChangeOK ==
    ASSUME ChannelsInv, NEW h \in {"here", "elsewhere"}, desk[h] # Channel!Free, desk[h].at = "write",
           desk[h].op \in {"status", "update"}, NEW entry \in Channel!Row, entry.id = desk[h].id,
           InTable(desk[h].id) # {}, desk[h].id \in linkIds, Channel!Change(h, entry)
    PROVE  ChannelsInv'
<1>1. UNCHANGED screenOfPage
  BY DEF Channel!Change, Channel!screen, screenOfPage
<1>2. CASE \/ ~\E r \in links : r.id = entry.id
           \/ \E r \in links : r.id # entry.id /\ r.account = entry.account
  <2>1. Channel!Fail(h)
    BY <1>2 DEF Channel!Change
  <2> QED BY <1>1, <2>1, FailsOK DEF screenOfPage
<1>3. CASE ~(\/ ~\E r \in links : r.id = entry.id
             \/ \E r \in links : r.id # entry.id /\ r.account = entry.account)
  <2>1. PICK id : id = desk[h].id
    OBVIOUS
  <2>2. /\ links' = {r \in links : r.id # id} \cup {entry} /\ linkIds' = linkIds
        /\ Channel!Told(h, id) /\ Channel!Reply(h, "ok", entry)
    BY <1>3, <2>1 DEF Channel!Change
  <2>3. TableTyped'
    <3>1. TableTyped
      BY DEF ChannelsInv, ChannelsTyped
    <3>2. \A q, r \in links' : q.id = r.id \/ q.account = r.account => q = r
      BY <1>3, <2>1, <2>2, <3>1 DEF TableTyped
    <3>3. unseen' \subseteq linkIds'
      BY <2>1, <2>2, <3>1 DEF Channel!Told, TableTyped
    <3> QED BY <1>1, <2>1, <2>2, <3>1, <3>2, <3>3 DEF TableTyped, screenOfPage
  <2>4. /\ DeskTyped'
        /\ h = "elsewhere" => Serving' = Serving
        /\ h = "here" =>
             /\ Serving' # Channel!Free /\ Serving'.mine = Serving.mine /\ Serving'.op = Serving.op
             /\ Serving'.id = Serving.id /\ Serving'.at = "ok" /\ Serving'.row = entry
    BY <2>1, <2>2, ReplyTyped
  <2>5. \A j : j # id => InTable(j)' = InTable(j)
    BY <2>1, <2>2 DEF InTable
  <2>6. InTable(id)' = {entry}
    BY <2>1, <2>2 DEF InTable
  <2>7. CASE h = "elsewhere" \/ ~desk[h].mine
    <3>1. unseen' = unseen \cup {id}
      BY <2>2, <2>7 DEF Channel!Told
    <3>2. Serving' = Serving \/ (Serving' # Channel!Free /\ Serving # Channel!Free /\ ~Serving.mine /\ ~Serving'.mine)
      BY <2>4, <2>7 DEF Serving
    <3> QED BY <1>1, <2>1, <2>2, <2>3, <2>4, <2>5, <3>1, <3>2, OthersOK
  <2>8. CASE h = "here" /\ desk[h].mine
    <3>1. unseen' = unseen \ {id}
      BY <2>2, <2>8 DEF Channel!Told
    <3>2. /\ Serving # Channel!Free /\ Serving.mine /\ Serving.op \in {"status", "update"}
          /\ Serving.id = id /\ Serving.at = "write"
      BY <2>1, <2>8 DEF Serving
    <3>3. Serving.op = "status"
      BY <3>2 DEF ChannelsInv, CallsAbout, ServingAbout, About
    <3> QED BY <1>1, <2>1, <2>2, <2>3, <2>4, <2>5, <2>6, <2>8, <3>1, <3>2, <3>3, MineOK
  <2> QED BY <2>7, <2>8
<1> QED BY <1>2, <1>3

LEMMA UpdatesOK ==
    ASSUME ChannelsInv, NEW h \in {"here", "elsewhere"}, Channel!UpdateStatus(h) \/ Channel!Update(h)
    PROVE  ChannelsInv'
<1>1. /\ desk[h] # Channel!Free /\ desk[h].op \in {"status", "update"} /\ desk[h].at = "write"
  BY DEF Channel!UpdateStatus, Channel!Update, Channel!Serving
<1>2. CASE Channel!NotThere(h)
  <2>1. Channel!Fail(h) /\ UNCHANGED <<onPage, cards, busyId, modal, line, pacing, week>>
    BY <1>2 DEF Channel!NotThere, Channel!screen
  <2> QED BY <1>1, <2>1, FailsOK
<1>3. CASE ~Channel!NotThere(h)
  <2>1. PICK s : s = Channel!Stored(desk[h].id)
    OBVIOUS
  <2>2. /\ ~Channel!Gone(h)
        /\ \/ desk[h].op = "status" /\ Channel!Change(h, [s EXCEPT !.status = desk[h].status])
           \/ desk[h].op = "update" /\ Channel!Change(h, [s EXCEPT !.account = desk[h].account])
    BY <1>3, <2>1 DEF Channel!UpdateStatus, Channel!Update, Channel!Serving
  <2>3. s \in links /\ s.id = desk[h].id /\ desk[h].id \in linkIds /\ InTable(desk[h].id) # {}
    BY <2>1, <2>2, StoredIs DEF Channel!Gone
  <2>4. s \in Channel!Row
    BY <2>3 DEF ChannelsInv, ChannelsTyped, TableTyped
  <2>5. desk[h] \in Served /\ CallOK(desk[h])
    BY <1>1, DeskAt
  <2>6. PICK entry \in Channel!Row : entry.id = desk[h].id /\ Channel!Change(h, entry)
    <3>1. CASE desk[h].op = "status" /\ Channel!Change(h, [s EXCEPT !.status = desk[h].status])
      <4>1. PICK entry : entry = [s EXCEPT !.status = desk[h].status]
        OBVIOUS
      <4>2. entry \in Channel!Row /\ entry.id = desk[h].id
        BY <2>3, <2>4, <2>5, <4>1 DEF Channel!Row, Served
      <4> QED BY <3>1, <4>1, <4>2
    <3>2. CASE desk[h].op = "update" /\ Channel!Change(h, [s EXCEPT !.account = desk[h].account])
      <4>1. PICK entry : entry = [s EXCEPT !.account = desk[h].account]
        OBVIOUS
      <4>2. entry \in Channel!Row /\ entry.id = desk[h].id
        BY <2>3, <2>4, <2>5, <3>2, <4>1 DEF Channel!Row, CallOK
      <4> QED BY <3>2, <4>1, <4>2
    <3> QED BY <2>2, <3>1, <3>2
  <2> QED BY <1>1, <2>3, <2>6, ChangeOK
<1> QED BY <1>2, <1>3

LEMMA RemoveOK ==
    ASSUME ChannelsInv, NEW h \in {"here", "elsewhere"}, Channel!Remove(h)
    PROVE  ChannelsInv'
<1>1. /\ desk[h] # Channel!Free /\ desk[h].op = "remove" /\ desk[h].at = "write"
  BY DEF Channel!Remove, Channel!Serving
<1>2. CASE Channel!NotThere(h)
  <2>1. Channel!Fail(h) /\ UNCHANGED <<onPage, cards, busyId, modal, line, pacing, week>>
    BY <1>2 DEF Channel!NotThere, Channel!screen
  <2> QED BY <1>1, <2>1, FailsOK
<1>3. CASE ~Channel!NotThere(h)
  <2>1. PICK id : id = desk[h].id
    OBVIOUS
  <2>2. /\ ~Channel!Gone(h) /\ links' = {r \in links : r.id # id} /\ linkIds' = linkIds
        /\ Channel!Told(h, id) /\ Channel!Reply(h, "ok", Nothing) /\ UNCHANGED screenOfPage
    BY <1>3, <2>1 DEF Channel!Remove, Channel!screen, screenOfPage
  <2>3. id \in linkIds /\ InTable(id) # {}
    BY <2>1, <2>2, StoredIs DEF Channel!Gone
  <2>4. TableTyped'
    <3>1. TableTyped
      BY DEF ChannelsInv, ChannelsTyped
    <3>2. \A q, r \in links' : q.id = r.id \/ q.account = r.account => q = r
      BY <2>2, <3>1 DEF TableTyped
    <3>3. unseen' \subseteq linkIds'
      BY <2>2, <2>3, <3>1 DEF Channel!Told, TableTyped
    <3> QED BY <2>2, <3>1, <3>2, <3>3 DEF TableTyped, screenOfPage
  <2>5. /\ DeskTyped'
        /\ h = "elsewhere" => Serving' = Serving
        /\ h = "here" =>
             /\ Serving' # Channel!Free /\ Serving'.mine = Serving.mine /\ Serving'.op = Serving.op
             /\ Serving'.id = Serving.id /\ Serving'.at = "ok" /\ Serving'.row = Nothing
    BY <1>1, <2>2, ReplyTyped
  <2>6. \A j : j # id => InTable(j)' = InTable(j)
    BY <2>2 DEF InTable
  <2>7. InTable(id)' = {}
    BY <2>2 DEF InTable
  <2>8. CASE h = "elsewhere" \/ ~desk[h].mine
    <3>1. unseen' = unseen \cup {id}
      BY <2>2, <2>8 DEF Channel!Told
    <3>2. Serving' = Serving \/ (Serving' # Channel!Free /\ Serving # Channel!Free /\ ~Serving.mine /\ ~Serving'.mine)
      BY <1>1, <2>5, <2>8 DEF Serving
    <3> QED BY <2>2, <2>4, <2>5, <2>6, <2>7, <3>1, <3>2, OthersOK
  <2>9. CASE h = "here" /\ desk[h].mine
    <3>1. unseen' = unseen \ {id}
      BY <2>2, <2>9 DEF Channel!Told
    <3>2. /\ Serving # Channel!Free /\ Serving.mine /\ Serving.op = "remove"
          /\ Serving.id = id /\ Serving.at = "write"
      BY <1>1, <2>1, <2>9 DEF Serving
    <3> QED BY <2>2, <2>3, <2>4, <2>5, <2>6, <2>7, <2>9, <3>1, <3>2, MineOK
  <2> QED BY <2>8, <2>9
<1> QED BY <1>2, <1>3

-----------------------------------------------------------------------------
(* The answers.                                                            *)
tableOnly == <<links, linkIds, unseen>>
LEMMA PageOK ==
    ASSUME ChannelsInv, UNCHANGED tableOnly, UNCHANGED onPage, onPage, UNCHANGED line, PacingTyped', PageTyped',
           UNCHANGED desk \/ desk' = [desk EXCEPT !["here"] = Channel!Free],
           cards' \subseteq Channel!Row, \A r \in cards' : r.id \in linkIds, ComingOnce',
           \A j \in linkIds : Expected(j)' = Expected(j) /\ (Coming(j) = {} => Coming(j)' = {}),
           \A j \in linkIds : Held(j) # {} => Held(j)' # {} \/ (InTable(j) = {} /\ Serving'  = Channel!Free)
    PROVE  ChannelsInv'
<1>1. LineTyped' /\ TableTyped'
  BY DEF tableOnly, ChannelsInv, ChannelsTyped, LineTyped, TableTyped, CallOK
<1>2. DeskTyped'
  BY DEF tableOnly, ChannelsInv, ChannelsTyped, DeskTyped, CallOK
<1>3. PageFollows'
  BY DEF tableOnly, ChannelsInv, PageFollows, InTable
<1>4. NobodyHere'
  BY DEF NobodyHere
<1>5. \A j : InTable(j)' = InTable(j)
  BY DEF InTable, tableOnly
<1>6. LineAbout'
  <2> SUFFICES ASSUME NEW i \in DOMAIN line PROVE About(line[i])'
    BY DEF LineAbout
  <2>1. line \in Seq(Queued) /\ LineAbout
    BY DEF ChannelsInv, CallsAbout, ChannelsTyped, LineTyped
  <2>2. PICK c : c = line[i]
    OBVIOUS
  <2>3. c \in Queued /\ About(c)
    BY <2>1, <2>2 DEF LineAbout
  <2>4. c.at = "start" /\ line'[i] = c
    BY <2>2, <2>3 DEF Queued
  <2> QED BY <1>5, <2>3, <2>4 DEF About, tableOnly
<1>7. ServingAbout'
  <2>1. CASE Serving' = Channel!Free
    BY <2>1 DEF ServingAbout
  <2>2. CASE Serving' # Channel!Free
    <3>1. Serving' = Serving
      BY <2>2 DEF ChannelsInv, ChannelsTyped, DeskTyped, Serving
    <3>2. PICK c : c = Serving
      OBVIOUS
    <3>3. About(c)
      BY <2>2, <3>1, <3>2 DEF ChannelsInv, CallsAbout, ServingAbout
    <3> QED BY <1>5, <2>2, <3>1, <3>2, <3>3 DEF ServingAbout, About, tableOnly
  <2> QED BY <2>1, <2>2
<1> QED BY <1>1, <1>2, <1>3, <1>4, <1>6, <1>7 DEF ChannelsInv, ChannelsTyped, CallsAbout

(* The call that is answered.                                              *)
LEMMA AnsweredIs ==
    ASSUME ChannelsInv, NEW ops, Channel!Answered(ops)
    PROVE  /\ Serving # Channel!Free /\ Serving.op \in ops /\ Serving.at \in {"ok", "failed"}
           /\ Serving \in Served /\ CallOK(Serving) /\ About(Serving)
           /\ desk' = [desk EXCEPT !["here"] = Channel!Free] /\ Serving' = Channel!Free /\ ~Answered'
BY DeskAt DEF Channel!Answered, Serving, Answered, ChannelsInv, ChannelsTyped, DeskTyped, CallsAbout, ServingAbout

LEMMA FreedOK ==
    ASSUME ChannelsInv, UNCHANGED tableAndPage, UNCHANGED line, PageTyped', ~onPage => modal'.step = "closed",
           desk' = [desk EXCEPT !["here"] = Channel!Free], ~Answered
    PROVE  ChannelsInv'
<1>1. Serving' = Channel!Free /\ ~Answered'
  BY DEF Serving, Answered, ChannelsInv, ChannelsTyped, DeskTyped
<1>2. LineTyped' /\ DeskTyped' /\ NobodyHere' /\ ServingAbout'
  BY <1>1 DEF ChannelsInv, ChannelsTyped, LineTyped, DeskTyped, CallOK, NobodyHere, ServingAbout, tableAndPage
<1>3. Announced' = Announced
  BY <1>1 DEF Announced, Answered, tableAndPage
<1>4. LineAbout'
  BY <1>3, AboutStays DEF ChannelsInv, CallsAbout, LineAbout
<1> QED BY <1>1, <1>2, <1>4, CallsMove

LEMMA AfterToggleOK == ASSUME ChannelsInv, Channel!AfterToggle PROVE ChannelsInv'
<1>1. PICK c : c = Serving
  OBVIOUS
<1>2. /\ c \in Served /\ c.op = "status" /\ CallOK(c) /\ About(c)
      /\ desk' = [desk EXCEPT !["here"] = Channel!Free] /\ Serving' = Channel!Free /\ ~Answered'
  BY <1>1, AnsweredIs DEF Channel!AfterToggle
<1>3. /\ UNCHANGED tableOnly /\ UNCHANGED <<onPage, modal, line, pacing, week>>
      /\ cards' = IF ~Channel!Succeeded(c) THEN cards ELSE {IF r.id = c.id THEN c.row ELSE r : r \in cards}
  BY <1>1 DEF Channel!AfterToggle, Channel!table, tableOnly, Serving
<1>4. PageTyped' /\ PacingTyped'
  BY <1>3 DEF ChannelsInv, ChannelsTyped, PageTyped, PacingTyped, tableOnly
<1>5. CASE ~Channel!Succeeded(c)
  BY <1>1, <1>2, <1>3, <1>4, <1>5, FreedOK DEF Channel!Succeeded, Answered, tableAndPage, tableOnly, ChannelsInv, NobodyHere
<1>6. CASE Channel!Succeeded(c)
  <2>1. c.mine /\ c.at = "ok" /\ Answered /\ onPage
    BY <1>1, <1>2, <1>6 DEF Channel!Succeeded, Answered, ChannelsInv, NobodyHere, Served, Channel!Free
  <2>2. c.row \in Channel!Row /\ c.row.id = c.id /\ c.id \in linkIds /\ Held(c.id) # {} /\ Coming(c.id) = {}
    BY <1>2, <2>1 DEF CallOK, About
  <2>3. cards' = {IF r.id = c.id THEN c.row ELSE r : r \in cards}
    BY <1>3, <1>6
  <2>4. cards' \subseteq Channel!Row /\ \A r \in cards' : r.id \in linkIds
    BY <2>2, <2>3 DEF ChannelsInv, ChannelsTyped, TableTyped
  <2>5. Held(c.id)' = {c.row} /\ \A j : j # c.id => Held(j)' = Held(j)
    BY <2>2, <2>3 DEF Held
  <2>6. Announced' = Announced /\ \A j : Coming(j)' = Coming(j)
    BY <1>1, <1>2, <1>3 DEF Announced, Coming, Answered
  <2>7. \A j : Expected(j)' = Expected(j)
    BY <1>1, <1>2, <2>1, <2>2, <2>5, <2>6 DEF Expected
  <2>8. ComingOnce'
    BY <1>2, <1>3, <2>2, <2>5, <2>6 DEF ChannelsInv, ComingOnce, tableOnly
  <2>9. \A j : Held(j) # {} => Held(j)' # {}
    BY <2>5
  <2> QED BY <1>2, <1>3, <1>4, <2>1, <2>4, <2>6, <2>7, <2>8, <2>9, PageOK
<1> QED BY <1>5, <1>6

LEMMA AfterDeleteOK == ASSUME ChannelsInv, Channel!AfterDelete PROVE ChannelsInv'
<1>1. PICK c : c = Serving
  OBVIOUS
<1>2. /\ c \in Served /\ c.op = "remove" /\ About(c)
      /\ desk' = [desk EXCEPT !["here"] = Channel!Free] /\ Serving' = Channel!Free /\ ~Answered'
  BY <1>1, AnsweredIs DEF Channel!AfterDelete
<1>3. /\ UNCHANGED tableOnly /\ UNCHANGED <<onPage, modal, line, pacing, week>>
      /\ cards' = IF Channel!Succeeded(c) THEN {r \in cards : r.id # c.id} ELSE cards
  BY <1>1 DEF Channel!AfterDelete, Channel!table, tableOnly, Serving
<1>4. PageTyped' /\ PacingTyped'
  BY <1>3 DEF ChannelsInv, ChannelsTyped, PageTyped, PacingTyped, tableOnly
<1>5. CASE ~Channel!Succeeded(c)
  BY <1>1, <1>2, <1>3, <1>4, <1>5, FreedOK DEF Channel!Succeeded, Answered, tableAndPage, tableOnly, ChannelsInv, NobodyHere
<1>6. CASE Channel!Succeeded(c)
  <2>1. c.mine /\ c.at = "ok" /\ Answered /\ onPage
    BY <1>1, <1>2, <1>6 DEF Channel!Succeeded, Answered, ChannelsInv, NobodyHere, Served, Channel!Free
  <2>2. c.id \in linkIds /\ InTable(c.id) = {} /\ Coming(c.id) = {}
    BY <1>2, <2>1 DEF About
  <2>3. cards' = {r \in cards : r.id # c.id}
    BY <1>3, <1>6
  <2>4. cards' \subseteq Channel!Row /\ \A r \in cards' : r.id \in linkIds
    BY <2>3 DEF ChannelsInv, ChannelsTyped, TableTyped
  <2>5. Held(c.id)' = {} /\ \A j : j # c.id => Held(j)' = Held(j)
    BY <2>3 DEF Held
  <2>6. Announced' = Announced /\ \A j : Coming(j)' = Coming(j)
    BY <1>1, <1>2, <1>3 DEF Announced, Coming, Answered
  <2>7. \A j : Expected(j)' = Expected(j)
    BY <1>1, <1>2, <2>1, <2>2, <2>5, <2>6 DEF Expected
  <2>8. ComingOnce'
    BY <1>2, <1>3, <2>2, <2>5, <2>6 DEF ChannelsInv, ComingOnce, tableOnly
  <2>9. \A j : Held(j) # {} => Held(j)' # {} \/ InTable(j) = {}
    BY <2>2, <2>5
  <2> QED BY <1>2, <1>3, <1>4, <2>1, <2>4, <2>6, <2>7, <2>8, <2>9, PageOK
<1> QED BY <1>5, <1>6

LEMMA AfterConnectOK == ASSUME ChannelsInv, Channel!AfterConnect PROVE ChannelsInv'
<1>1. PICK c : c = Serving
  OBVIOUS
<1>2. /\ c \in Served /\ c.op = "create" /\ CallOK(c)
      /\ desk' = [desk EXCEPT !["here"] = Channel!Free] /\ Serving' = Channel!Free /\ ~Answered'
  BY <1>1, AnsweredIs DEF Channel!AfterConnect
<1>3. /\ UNCHANGED tableOnly /\ UNCHANGED <<onPage, cards, line, week>>
      /\ pacing' = IF Channel!Succeeded(c) THEN Append(pacing, [row |-> c.row, n |-> c.n]) ELSE pacing
      /\ UNCHANGED modal \/ (c.mine /\ Channel!StepTo(c.n, "failed"))
  BY <1>1 DEF Channel!AfterConnect, Channel!table, tableOnly, Serving
<1>4. PageTyped' /\ (~onPage => modal'.step = "closed")
  <2>1. PageTyped
    BY DEF ChannelsInv, ChannelsTyped
  <2>2. modal' \in [n : Nat, step : {"closed", "form", "verifying", "failed", "success"}]
        /\ (modal.step = "closed" => modal'.step = "closed")
    BY <1>3, <2>1 DEF PageTyped, Channel!StepTo
  <2> QED BY <1>3, <2>1, <2>2 DEF PageTyped, ChannelsInv, NobodyHere
<1>5. CASE ~Channel!Succeeded(c)
  BY <1>1, <1>2, <1>3, <1>4, <1>5, FreedOK DEF Channel!Succeeded, Answered, tableAndPage, tableOnly
<1>6. CASE Channel!Succeeded(c)
  <2>1. c.mine /\ c.at = "ok" /\ Answered /\ onPage
    BY <1>1, <1>2, <1>6 DEF Channel!Succeeded, Answered, ChannelsInv, NobodyHere, Served, Channel!Free
  <2>2. c.row \in Channel!Row /\ c.row.id \in linkIds /\ c.n \in Nat
    BY <1>2, <2>1 DEF CallOK, Served
  <2>3. PICK e : e = [row |-> c.row, n |-> c.n]
    OBVIOUS
  <2>4. e \in Paused /\ e.row = c.row /\ pacing' = Append(pacing, e)
    BY <1>3, <1>6, <2>2, <2>3 DEF Paused
  <2>5. pacing \in Seq(Paused)
    BY DEF ChannelsInv, ChannelsTyped, PacingTyped
  <2>6. /\ pacing' \in Seq(Paused) /\ DOMAIN pacing' = DOMAIN pacing \cup {Len(pacing) + 1}
        /\ pacing'[Len(pacing) + 1] = e /\ \A i \in DOMAIN pacing : pacing'[i] = pacing[i]
    BY <2>4, <2>5
  <2>7. PacingTyped'
    BY <1>3, <2>2, <2>4, <2>6 DEF ChannelsInv, ChannelsTyped, PacingTyped, tableOnly
  <2>8. Announced' = Announced
    <3>1. Announced = {pacing[i].row : i \in DOMAIN pacing} \cup {e.row}
      BY <1>1, <1>2, <2>1, <2>4 DEF Announced
    <3>2. Announced' = {pacing'[i].row : i \in DOMAIN pacing'}
      BY <1>2 DEF Announced
    <3> QED BY <2>6, <3>1, <3>2
  <2>9. \A j : Coming(j)' = Coming(j) /\ Held(j)' = Held(j)
    BY <1>3, <2>8 DEF Coming, Held
  <2>10. \A j : Expected(j)' = Expected(j)
    BY <1>1, <1>2, <2>9 DEF Expected
  <2>11. ComingOnce'
    <3>1. \A i \in DOMAIN pacing : pacing[i].row.id # e.row.id
      BY <1>1, <1>2, <2>1, <2>4 DEF ChannelsInv, ComingOnce
    <3>2. \A i, j \in DOMAIN pacing : pacing[i].row.id = pacing[j].row.id => i = j
      BY DEF ChannelsInv, ComingOnce
    <3>3. \A i, j \in DOMAIN pacing' : pacing'[i].row.id = pacing'[j].row.id => i = j
      BY <2>6, <3>1, <3>2
    <3>4. \A j \in linkIds : Coming(j)' # {} => Held(j)' = {}
      BY <2>9 DEF ChannelsInv, ComingOnce
    <3> QED BY <1>2, <1>3, <3>3, <3>4 DEF ComingOnce, tableOnly
  <2>12. cards' \subseteq Channel!Row /\ \A r \in cards' : r.id \in linkIds
    BY <1>3 DEF ChannelsInv, ChannelsTyped, TableTyped
  <2> QED BY <1>2, <1>3, <1>4, <2>1, <2>7, <2>9, <2>10, <2>11, <2>12, PageOK
<1> QED BY <1>5, <1>6

LEMMA OnCreatedOK == ASSUME ChannelsInv, Channel!OnCreated PROVE ChannelsInv'
<1>1. PICK entry : entry = Head(pacing).row
  OBVIOUS
<1>2. /\ UNCHANGED tableOnly /\ UNCHANGED <<onPage, line, desk, week>> /\ pacing # <<>>
      /\ pacing' = Tail(pacing) /\ cards' = cards \cup {entry} /\ Channel!StepTo(Head(pacing).n, "success")
  BY <1>1 DEF Channel!OnCreated, Channel!table, tableOnly
<1>3. onPage
  BY <1>2 DEF ChannelsInv, NobodyHere
<1>4. PageTyped'
  BY <1>2 DEF ChannelsInv, ChannelsTyped, PageTyped, Channel!StepTo
<1>5. /\ pacing \in Seq(Paused) /\ \A i \in DOMAIN pacing : pacing[i].row.id \in linkIds
      /\ \A i, j \in DOMAIN pacing : pacing[i].row.id = pacing[j].row.id => i = j
  BY DEF ChannelsInv, ChannelsTyped, PacingTyped, ComingOnce
<1>6. /\ pacing' \in Seq(Paused) /\ 1 \in DOMAIN pacing /\ entry = pacing[1].row
      /\ \A i \in DOMAIN pacing' : i + 1 \in DOMAIN pacing /\ pacing'[i] = pacing[i + 1] /\ i + 1 # 1 /\ i \in Nat
      /\ \A i \in DOMAIN pacing : i = 1 \/ (i - 1 \in DOMAIN pacing' /\ pacing'[i - 1] = pacing[i])
  BY <1>1, <1>2, <1>5
<1>7. PacingTyped'
  BY <1>2, <1>5, <1>6 DEF PacingTyped, tableOnly
<1>8. entry \in Channel!Row /\ entry.id \in linkIds /\ \A i \in DOMAIN pacing' : pacing'[i].row.id # entry.id
  <2>1. entry \in Channel!Row /\ entry.id \in linkIds
    <3>1. pacing \in Seq(Paused) /\ 1 \in DOMAIN pacing
      BY <1>5, <1>6
    <3>2. pacing[1] \in Paused
      BY <3>1
    <3>3. pacing[1].row \in Channel!Row /\ pacing[1].row.id \in linkIds
      BY <1>5, <3>1, <3>2 DEF Paused
    <3> QED BY <1>6, <3>3
  <2>2. ASSUME NEW i \in DOMAIN pacing' PROVE pacing'[i].row.id # entry.id
    BY <1>5, <1>6
  <2> QED BY <2>1, <2>2
<1>9. Serving' = Serving /\ (Answered' <=> Answered)
  BY <1>2 DEF Serving, Answered
<1>10. Announced = Announced' \cup {entry}
  <2>1. PICK more : more = IF Answered /\ Serving.op = "create" THEN {Serving.row} ELSE {}
    OBVIOUS
  <2>2. Announced = {pacing[i].row : i \in DOMAIN pacing} \cup more
    BY <2>1 DEF Announced
  <2>3. Announced' = {pacing'[i].row : i \in DOMAIN pacing'} \cup more
    BY <1>9, <2>1 DEF Announced
  <2>4. {pacing[i].row : i \in DOMAIN pacing} = {pacing'[i].row : i \in DOMAIN pacing'} \cup {entry}
    BY <1>6
  <2> QED BY <2>2, <2>3, <2>4
<1>11. \A r \in Announced' : r.id # entry.id
  BY <1>2, <1>6, <1>8, <1>9 DEF Announced, ChannelsInv, ComingOnce
<1>12. /\ \A j : j # entry.id => Held(j)' = Held(j) /\ Coming(j)' = Coming(j)
       /\ Coming(entry.id) = {entry} /\ Coming(entry.id)' = {}
  BY <1>2, <1>10, <1>11 DEF Held, Coming
<1>13. Held(entry.id) = {}
  BY <1>8, <1>12 DEF ChannelsInv, ComingOnce
<1>14. Held(entry.id)' = {entry}
  BY <1>2, <1>13 DEF Held
<1>15. \A j : Held(j)' \cup Coming(j)' = Held(j) \cup Coming(j)
  BY <1>12, <1>13, <1>14
<1>16. \A j : Expected(j)' = Expected(j)
  BY <1>9, <1>15 DEF Expected
<1>17. ComingOnce'
  <2>1. \A j \in linkIds : Coming(j)' # {} => Held(j)' = {}
    BY <1>12 DEF ChannelsInv, ComingOnce
  <2>2. ASSUME NEW i \in DOMAIN pacing', NEW j \in DOMAIN pacing', pacing'[i].row.id = pacing'[j].row.id
        PROVE  i = j
    <3>1. i \in Nat /\ j \in Nat /\ i + 1 \in DOMAIN pacing /\ j + 1 \in DOMAIN pacing
          /\ pacing[i + 1].row.id = pacing[j + 1].row.id
      BY <1>6, <2>2
    <3>2. i + 1 = j + 1
      BY <1>5, <3>1
    <3> QED BY <3>1, <3>2
  <2>3. Answered /\ Serving.op = "create" => \A i \in DOMAIN pacing' : pacing'[i].row.id # Serving.row.id
    BY <1>6 DEF ChannelsInv, ComingOnce
  <2> QED BY <1>2, <1>9, <2>1, <2>2, <2>3 DEF ComingOnce, tableOnly
<1>18. cards' \subseteq Channel!Row /\ \A r \in cards' : r.id \in linkIds
  BY <1>2, <1>8 DEF ChannelsInv, ChannelsTyped, TableTyped
<1>19. \A j : (Coming(j) = {} => Coming(j)' = {}) /\ (Held(j) # {} => Held(j)' # {})
  BY <1>12, <1>13
<1> QED BY <1>2, <1>3, <1>4, <1>7, <1>16, <1>17, <1>18, <1>19, PageOK

-----------------------------------------------------------------------------
(* The page goes and comes back.                                           *)
LEMMA AwayOK ==
    ASSUME ChannelsInv, Channel!Away, UNCHANGED tableOnly, DOMAIN week' = Channel!Happenings,
           NEW c, c = Channel!Free \/ (c \in Served /\ CallOK(c) /\ ~c.mine),
           desk' = [desk EXCEPT !["here"] = c] \/ (UNCHANGED desk /\ Serving = c)
    PROVE  ChannelsInv'
<1>1. /\ onPage' = FALSE /\ cards' = {} /\ pacing' = <<>> /\ modal' = [modal EXCEPT !.step = "closed"]
      /\ line' = [i \in DOMAIN line |-> [line[i] EXCEPT !.mine = FALSE]]
  BY DEF Channel!Away, Channel!Dropped
<1>2. line \in Seq(Queued) /\ \A i \in DOMAIN line : CallOK(line[i])
  BY DEF ChannelsInv, ChannelsTyped, LineTyped
<1>3. \A i \in DOMAIN line : line'[i] \in Queued /\ ~line'[i].mine /\ line'[i].at = "start"
                              /\ line'[i].op = line[i].op /\ line'[i].account = line[i].account
  <2> SUFFICES ASSUME NEW i \in DOMAIN line
               PROVE  line'[i] \in Queued /\ ~line'[i].mine /\ line'[i].at = "start"
                      /\ line'[i].op = line[i].op /\ line'[i].account = line[i].account
    OBVIOUS
  <2>1. line[i] \in Queued /\ line'[i] = [line[i] EXCEPT !.mine = FALSE]
    BY <1>1, <1>2
  <2> QED BY <2>1 DEF Queued
<1>4. LineTyped'
  <2>1. line' \in Seq(Queued) /\ DOMAIN line' = DOMAIN line
    <3>1. DOMAIN line = 1..Len(line) /\ Len(line) \in Nat
      BY <1>2
    <3>2. line' = [i \in 1..Len(line) |-> line'[i]] /\ \A i \in 1..Len(line) : line'[i] \in Queued
      BY <1>1, <1>3, <3>1
    <3> QED BY <3>1, <3>2
  <2> QED BY <1>2, <1>3, <2>1 DEF LineTyped, CallOK
<1>5. DeskTyped' /\ Serving' = c
  <2>1. DeskTyped
    BY DEF ChannelsInv, ChannelsTyped
  <2> QED BY <2>1 DEF DeskTyped, CallOK, tableOnly, Serving
<1>6. PacingTyped' /\ TableTyped' /\ PageTyped'
  <2>1. PageTyped'
    BY <1>1 DEF ChannelsInv, ChannelsTyped, PageTyped
  <2>2. PacingTyped'
    BY <1>1 DEF PacingTyped
  <2>3. TableTyped'
    BY <1>1 DEF ChannelsInv, ChannelsTyped, TableTyped, tableOnly
  <2> QED BY <2>1, <2>2, <2>3
<1>7. NobodyHere' /\ PageFollows'
  BY <1>1, <1>3, <1>5 DEF NobodyHere, PageFollows
<1>8. CallsAbout'
  BY <1>1, <1>3, <1>5 DEF CallsAbout, LineAbout, ServingAbout, About
<1>9. ComingOnce'
  BY <1>1, <1>5 DEF ComingOnce, Held, Answered
<1> QED BY <1>4, <1>5, <1>6, <1>7, <1>8, <1>9 DEF ChannelsInv, ChannelsTyped

LEMMA LeaveOK == ASSUME ChannelsInv, Channel!Leave PROVE ChannelsInv'
<1>1. /\ Channel!Away /\ UNCHANGED tableOnly /\ week' = [week EXCEPT !["leaves"] = @ - 1]
      /\ desk' = IF Serving = Channel!Free THEN desk ELSE [desk EXCEPT !["here"].mine = FALSE]
  BY DEF Channel!Leave, Channel!table, Channel!Spend, tableOnly, Serving
<1>2. DOMAIN week' = Channel!Happenings
  BY <1>1 DEF ChannelsInv, ChannelsTyped, PageTyped
<1>3. CASE Serving = Channel!Free
  BY <1>1, <1>2, <1>3, AwayOK
<1>4. CASE Serving # Channel!Free
  <2>1. PICK c : c = [Serving EXCEPT !.mine = FALSE]
    OBVIOUS
  <2>2. Serving \in Served /\ CallOK(Serving)
    BY <1>4, DeskAt DEF Serving
  <2>3. c \in Served /\ CallOK(c) /\ ~c.mine
    BY <2>1, <2>2 DEF Served, CallOK
  <2>4. desk' = [desk EXCEPT !["here"] = c]
    BY <1>1, <1>4, <2>1 DEF Serving
  <2> QED BY <1>1, <1>2, <2>3, <2>4, AwayOK
<1> QED BY <1>3, <1>4

LEMMA LoseOK == ASSUME ChannelsInv, Channel!Lose PROVE ChannelsInv'
<1>1. PICK c : c = Serving
  OBVIOUS
<1>2. /\ c # Channel!Free /\ c.mine /\ c.at # "write"
      /\ week' = [week EXCEPT !["losses"] = @ - 1] /\ desk' = [desk EXCEPT !["here"] = Channel!Free]
  BY <1>1 DEF Channel!Lose, Channel!Spend, Serving
<1>3. /\ DOMAIN week' = Channel!Happenings /\ onPage /\ Serving' = Channel!Free /\ ~Answered'
      /\ c \in Served /\ CallOK(c) /\ About(c)
  BY <1>1, <1>2, DeskAt
     DEF ChannelsInv, ChannelsTyped, PageTyped, DeskTyped, NobodyHere, Serving, Answered, CallsAbout, ServingAbout
<1>4. CASE c.op # "create"
  <2>1. Channel!Away /\ UNCHANGED tableOnly
    BY <1>1, <1>4 DEF Channel!Lose, Channel!table, tableOnly, Serving
  <2> QED BY <1>2, <1>3, <2>1, AwayOK
<1>5. CASE c.op = "create"
  <2>1. /\ Channel!StepTo(c.n, "failed") /\ UNCHANGED <<links, linkIds, onPage, cards, line, pacing>>
        /\ unseen' = IF c.at = "ok" THEN unseen \cup {c.row.id} ELSE unseen
    BY <1>1, <1>5 DEF Channel!Lose, Serving
  <2>2. PageTyped'
    BY <1>3, <2>1 DEF ChannelsInv, ChannelsTyped, PageTyped, Channel!StepTo
  <2>3. CASE c.at # "ok"
    <3>1. UNCHANGED tableAndPage /\ ~Answered
      BY <1>1, <2>1, <2>3 DEF tableAndPage, Answered
    <3> QED BY <1>2, <1>3, <2>1, <2>2, <3>1, FreedOK
  <2>4. CASE c.at = "ok"
    <3>1. c.row.id \in linkIds /\ unseen' = unseen \cup {c.row.id}
      BY <1>3, <1>5, <2>1, <2>4 DEF CallOK
    <3>2. LineTyped' /\ PacingTyped' /\ TableTyped' /\ DeskTyped'
      BY <1>2, <2>1, <3>1 DEF ChannelsInv, ChannelsTyped, LineTyped, PacingTyped, TableTyped, DeskTyped, CallOK
    <3>3. Announced = Announced' \cup {c.row}
      BY <1>1, <1>2, <1>3, <1>5, <2>1, <2>4 DEF Announced, Answered
    <3>4. /\ \A j : Held(j)' = Held(j) /\ InTable(j)' = InTable(j)
          /\ \A j : j # c.row.id => Coming(j)' = Coming(j)
          /\ \A j : Coming(j) = {} => Coming(j)' = {}
      BY <2>1, <3>3 DEF Held, InTable, Coming
    <3>5. \A j : j # c.row.id => Expected(j)' = Expected(j)
      BY <1>1, <1>3, <1>5, <3>4 DEF Expected
    <3>6. PageFollows'
      BY <2>1, <3>1, <3>4, <3>5 DEF ChannelsInv, PageFollows
    <3>7. CallsAbout'
      <4> SUFFICES ASSUME NEW i \in DOMAIN line PROVE About(line[i])'
        BY <1>3, <2>1 DEF CallsAbout, LineAbout, ServingAbout
      <4>1. PICK d : d = line[i]
        OBVIOUS
      <4>2. About(d) /\ line'[i] = d
        BY <2>1, <4>1 DEF ChannelsInv, CallsAbout, LineAbout
      <4> QED BY <2>1, <3>4, <4>2 DEF About
    <3>8. ComingOnce'
      BY <1>3, <2>1, <3>4 DEF ChannelsInv, ComingOnce
    <3>9. NobodyHere'
      BY <1>3, <2>1 DEF NobodyHere
    <3> QED BY <2>2, <3>2, <3>6, <3>7, <3>8, <3>9 DEF ChannelsInv, ChannelsTyped
  <2> QED BY <2>3, <2>4
<1> QED BY <1>4, <1>5

LEMMA LoadOK == ASSUME ChannelsInv, Channel!Load PROVE ChannelsInv'
<1>1. /\ ~onPage /\ onPage' = TRUE /\ UNCHANGED <<links, linkIds, modal, line, desk, pacing>>
      /\ \/ cards' = links /\ unseen' = {} /\ UNCHANGED week
         \/ cards' = {} /\ unseen' = linkIds /\ week' = [week EXCEPT !["losses"] = @ - 1]
  BY DEF Channel!Load, Channel!Spend
<1>2. /\ pacing = <<>> /\ \A i \in DOMAIN line : ~line[i].mine
      /\ Serving # Channel!Free => ~Serving.mine
  BY <1>1 DEF ChannelsInv, NobodyHere
<1>3. ~Answered' /\ Announced' = {} /\ Serving' = Serving
  BY <1>1, <1>2 DEF Announced, Answered, Serving
<1>4. LineTyped' /\ PacingTyped' /\ PageTyped' /\ DeskTyped'
  BY <1>1 DEF ChannelsInv, ChannelsTyped, LineTyped, PacingTyped, PageTyped, DeskTyped, CallOK
<1>5. TableTyped'
  BY <1>1 DEF ChannelsInv, ChannelsTyped, TableTyped
<1>6. PageFollows'
  BY <1>1, <1>3 DEF PageFollows, Expected, Held, Coming, InTable
<1>7. CallsAbout'
  BY <1>1, <1>2, <1>3 DEF CallsAbout, LineAbout, ServingAbout, About
<1>8. ComingOnce' /\ NobodyHere'
  BY <1>1, <1>2, <1>3 DEF ComingOnce, NobodyHere, Coming
<1> QED BY <1>4, <1>5, <1>6, <1>7, <1>8 DEF ChannelsInv, ChannelsTyped

LEMMA ChannelsNext == ASSUME ChannelsInv, [Channel!Next]_Channel!vars PROVE ChannelsInv'
<1>1. ASSUME NEW h \in {"here", "elsewhere"}, Channel!Backend(h) PROVE ChannelsInv'
  BY <1>1, LookOK, CreateOK, UpdatesOK, RemoveOK DEF Channel!Backend
<1>2. ASSUME NEW r \in cards, Channel!HandleToggle(r) \/ Channel!HandleDelete(r) PROVE ChannelsInv'
  BY <1>2, ClicksOK
<1>3. CASE Channel!Refuse
  BY <1>3, LookOK
<1>4. CASE UNCHANGED Channel!vars
  <2>1. UNCHANGED <<links, linkIds, onPage, cards, busyId, modal, line, desk, pacing, unseen, week>>
    BY <1>4 DEF Channel!vars
  <2>2. UNCHANGED <<tableAndPage, screenOfPage, tableOnly>> /\ Serving' = Serving
    BY <2>1 DEF tableAndPage, screenOfPage, tableOnly, Serving
  <2>3. LineTyped' /\ DeskTyped' /\ PageTyped' /\ NobodyHere'
    BY <2>1, <2>2 DEF ChannelsInv, ChannelsTyped, LineTyped, DeskTyped, PageTyped, NobodyHere, CallOK
  <2>4. Announced' = Announced
    BY <2>1, <2>2 DEF Announced, Answered
  <2>5. LineAbout'
    BY <2>1, <2>2, <2>4, AboutStays DEF ChannelsInv, CallsAbout, LineAbout
  <2> QED BY <2>2, <2>3, <2>5, CallsMove
<1> QED BY <1>1, <1>2, <1>3, <1>4, ElsewhereOK, DispatchOK, AfterToggleOK, AfterDeleteOK, AfterConnectOK,
           OnCreatedOK, ModalOK, LeaveOK, LoseOK, LoadOK DEF Channel!Next

LEMMA PageMatches == ChannelsInv => PageMatchesTable
<1> SUFFICES ASSUME ChannelsInv, Channel!Settled
             PROVE  {r \in cards : r.id \notin unseen} = {r \in links : r.id \notin unseen}
  BY DEF PageMatchesTable, Channel!PageMatchesTable
<1>1. onPage /\ Serving = Channel!Free /\ pacing = <<>>
  BY DEF Channel!Settled, Serving
<1>2. ~Answered /\ Announced = {}
  BY <1>1 DEF Answered, Announced
<1>3. \A j \in linkIds \ unseen : Held(j) = InTable(j)
  BY <1>1, <1>2 DEF ChannelsInv, PageFollows, Expected, Coming
<1>4. \A r \in cards \cup links : r.id \in linkIds
  BY DEF ChannelsInv, ChannelsTyped, TableTyped
<1> QED BY <1>3, <1>4 DEF Held, InTable

LEMMA ChannelTypes == ChannelsInv => Channel!ChannelsTypeOK
<1> SUFFICES ASSUME ChannelsInv PROVE Channel!ChannelsTypeOK
  OBVIOUS
<1>1. \A h \in {"here", "elsewhere"} : desk[h] # Channel!Free => desk[h].at \in {"start", "write", "ok", "failed"}
  BY DeskAt DEF Served
<1>2. /\ linkIds \subseteq ChannelIds /\ \A r \in links : r.id \in linkIds
      /\ \A q, r \in links : q.id = r.id \/ q.account = r.account => q = r
      /\ \A r \in links \cup cards : r.status \in Channel!States
  BY DEF ChannelsInv, ChannelsTyped, TableTyped, Channel!Row
<1>3. modal.step \in {"closed", "form", "verifying", "failed", "success"} /\ DOMAIN week = Channel!Happenings
  BY DEF ChannelsInv, ChannelsTyped, PageTyped
<1> QED BY <1>1, <1>2, <1>3 DEF Channel!ChannelsTypeOK

(* ChannelsClient, ChannelsService: the invariant below the two that       *)
(* follow, under every order of answers, losses and visits.                *)
THEOREM ChannelsInvariant == Channel!Spec => []ChannelsInv
<1>1. Channel!Init => ChannelsInv
  BY ChannelsInit, ScreensAssumption
<1>2. ChannelsInv /\ [Channel!Next]_Channel!vars => ChannelsInv'
  BY ChannelsNext
<1> QED BY <1>1, <1>2, PTL DEF Channel!Spec

(* ChannelsClient: with nothing in progress the page shows the table, but  *)
(* for the rows changed in a way it was not told of.                       *)
THEOREM PageIsTheTable == Channel!Spec => []PageMatchesTable
<1> QED BY ChannelsInvariant, PageMatches, PTL

(* ChannelsService: connections are of ids and accounts used once, and     *)
(* calls, modal and rows keep to their types.                              *)
THEOREM ChannelsTypeCorrect == Channel!Spec => []Channel!ChannelsTypeOK
<1> QED BY ChannelsInvariant, ChannelTypes, PTL

-----------------------------------------------------------------------------
(***************************************************************************)
(* The list of enquiries.                                                  *)
(***************************************************************************)
Lists == {"list", "afterDelete", "afterBulk"}
Asking(c) ==
    /\ DOMAIN c = {"op", "key", "ids", "at", "answer"}
    /\ c.op \in Lists \cup {"delete", "bulk"} /\ c.key \in List!Keys /\ c.ids \in SUBSET Enquiries
    /\ c.at \in {"asked", "found", "ok", "failed"}
AsksTyped ==
    /\ \E S : asks \in Seq(S)
    /\ \A i \in DOMAIN asks : Asking(asks[i]) /\ (i > 1 => asks[i].at = "asked")
ListTyped ==
    /\ listed \subseteq Enquiries /\ chosen \subseteq Enquiries /\ deleted \subseteq Enquiries \ listed
    /\ search \in Texts /\ choice \in Filters /\ leaf \in Nat \ {0} /\ data.items \subseteq Enquiries
    /\ debounce \in List!Keys \cup {Nothing}
    /\ crossed \in BOOLEAN /\ DOMAIN visit = List!Happenings

(* What the first request has been answered.                               *)
FirstAnswer ==
    asks # <<>> /\ asks[1].at = "ok" =>
        IF asks[1].op \in Lists
        THEN /\ asks[1].answer.key = asks[1].key /\ asks[1].answer.items \subseteq Enquiries
             /\ asks[1].answer.items \cap deleted = {}
        ELSE asks[1].ids \cap listed = {}

(* Nothing was loaded for choices that had changed: what is typed waits    *)
(* for the choices shown, and only while nothing is deleted; ...           *)
FirstPage == List!Key(search, choice, 1)
IsList(i) == asks[i].op = "list"
TimerFollows == debounce # Nothing => debounce = FirstPage /\ \A i \in DOMAIN asks : IsList(i)
(* ... the last list asked for is of the choices shown, or the one shown   *)
(* is when none is asked for; ...                                          *)
LastIsHere ==
    debounce = Nothing =>
        /\ \A i \in DOMAIN asks :
            IsList(i) /\ (\A j \in DOMAIN asks : j > i => ~IsList(j)) => asks[i].key = List!Here
        /\ (\A i \in DOMAIN asks : ~IsList(i)) => data.key = List!Here
(* ... deletions were asked for under the choices shown, after the lists;  *)
DeletedHere ==
    \A i \in DOMAIN asks :
        /\ asks[i].op \in {"delete", "afterDelete"} => asks[i].key = List!Here
        /\ asks[i].op \in {"bulk", "afterBulk"} => asks[i].key = FirstPage
        /\ \A j \in DOMAIN asks : j > i /\ ~IsList(i) => ~IsList(j)
(* ... and what is deleted is not shown, or a list is still to come.       *)
NoneDeletedShown ==
    debounce = Nothing =>
        data.items \cap deleted = {} \/ \E i \in DOMAIN asks : asks[i].op \in Lists
ListFollows == ~crossed => TimerFollows /\ LastIsHere /\ DeletedHere /\ NoneDeletedShown
ListInv == AsksTyped /\ ListTyped /\ FirstAnswer /\ ListFollows

-----------------------------------------------------------------------------
LEMMA KeysAre ==
    ASSUME NEW s \in Texts, NEW f \in Filters, NEW p \in Nat \ {0}
    PROVE  List!Key(s, f, p) \in List!Keys /\ List!Key(s, f, p) # Nothing
<1>1. List!Key(s, f, p) \in List!Keys
  BY DEF List!Key, List!Keys
<1>2. Nothing \notin List!Keys
  BY ScreensAssumption DEF List!VisitsOK
<1> QED BY <1>1, <1>2

LEMMA ListInit == List!Init => ListInv
<1> SUFFICES ASSUME List!Init PROVE ListInv
  OBVIOUS
<1>1. PICK v \in Visits : leaf = v.page /\ visit = v.left /\ data = List!FindAll(List!Key("", "all", v.page))
  BY DEF List!Init
<1>2. /\ listed = Enquiries /\ search = "" /\ choice = "all" /\ debounce = Nothing /\ asks = <<>>
      /\ chosen = {} /\ deleted = {} /\ crossed = FALSE
  BY DEF List!Init
<1>3. /\ leaf \in Nat \ {0} /\ DOMAIN visit = List!Happenings /\ search \in Texts /\ choice \in Filters
  BY <1>1, <1>2, ScreensAssumption DEF List!VisitsOK
<1>4. data.items \subseteq Enquiries /\ data.key = List!Here
  BY <1>1, <1>2 DEF List!FindAll, List!Here
<1>5. ListTyped
  BY <1>2, <1>3, <1>4 DEF ListTyped
<1>6. asks \in Seq(Nat) /\ \A i \in DOMAIN asks : FALSE
  <2>1. asks = <<>>
    BY <1>2
  <2>2. asks \in Seq(Nat) /\ Len(asks) = 0
    BY <2>1
  <2> QED BY <2>2
<1>7. AsksTyped
  BY <1>6 DEF AsksTyped
<1>8. FirstAnswer /\ ListFollows
  BY <1>2, <1>4, <1>6 DEF FirstAnswer, ListFollows, TimerFollows, LastIsHere, DeletedHere, NoneDeletedShown
<1> QED BY <1>5, <1>7, <1>8 DEF ListInv

-----------------------------------------------------------------------------
(* What becomes of the requests.                                           *)
Added(c) ==
    /\ Asking(c) /\ c.at = "asked"
    /\ asks' = Append(asks, c)
LEMMA AddedIs ==
    ASSUME AsksTyped, NEW c, Added(c)
    PROVE  /\ AsksTyped'
           /\ Len(asks) \in Nat /\ DOMAIN asks = 1..Len(asks) /\ DOMAIN asks' = 1..(Len(asks) + 1)
           /\ asks'[Len(asks) + 1] = c
           /\ \A i \in DOMAIN asks : asks'[i] = asks[i]
<1>1. PICK S : asks \in Seq(S)
  BY DEF AsksTyped
<1>2. /\ asks' \in Seq(S \cup {c}) /\ Len(asks) \in Nat /\ DOMAIN asks = 1..Len(asks) /\ DOMAIN asks' = 1..(Len(asks) + 1)
      /\ asks'[Len(asks) + 1] = c /\ \A i \in DOMAIN asks : asks'[i] = asks[i]
  BY <1>1 DEF Added
<1>3. \A i \in DOMAIN asks' : Asking(asks'[i]) /\ (i > 1 => asks'[i].at = "asked")
  BY <1>2 DEF Added, AsksTyped
<1>4. AsksTyped'
  BY <1>2, <1>3 DEF AsksTyped, Asking
<1> QED BY <1>2, <1>4

Popped == asks # <<>> /\ asks' = Tail(asks)
LEMMA PoppedIs ==
    ASSUME AsksTyped, Popped
    PROVE  /\ AsksTyped'
           /\ Len(asks) \in Nat \ {0} /\ DOMAIN asks = 1..Len(asks) /\ DOMAIN asks' = 1..(Len(asks) - 1)
           /\ \A i \in DOMAIN asks' : i \in Nat \ {0} /\ i + 1 \in DOMAIN asks /\ asks'[i] = asks[i + 1] /\ asks'[i].at = "asked"
           /\ \A i \in DOMAIN asks : i = 1 \/ (i - 1 \in DOMAIN asks' /\ asks'[i - 1] = asks[i])
<1>1. PICK S : asks \in Seq(S)
  BY DEF AsksTyped
<1>2. /\ asks' \in Seq(S) /\ Len(asks) \in Nat \ {0} /\ DOMAIN asks = 1..Len(asks) /\ DOMAIN asks' = 1..(Len(asks) - 1)
      /\ \A i \in DOMAIN asks' : i \in Nat \ {0} /\ i + 1 \in DOMAIN asks /\ asks'[i] = asks[i + 1]
      /\ \A i \in DOMAIN asks : i = 1 \/ (i - 1 \in DOMAIN asks' /\ asks'[i - 1] = asks[i])
  BY <1>1 DEF Popped
<1>3. \A i \in DOMAIN asks' : Asking(asks'[i]) /\ asks'[i].at = "asked"
  BY <1>2 DEF AsksTyped
<1>4. AsksTyped'
  BY <1>2, <1>3 DEF AsksTyped, Asking
<1> QED BY <1>2, <1>3, <1>4

AnsweredAs(at, a) ==
    /\ asks # <<>> /\ at \in {"asked", "found", "ok", "failed"}
    /\ asks' = [asks EXCEPT ![1] = [asks[1] EXCEPT !.at = at, !.answer = a]]
LEMMA AnsweredIsAs ==
    ASSUME AsksTyped, NEW at, NEW a, AnsweredAs(at, a)
    PROVE  /\ AsksTyped' /\ asks' # <<>> /\ 1 \in DOMAIN asks
           /\ DOMAIN asks' = DOMAIN asks /\ asks'[1].at = at /\ asks'[1].answer = a
           /\ \A i \in DOMAIN asks : /\ asks'[i].op = asks[i].op /\ asks'[i].key = asks[i].key
                                     /\ asks'[i].ids = asks[i].ids
<1>1. PICK S : asks \in Seq(S)
  BY DEF AsksTyped
<1>2. PICK c : c = [asks[1] EXCEPT !.at = at, !.answer = a]
  OBVIOUS
<1>3. 1 \in DOMAIN asks /\ Asking(asks[1])
  BY <1>1 DEF AnsweredAs, AsksTyped
<1>4. Asking(c) /\ c.at = at /\ c.answer = a /\ c.op = asks[1].op /\ c.key = asks[1].key /\ c.ids = asks[1].ids
  BY <1>2, <1>3 DEF Asking, AnsweredAs
<1>5. /\ asks' \in Seq(S \cup {c}) /\ DOMAIN asks' = DOMAIN asks /\ asks'[1] = c /\ asks' # <<>>
      /\ \A i \in DOMAIN asks : i = 1 \/ asks'[i] = asks[i]
  BY <1>1, <1>2, <1>3 DEF AnsweredAs
<1>6. \A i \in DOMAIN asks' : Asking(asks'[i]) /\ (i > 1 => asks'[i].at = "asked")
  BY <1>4, <1>5 DEF AsksTyped
<1>7. AsksTyped'
  BY <1>5, <1>6 DEF AsksTyped, Asking
<1> QED BY <1>3, <1>4, <1>5, <1>7

-----------------------------------------------------------------------------
choices == <<search, choice, leaf, debounce>>
LEMMA HereIs ==
    ASSUME ListTyped
    PROVE  /\ List!Here \in List!Keys /\ List!Here # Nothing /\ List!Here = List!Key(search, choice, leaf)
           /\ FirstPage \in List!Keys /\ FirstPage # Nothing
           /\ leaf = 1 => FirstPage = List!Here
BY KeysAre DEF ListTyped, List!Here, FirstPage

LEMMA TicksOK == ASSUME ListInv, List!ToggleSelectAll \/ \E id \in data.items : List!ToggleSelectOne(id) PROVE ListInv'
<1>1. /\ UNCHANGED <<listed, choices, asks, data, deleted, crossed>>
      /\ visit' = [visit EXCEPT !["ticks"] = @ - 1]
  BY DEF List!ToggleSelectAll, List!ToggleSelectOne, List!Spend, choices
<1>2. chosen' \subseteq Enquiries
  BY DEF List!ToggleSelectAll, List!ToggleSelectOne, List!Shown, ListInv, ListTyped
<1>3. ListTyped'
  BY <1>1, <1>2 DEF ListInv, ListTyped, choices
<1>4. AsksTyped' /\ FirstAnswer'
  BY <1>1 DEF ListInv, AsksTyped, Asking, FirstAnswer
<1>5. ListFollows'
  BY <1>1 DEF ListInv, ListFollows, TimerFollows, LastIsHere, DeletedHere, NoneDeletedShown, IsList,
              FirstPage, List!Key, List!Here, choices
<1> QED BY <1>3, <1>4, <1>5 DEF ListInv

(* Lists are asked for, the last for the choices there are then.           *)
LEMMA LoadsOK ==
    ASSUME ListInv, ListTyped', AsksTyped', UNCHANGED <<listed, data, deleted>>,
           NEW n \in Nat \ {0}, Len(asks) \in Nat, DOMAIN asks = 1..Len(asks), DOMAIN asks' = 1..(Len(asks) + n),
           \A i \in DOMAIN asks : asks'[i] = asks[i],
           \A i \in DOMAIN asks' \ DOMAIN asks : asks'[i].op = "list" /\ asks'[i].at = "asked",
           ~crossed' => /\ asks'[Len(asks) + n].key = List!Here'
                        /\ \A i \in DOMAIN asks : IsList(i)
                        /\ debounce' # Nothing => debounce' = FirstPage'
    PROVE  ListInv'
<1>1. 1 \notin DOMAIN asks => asks'[1].at = "asked"
  OBVIOUS
<1>2. FirstAnswer'
  <2>1. CASE 1 \in DOMAIN asks
    <3>1. asks'[1] = asks[1] /\ asks # <<>>
      BY <2>1
    <3> QED BY <3>1 DEF ListInv, FirstAnswer
  <2>2. CASE 1 \notin DOMAIN asks
    BY <1>1, <2>2 DEF FirstAnswer
  <2> QED BY <2>1, <2>2
<1>3. ListFollows'
  <2> SUFFICES ASSUME ~crossed' PROVE TimerFollows' /\ LastIsHere' /\ DeletedHere' /\ NoneDeletedShown'
    BY DEF ListFollows
  <2>1. \A i \in DOMAIN asks' : asks'[i].op = "list"
    BY DEF IsList
  <2>2. Len(asks) + n \in DOMAIN asks' /\ \A i \in DOMAIN asks' : i = Len(asks) + n \/ Len(asks) + n > i
    OBVIOUS
  <2> QED BY <2>1, <2>2 DEF TimerFollows, LastIsHere, DeletedHere, NoneDeletedShown, IsList, Lists
<1> QED BY <1>2, <1>3 DEF ListInv

LEMMA OneLoadOK ==
    ASSUME ListInv, ListTyped', NEW c, Added(c), c.op = "list", UNCHANGED <<listed, data, deleted>>,
           ~crossed' => /\ c.key = List!Here'
                        /\ \A i \in DOMAIN asks : IsList(i)
                        /\ debounce' # Nothing => debounce' = FirstPage'
    PROVE  ListInv'
<1>1. /\ AsksTyped' /\ Len(asks) \in Nat /\ DOMAIN asks = 1..Len(asks) /\ DOMAIN asks' = 1..(Len(asks) + 1)
      /\ asks'[Len(asks) + 1] = c /\ \A i \in DOMAIN asks : asks'[i] = asks[i]
  BY AddedIs DEF ListInv
<1>2. \A i \in DOMAIN asks' \ DOMAIN asks : asks'[i].op = "list" /\ asks'[i].at = "asked"
  BY <1>1 DEF Added
<1> QED BY <1>1, <1>2, LoadsOK

LEMMA ChoicesOK ==
    ASSUME ListInv, \/ \E f \in Filters : List!HandleFilterChange(f) \/ List!HandleKpiClick(f)
                    \/ \E p \in List!GetPageNumbers : List!HandlePageChange(p)
    PROVE  ListInv'
<1>1. ListTyped
  BY DEF ListInv
<1>2. CASE \E f \in Filters : List!HandleFilterChange(f) \/ List!HandleKpiClick(f)
  <2>1. PICK f \in Filters : List!HandleFilterChange(f)
    BY <1>2, ScreensAssumption DEF List!HandleKpiClick, List!VisitsOK
  <2>2. /\ choice' = f /\ leaf' = 1 /\ asks' = Append(asks, List!Load(List!Key(search, f, 1)))
        /\ crossed' = (debounce # Nothing \/ List!Deleting(asks)) /\ visit' = [visit EXCEPT !["filters"] = @ - 1]
        /\ UNCHANGED <<listed, search, debounce, data, chosen, deleted>>
    BY <2>1 DEF List!HandleFilterChange, List!Spend
  <2>3. ListTyped'
    BY <1>1, <2>2 DEF ListTyped
  <2>4. PICK c : c = List!Load(List!Key(search, f, 1))
    OBVIOUS
  <2>5. List!Key(search, f, 1) \in List!Keys /\ List!Key(search, f, 1) = List!Here'
    BY <1>1, <2>2, KeysAre DEF ListTyped, List!Here, List!Key
  <2>6. Added(c) /\ c.op = "list" /\ c.key = List!Here'
    BY <2>2, <2>4, <2>5 DEF Added, Asking, List!Load, List!Request, Lists
  <2>7. ~crossed' => debounce' = Nothing /\ \A i \in DOMAIN asks : IsList(i)
    BY <2>2 DEF List!Deleting, IsList
  <2> QED BY <2>2, <2>3, <2>6, <2>7, OneLoadOK
<1>3. CASE \E p \in List!GetPageNumbers : List!HandlePageChange(p)
  <2>1. PICK p \in List!GetPageNumbers : List!HandlePageChange(p)
    BY <1>3
  <2>2. /\ leaf' = p /\ asks' = Append(asks, List!Load(List!Key(search, choice, p)))
        /\ crossed' = (List!Deleting(asks) \/ (crossed /\ debounce # Nothing)) /\ visit' = [visit EXCEPT !["pages"] = @ - 1]
        /\ UNCHANGED <<listed, search, choice, debounce, data, chosen, deleted>>
    BY <2>1 DEF List!HandlePageChange, List!Spend
  <2>3. p \in Nat \ {0}
    BY <1>1 DEF List!GetPageNumbers, ListTyped
  <2>4. ListTyped'
    BY <1>1, <2>2, <2>3 DEF ListTyped
  <2>5. PICK c : c = List!Load(List!Key(search, choice, p))
    OBVIOUS
  <2>6. List!Key(search, choice, p) \in List!Keys /\ List!Key(search, choice, p) = List!Here'
    BY <1>1, <2>2, <2>3, KeysAre DEF ListTyped, List!Here, List!Key
  <2>7. Added(c) /\ c.op = "list" /\ c.key = List!Here'
    BY <2>2, <2>5, <2>6 DEF Added, Asking, List!Load, List!Request, Lists
  <2>8. ~crossed' => \A i \in DOMAIN asks : IsList(i)
    BY <2>2 DEF List!Deleting, IsList
  <2>9. ~crossed' /\ debounce' # Nothing => debounce' = FirstPage'
    BY <2>2 DEF ListInv, ListFollows, TimerFollows, FirstPage, List!Key
  <2> QED BY <2>2, <2>4, <2>7, <2>8, <2>9, OneLoadOK
<1> QED BY <1>2, <1>3

LEMMA TypingOK == ASSUME ListInv, NEW text \in Texts, List!HandleSearchChange(text) PROVE ListInv'
<1>1. /\ search' = text /\ debounce' = List!Key(text, choice, 1) /\ crossed' = List!Deleting(asks)
      /\ UNCHANGED <<listed, choice, leaf, asks, data, chosen, deleted>> /\ visit' = [visit EXCEPT !["types"] = @ - 1]
  BY DEF List!HandleSearchChange, List!Spend
<1>2. ListTyped'
  BY <1>1, KeysAre DEF ListInv, ListTyped, List!Deleting
<1>3. AsksTyped' /\ FirstAnswer'
  BY <1>1 DEF ListInv, AsksTyped, Asking, FirstAnswer
<1>4. debounce' # Nothing /\ debounce' = FirstPage'
  BY <1>1, KeysAre DEF ListInv, ListTyped, FirstPage, List!Key
<1>5. ~crossed' => \A i \in DOMAIN asks' : asks'[i].op = "list"
  BY <1>1 DEF List!Deleting
<1>6. ListFollows'
  BY <1>4, <1>5 DEF ListFollows, TimerFollows, LastIsHere, DeletedHere, NoneDeletedShown, IsList
<1> QED BY <1>2, <1>3, <1>6 DEF ListInv

(* The wait is over: the list is asked for with what was typed, and when   *)
(* the page was another, once more for the first page.                     *)
LEMMA SearchOK == ASSUME ListInv, List!Search PROVE ListInv'
<1>1. /\ debounce # Nothing /\ debounce' = Nothing /\ leaf' = 1
      /\ asks' = Append(asks, List!Load(debounce)) \o (IF leaf = 1 THEN <<>> ELSE <<List!Load(FirstPage)>>)
      /\ UNCHANGED <<listed, search, choice, data, chosen, deleted, crossed, visit>>
  BY DEF List!Search, FirstPage
<1>2. ListTyped /\ AsksTyped
  BY DEF ListInv
<1>3. ListTyped'
  BY <1>1, <1>2 DEF ListTyped
<1>4. FirstPage = List!Here' /\ FirstPage \in List!Keys
  BY <1>1, <1>2, HereIs DEF List!Here, FirstPage, List!Key
<1>5. PICK c : c = List!Load(debounce)
  OBVIOUS
<1>6. PICK d : d = List!Load(FirstPage)
  OBVIOUS
<1>7. /\ Asking(c) /\ c.op = "list" /\ c.at = "asked" /\ c.key = debounce
      /\ Asking(d) /\ d.op = "list" /\ d.at = "asked" /\ d.key = FirstPage
  BY <1>1, <1>2, <1>4, <1>5, <1>6 DEF List!Load, List!Request, Asking, Lists, ListTyped
<1>8. ~crossed' => (\A i \in DOMAIN asks : IsList(i)) /\ debounce = FirstPage
  BY <1>1 DEF ListInv, ListFollows, TimerFollows
<1>9. PICK S : asks \in Seq(S)
  BY <1>2 DEF AsksTyped
<1>10. CASE leaf = 1
  <2>1. Added(c)
    BY <1>1, <1>5, <1>7, <1>9, <1>10 DEF Added
  <2> QED BY <1>1, <1>3, <1>4, <1>7, <1>8, <2>1, OneLoadOK
<1>11. CASE leaf # 1
  <2>1. asks' = Append(Append(asks, c), d)
    BY <1>1, <1>5, <1>6, <1>9, <1>11
  <2>2. /\ asks' \in Seq(S \cup {c, d}) /\ Len(asks) \in Nat /\ DOMAIN asks = 1..Len(asks)
        /\ DOMAIN asks' = 1..(Len(asks) + 2)
        /\ asks'[Len(asks) + 1] = c /\ asks'[Len(asks) + 2] = d /\ \A i \in DOMAIN asks : asks'[i] = asks[i]
    BY <1>9, <2>1
  <2>3. \A i \in DOMAIN asks' : i \in DOMAIN asks \/ asks'[i] = c \/ asks'[i] = d
    BY <2>2
  <2>4. \A i \in DOMAIN asks' : Asking(asks'[i]) /\ (i > 1 => asks'[i].at = "asked")
    BY <1>2, <1>7, <2>2, <2>3 DEF AsksTyped
  <2>5. AsksTyped'
    BY <2>2, <2>4 DEF AsksTyped, Asking
  <2>6. \A i \in DOMAIN asks' \ DOMAIN asks : asks'[i].op = "list" /\ asks'[i].at = "asked"
    BY <1>7, <2>3
  <2>7. PICK n \in Nat \ {0} : n = 2
    OBVIOUS
  <2>8. DOMAIN asks' = 1..(Len(asks) + n) /\ asks'[Len(asks) + n].key = List!Here'
    BY <1>4, <1>7, <2>2, <2>7
  <2> QED BY <1>1, <1>3, <2>2, <1>8, <2>5, <2>6, <2>8, LoadsOK
<1> QED BY <1>10, <1>11

-----------------------------------------------------------------------------
(* A deletion is asked for under the choices shown.                        *)
LEMMA DeletionOK ==
    ASSUME ListInv, NEW c, Added(c), c.op \in {"delete", "bulk"},
           c.key = IF c.op = "bulk" THEN FirstPage ELSE List!Here,
           crossed' = (crossed \/ debounce # Nothing), DOMAIN visit' = List!Happenings,
           UNCHANGED <<listed, choices, data, chosen, deleted>>
    PROVE  ListInv'
<1>1. /\ AsksTyped' /\ Len(asks) \in Nat /\ DOMAIN asks = 1..Len(asks) /\ DOMAIN asks' = 1..(Len(asks) + 1)
      /\ asks'[Len(asks) + 1] = c /\ \A i \in DOMAIN asks : asks'[i] = asks[i]
  BY AddedIs DEF ListInv
<1>2. ListTyped'
  BY DEF ListInv, ListTyped, choices
<1>3. FirstAnswer'
  <2>1. CASE 1 \in DOMAIN asks
    <3>1. asks'[1] = asks[1] /\ asks # <<>>
      BY <1>1, <2>1
    <3> QED BY <3>1 DEF ListInv, FirstAnswer
  <2>2. CASE 1 \notin DOMAIN asks
    BY <1>1, <2>2 DEF FirstAnswer, Added
  <2> QED BY <2>1, <2>2
<1>4. ListFollows'
  <2> SUFFICES ASSUME ~crossed' PROVE TimerFollows' /\ LastIsHere' /\ DeletedHere' /\ NoneDeletedShown'
    BY DEF ListFollows
  <2>1. debounce' = Nothing /\ debounce = Nothing /\ ListFollows /\ ~crossed /\ c.op # "list"
    BY DEF choices, ListInv
  <2>2. List!Here' = List!Here /\ FirstPage' = FirstPage
    BY DEF List!Here, FirstPage, List!Key, choices
  <2>3. \A i \in DOMAIN asks' : i \in DOMAIN asks \/ (i = Len(asks) + 1 /\ asks'[i] = c /\ ~IsList(i)')
    BY <1>1, <2>1 DEF IsList
  <2>4. \A i \in DOMAIN asks : IsList(i)' <=> IsList(i)
    BY <1>1 DEF IsList
  <2>5. LastIsHere'
    <3>1. \A i \in DOMAIN asks' : IsList(i)' /\ (\A j \in DOMAIN asks' : j > i => ~IsList(j)') => asks'[i].key = List!Here
      BY <1>1, <2>1, <2>3, <2>4 DEF ListFollows, LastIsHere
    <3>2. (\A i \in DOMAIN asks' : ~IsList(i)') => data.key = List!Here
      BY <1>1, <2>1, <2>4 DEF ListFollows, LastIsHere
    <3> QED BY <2>2, <3>1, <3>2 DEF LastIsHere
  <2>6. DeletedHere'
    <3>1. \A i \in DOMAIN asks' : /\ asks'[i].op \in {"delete", "afterDelete"} => asks'[i].key = List!Here
                                  /\ asks'[i].op \in {"bulk", "afterBulk"} => asks'[i].key = FirstPage
      BY <1>1, <2>1, <2>3 DEF ListFollows, DeletedHere
    <3>2. \A i \in DOMAIN asks', j \in DOMAIN asks' : j > i /\ ~IsList(i)' => ~IsList(j)'
      BY <1>1, <2>1, <2>3, <2>4 DEF ListFollows, DeletedHere
    <3> QED BY <2>2, <3>1, <3>2 DEF DeletedHere
  <2>7. NoneDeletedShown'
    BY <1>1, <2>1 DEF ListFollows, NoneDeletedShown
  <2> QED BY <2>1, <2>5, <2>6, <2>7 DEF TimerFollows
<1> QED BY <1>1, <1>2, <1>3, <1>4 DEF ListInv

LEMMA DeletingOK ==
    ASSUME ListInv, List!HandleDeleteBulk \/ \E id \in data.items : List!HandleDeleteSingle(id)
    PROVE  ListInv'
<1>1. ListTyped
  BY DEF ListInv
<1>2. CASE List!HandleDeleteBulk
  <2>1. /\ asks' = Append(asks, List!Request("bulk", FirstPage, chosen)) /\ visit' = [visit EXCEPT !["bulks"] = @ - 1]
        /\ crossed' = (crossed \/ debounce # Nothing) /\ UNCHANGED <<listed, choices, data, chosen, deleted>>
    BY <1>2 DEF List!HandleDeleteBulk, List!Spend, FirstPage, choices
  <2>2. PICK c : c = List!Request("bulk", FirstPage, chosen)
    OBVIOUS
  <2>3. Added(c) /\ c.op = "bulk" /\ c.key = FirstPage
    BY <1>1, <2>1, <2>2, HereIs DEF Added, Asking, List!Request, ListTyped
  <2> QED BY <1>1, <2>1, <2>3, DeletionOK DEF ListTyped
<1>3. CASE \E id \in data.items : List!HandleDeleteSingle(id)
  <2>1. PICK id \in data.items : List!HandleDeleteSingle(id)
    BY <1>3
  <2>2. /\ asks' = Append(asks, List!Request("delete", List!Here, {id})) /\ visit' = [visit EXCEPT !["singles"] = @ - 1]
        /\ crossed' = (crossed \/ debounce # Nothing) /\ UNCHANGED <<listed, choices, data, chosen, deleted>>
    BY <2>1 DEF List!HandleDeleteSingle, List!Spend, choices
  <2>3. PICK c : c = List!Request("delete", List!Here, {id})
    OBVIOUS
  <2>4. Added(c) /\ c.op = "delete" /\ c.key = List!Here
    BY <1>1, <2>1, <2>2, <2>3, HereIs DEF Added, Asking, List!Request, ListTyped
  <2> QED BY <1>1, <2>2, <2>4, DeletionOK DEF ListTyped
<1> QED BY <1>2, <1>3

-----------------------------------------------------------------------------
(* The back end answers, and others delete.                                *)
LEMMA AnswerKeeps ==
    ASSUME ListInv, NEW at, NEW a, AnsweredAs(at, a), UNCHANGED <<choices, data, deleted, crossed>>
    PROVE  ListFollows'
<1>1. /\ DOMAIN asks' = DOMAIN asks
      /\ \A i \in DOMAIN asks : asks'[i].op = asks[i].op /\ asks'[i].key = asks[i].key
  BY AnsweredIsAs DEF ListInv
<1>2. List!Here' = List!Here /\ FirstPage' = FirstPage
  BY DEF List!Here, FirstPage, List!Key, choices
<1>3. ListFollows /\ \A i \in DOMAIN asks : IsList(i)' <=> IsList(i)
  BY <1>1 DEF ListInv, IsList
<1>4. TimerFollows => TimerFollows'
  BY <1>1, <1>2, <1>3 DEF TimerFollows, choices
<1>5. LastIsHere => LastIsHere'
  BY <1>1, <1>2, <1>3 DEF LastIsHere, choices
<1>6. DeletedHere => DeletedHere'
  BY <1>1, <1>2, <1>3 DEF DeletedHere
<1>7. NoneDeletedShown => NoneDeletedShown'
  BY <1>1 DEF NoneDeletedShown, choices
<1> QED BY <1>3, <1>4, <1>5, <1>6, <1>7 DEF ListFollows

LEMMA AnswersOK ==
    ASSUME ListInv, List!List \/ List!FindOne \/ List!RemoveOne \/ List!BulkDelete \/ List!Lose
    PROVE  ListInv'
<1>1. ListTyped /\ AsksTyped /\ FirstAnswer
  BY DEF ListInv
<1>2. asks # <<>> /\ UNCHANGED <<choices, data, chosen, deleted, crossed>> /\ DOMAIN visit' = DOMAIN visit
  BY DEF List!List, List!FindOne, List!RemoveOne, List!BulkDelete, List!Lose, List!screen, List!Asked, List!Spend, choices
<1>3. listed' \subseteq listed
  BY DEF List!List, List!FindOne, List!RemoveOne, List!BulkDelete, List!Lose
<1>4. ListTyped'
  BY <1>1, <1>2, <1>3 DEF ListTyped, choices
<1>5. Asking(asks[1])
  <2>1. PICK S : asks \in Seq(S)
    BY <1>1 DEF AsksTyped
  <2> QED BY <1>1, <1>2, <2>1 DEF AsksTyped
<1>6. CASE List!List
  <2>1. PICK a : a = List!FindAll(asks[1].key)
    OBVIOUS
  <2>2. AnsweredAs("ok", a) /\ asks[1].op \in Lists /\ UNCHANGED listed
    BY <1>6, <2>1 DEF AnsweredAs, List!List, List!Asked, List!Answer, Lists
  <2>3. a.key = asks[1].key /\ a.items \subseteq listed
    BY <2>1 DEF List!FindAll
  <2>4. a.items \subseteq Enquiries /\ a.items \cap deleted = {}
    BY <1>1, <2>3 DEF ListTyped
  <2>5. /\ AsksTyped' /\ 1 \in DOMAIN asks /\ asks'[1].answer = a /\ asks'[1].op = asks[1].op /\ asks'[1].key = asks[1].key
    BY <1>1, <2>2, AnsweredIsAs
  <2>6. FirstAnswer'
    BY <1>2, <2>2, <2>3, <2>4, <2>5 DEF FirstAnswer
  <2> QED BY <1>2, <1>4, <2>2, <2>5, <2>6, AnswerKeeps DEF ListInv
<1>7. CASE List!FindOne
  <2>1. PICK at : at = (IF asks[1].ids \subseteq listed THEN "found" ELSE "failed")
    OBVIOUS
  <2>2. AnsweredAs(at, Nothing) /\ at # "ok"
    BY <1>7, <2>1 DEF AnsweredAs, List!FindOne, List!Asked, List!Answer
  <2>3. AsksTyped' /\ asks'[1].at # "ok"
    BY <1>1, <2>2, AnsweredIsAs
  <2>4. FirstAnswer'
    BY <2>3 DEF FirstAnswer
  <2> QED BY <1>2, <1>4, <2>2, <2>3, <2>4, AnswerKeeps DEF ListInv
<1>8. CASE List!RemoveOne \/ List!BulkDelete
  <2>1. PICK at \in {"ok", "failed"} : AnsweredAs(at, Nothing)
    BY <1>8 DEF AnsweredAs, List!RemoveOne, List!BulkDelete, List!Asked, List!Answer
  <2>2. asks[1].op \notin Lists /\ listed' = listed \ asks[1].ids
    BY <1>8 DEF List!RemoveOne, List!BulkDelete, List!Asked, Lists
  <2>3. AsksTyped' /\ asks'[1].op = asks[1].op /\ asks'[1].ids = asks[1].ids
    BY <1>1, <2>1, AnsweredIsAs
  <2>4. FirstAnswer'
    BY <2>2, <2>3 DEF FirstAnswer
  <2> QED BY <1>2, <1>4, <2>1, <2>3, <2>4, AnswerKeeps DEF ListInv
<1>9. CASE List!Lose
  <2>1. AnsweredAs("failed", Nothing)
    BY <1>9 DEF AnsweredAs, List!Lose, List!Answer
  <2>2. AsksTyped' /\ asks'[1].at = "failed"
    BY <1>1, <2>1, AnsweredIsAs
  <2>3. FirstAnswer'
    BY <2>2 DEF FirstAnswer
  <2> QED BY <1>2, <1>4, <2>1, <2>2, <2>3, AnswerKeeps DEF ListInv
<1> QED BY <1>6, <1>7, <1>8, <1>9

LEMMA DeletedElsewhereOK == ASSUME ListInv, List!Elsewhere PROVE ListInv'
<1>1. /\ listed' \subseteq listed /\ DOMAIN visit' = DOMAIN visit
      /\ UNCHANGED <<choices, asks, data, chosen, deleted, crossed>>
  BY DEF List!Elsewhere, List!Spend, List!screen, choices
<1>2. ListTyped'
  BY <1>1 DEF ListInv, ListTyped, choices
<1>3. AsksTyped'
  BY <1>1 DEF ListInv, AsksTyped, Asking
<1>4. FirstAnswer'
  BY <1>1 DEF ListInv, FirstAnswer
<1>5. ListFollows'
  BY <1>1 DEF ListInv, ListFollows, TimerFollows, LastIsHere, DeletedHere, NoneDeletedShown, IsList,
              FirstPage, List!Key, List!Here, choices
<1> QED BY <1>2, <1>3, <1>4, <1>5 DEF ListInv

-----------------------------------------------------------------------------
(* What follows an answer: the first request is gone.                      *)
LEMMA ShowOK ==
    ASSUME ListInv, Popped, UNCHANGED <<listed, choices, chosen, deleted, visit>>,
           asks[1].op \in Lists, asks[1].at = "ok" \/ crossed',
           crossed' \in BOOLEAN, crossed' \/ ~crossed, ~crossed' => data' = asks[1].answer,
           data'.items \subseteq Enquiries,
           ~crossed' /\ asks[1].op = "afterBulk" => leaf = 1
    PROVE  ListInv'
<1>1. /\ AsksTyped' /\ Len(asks) \in Nat \ {0} /\ DOMAIN asks = 1..Len(asks) /\ DOMAIN asks' = 1..(Len(asks) - 1)
      /\ \A i \in DOMAIN asks' : i \in Nat \ {0} /\ i + 1 \in DOMAIN asks /\ asks'[i] = asks[i + 1] /\ asks'[i].at = "asked"
      /\ \A i \in DOMAIN asks : i = 1 \/ (i - 1 \in DOMAIN asks' /\ asks'[i - 1] = asks[i])
  BY PoppedIs DEF ListInv
<1>2. ListTyped'
  BY DEF ListInv, ListTyped, choices
<1>3. asks' = <<>> \/ 1 \in DOMAIN asks'
  <2>1. PICK S : asks' \in Seq(S)
    BY <1>1 DEF AsksTyped
  <2> QED BY <2>1
<1>4. FirstAnswer'
  BY <1>1, <1>3 DEF FirstAnswer
<1>5. ASSUME ~crossed' PROVE TimerFollows' /\ LastIsHere' /\ DeletedHere' /\ NoneDeletedShown'
  <2>1. ListFollows /\ ~crossed /\ asks # <<>> /\ asks[1].at = "ok" /\ FirstAnswer /\ ListTyped
    BY <1>5 DEF ListInv, Popped
  <2>2. List!Here' = List!Here /\ FirstPage' = FirstPage
    BY DEF List!Here, FirstPage, List!Key, choices
  <2>3. data'.key = asks[1].key /\ data'.items \cap deleted = {}
    BY <1>5, <2>1 DEF FirstAnswer
  <2>4. \A i \in DOMAIN asks' : IsList(i)' <=> IsList(i + 1)
    BY <1>1 DEF IsList
  <2>5. TimerFollows'
    BY <1>1, <2>1, <2>2, <2>4 DEF TimerFollows, ListFollows, choices
  <2>6. LastIsHere'
    <3> SUFFICES ASSUME debounce = Nothing
                 PROVE  /\ \A i \in DOMAIN asks' : IsList(i)' /\ (\A j \in DOMAIN asks' : j > i => ~IsList(j)')
                                                   => asks'[i].key = List!Here
                        /\ (\A i \in DOMAIN asks' : ~IsList(i)') => data'.key = List!Here
      BY <2>2 DEF LastIsHere, choices
    <3>1. ASSUME NEW i \in DOMAIN asks', IsList(i)', \A j \in DOMAIN asks' : j > i => ~IsList(j)'
          PROVE  asks'[i].key = List!Here
      <4>1. IsList(i + 1) /\ i + 1 \in DOMAIN asks
        BY <1>1, <2>4, <3>1
      <4>2. \A j \in DOMAIN asks : j > i + 1 => j - 1 \in DOMAIN asks' /\ j - 1 > i /\ (j - 1) + 1 = j
        BY <1>1
      <4>3. \A j \in DOMAIN asks : j > i + 1 => ~IsList(j)
        BY <2>4, <3>1, <4>2
      <4> QED BY <1>1, <2>1, <4>1, <4>3 DEF ListFollows, LastIsHere
    <3>2. ASSUME \A i \in DOMAIN asks' : ~IsList(i)' PROVE data'.key = List!Here
      <4>1. \A j \in DOMAIN asks : j > 1 => j - 1 \in DOMAIN asks' /\ (j - 1) + 1 = j
        BY <1>1
      <4>2. \A j \in DOMAIN asks : j > 1 => ~IsList(j)
        BY <2>4, <3>2, <4>1
      <4>3. 1 \in DOMAIN asks
        BY <1>1
      <4>4. CASE IsList(1)
        BY <2>1, <2>3, <4>2, <4>3, <4>4 DEF ListFollows, LastIsHere
      <4>5. CASE asks[1].op = "afterDelete"
        BY <2>1, <2>3, <4>3, <4>5 DEF ListFollows, DeletedHere
      <4>6. CASE asks[1].op = "afterBulk"
        BY <1>5, <2>1, <2>3, <4>3, <4>6, HereIs DEF ListFollows, DeletedHere
      <4> QED BY <4>4, <4>5, <4>6 DEF Lists, IsList
    <3> QED BY <3>1, <3>2
  <2>7. DeletedHere'
    <3>1. \A i \in DOMAIN asks' : /\ asks'[i].op \in {"delete", "afterDelete"} => asks'[i].key = List!Here
                                  /\ asks'[i].op \in {"bulk", "afterBulk"} => asks'[i].key = FirstPage
      BY <1>1, <2>1 DEF ListFollows, DeletedHere
    <3>2. \A i \in DOMAIN asks', j \in DOMAIN asks' : j > i /\ ~IsList(i)' => ~IsList(j)'
      <4>1. \A i \in DOMAIN asks', j \in DOMAIN asks' : j > i => j + 1 > i + 1
        BY <1>1
      <4> QED BY <1>1, <2>1, <2>4, <4>1 DEF ListFollows, DeletedHere
    <3> QED BY <2>2, <3>1, <3>2 DEF DeletedHere
  <2>8. NoneDeletedShown'
    BY <2>3 DEF NoneDeletedShown
  <2> QED BY <2>5, <2>6, <2>7, <2>8
<1> QED BY <1>1, <1>2, <1>4, <1>5 DEF ListInv, ListFollows

LEMMA FetchOK == ASSUME ListInv, List!FetchData PROVE ListInv'
<1>1. ListTyped /\ FirstAnswer
  BY DEF ListInv
<1>2. /\ asks # <<>> /\ asks[1].op \in Lists /\ asks[1].op # "afterBulk" /\ asks[1].at \in {"ok", "failed"} /\ Popped
      /\ data' = IF asks[1].at = "ok" THEN asks[1].answer ELSE data
      /\ crossed' = (crossed \/ ~(asks[1].at = "ok"))
      /\ UNCHANGED <<listed, choices, chosen, deleted, visit>>
  BY DEF List!FetchData, List!Answered, List!Show, List!Ok, List!kept, Lists, Popped, choices
<1>3. crossed' \in BOOLEAN /\ (crossed' \/ ~crossed) /\ (asks[1].at = "ok" \/ crossed')
  BY <1>1, <1>2 DEF ListTyped
<1>4. data'.items \subseteq Enquiries /\ (~crossed' => data' = asks[1].answer)
  BY <1>1, <1>2, <1>3 DEF ListTyped, FirstAnswer
<1> QED BY <1>2, <1>3, <1>4, ShowOK

LEMMA AfterDeletionOK == ASSUME ListInv, List!AfterDelete PROVE ListInv'
<1>1. ListTyped /\ AsksTyped /\ FirstAnswer
  BY DEF ListInv
<1>2. PICK d : d = List!Request(IF asks[1].op = "bulk" THEN "afterBulk" ELSE "afterDelete", asks[1].key, {})
  OBVIOUS
<1>3. /\ asks # <<>> /\ asks[1].op \in {"delete", "bulk"} /\ asks[1].at \in {"ok", "failed"}
      /\ asks' = Tail(asks) \o (IF asks[1].at = "ok" THEN <<d>> ELSE <<>>)
      /\ deleted' = (IF asks[1].at = "ok" THEN deleted \cup asks[1].ids ELSE deleted)
      /\ chosen' \subseteq chosen
      /\ UNCHANGED <<listed, choices, data, crossed, visit>>
  BY <1>2 DEF List!AfterDelete, List!Answered, List!Ok, List!kept, choices
<1>4. PICK S : asks \in Seq(S)
  BY <1>1 DEF AsksTyped
<1>5. 1 \in DOMAIN asks /\ Asking(asks[1])
  BY <1>1, <1>3, <1>4 DEF AsksTyped
<1>6. ListTyped'
  <2>1. CASE asks[1].at = "ok"
    BY <1>1, <1>3, <1>5, <2>1 DEF ListTyped, choices, FirstAnswer, Lists, Asking
  <2>2. CASE asks[1].at # "ok"
    BY <1>1, <1>3, <2>2 DEF ListTyped, choices
  <2> QED BY <2>1, <2>2
<1>7. /\ Asking(d) /\ d.at = "asked" /\ d.key = asks[1].key
      /\ d.op = (IF asks[1].op = "bulk" THEN "afterBulk" ELSE "afterDelete")
  BY <1>2, <1>5 DEF Asking, List!Request, Lists
<1>8. PICK n \in Nat : n = IF asks[1].at = "ok" THEN Len(asks) ELSE Len(asks) - 1
  BY <1>3, <1>4
<1>9. /\ asks' \in Seq(S \cup {d}) /\ Len(asks) \in Nat \ {0} /\ DOMAIN asks = 1..Len(asks) /\ DOMAIN asks' = 1..n
      /\ \A i \in DOMAIN asks' : i \in Nat \ {0} /\ ((i + 1 \in DOMAIN asks /\ asks'[i] = asks[i + 1])
                                                   \/ (i = n /\ asks[1].at = "ok" /\ asks'[i] = d))
      /\ \A i \in DOMAIN asks : i = 1 \/ (i - 1 \in DOMAIN asks' /\ asks'[i - 1] = asks[i])
  <2>1. CASE asks[1].at = "ok"
    <3>1. asks' = Append(Tail(asks), d)
      BY <1>3, <1>4, <2>1
    <3> QED BY <1>3, <1>4, <1>8, <2>1, <3>1
  <2>2. CASE asks[1].at # "ok"
    <3>1. asks' = Tail(asks)
      BY <1>3, <1>4, <2>2
    <3> QED BY <1>3, <1>4, <1>8, <2>2, <3>1
  <2> QED BY <2>1, <2>2
<1>10. \A i \in DOMAIN asks' : Asking(asks'[i]) /\ asks'[i].at = "asked"
  BY <1>1, <1>7, <1>9 DEF AsksTyped
<1>11. AsksTyped'
  BY <1>9, <1>10 DEF AsksTyped, Asking
<1>12. FirstAnswer'
  BY <1>9, <1>10 DEF FirstAnswer
<1>13. ASSUME ~crossed PROVE TimerFollows' /\ LastIsHere' /\ DeletedHere' /\ NoneDeletedShown'
  <2>1. ListFollows
    BY DEF ListInv
  <2>2. TimerFollows /\ LastIsHere /\ DeletedHere /\ NoneDeletedShown
    BY <1>13, <2>1 DEF ListFollows
  <2>3. ~IsList(1) /\ debounce = Nothing
    BY <1>3, <1>5, <2>2 DEF IsList, TimerFollows
  <2>4. \A i \in DOMAIN asks : ~IsList(i)
    BY <1>5, <1>9, <2>2, <2>3 DEF DeletedHere
  <2>5. \A i \in DOMAIN asks' : ~IsList(i)'
    BY <1>7, <1>9, <2>4 DEF IsList
  <2>6. List!Here' = List!Here /\ FirstPage' = FirstPage /\ debounce' = Nothing /\ data' = data
    BY <1>3, <2>3 DEF List!Here, FirstPage, List!Key, choices
  <2>7. LastIsHere'
    BY <2>2, <2>3, <2>4, <2>5, <2>6 DEF LastIsHere
  <2>8. DeletedHere'
    <3>1. /\ d.op \in {"delete", "afterDelete"} => d.key = List!Here
          /\ d.op \in {"bulk", "afterBulk"} => d.key = FirstPage
      BY <1>3, <1>5, <1>7, <2>2 DEF DeletedHere
    <3>2. \A i \in DOMAIN asks' : /\ asks'[i].op \in {"delete", "afterDelete"} => asks'[i].key = List!Here
                                  /\ asks'[i].op \in {"bulk", "afterBulk"} => asks'[i].key = FirstPage
      BY <1>9, <2>2, <3>1 DEF DeletedHere
    <3> QED BY <2>5, <2>6, <3>2 DEF DeletedHere
  <2>9. NoneDeletedShown'
    <3>1. CASE asks[1].at = "ok"
      <4>1. n \in DOMAIN asks' /\ asks'[n] = d
        BY <1>8, <1>9, <3>1
      <4> QED BY <1>7, <4>1 DEF NoneDeletedShown, Lists
    <3>2. CASE asks[1].at # "ok"
      <4>1. deleted' = deleted /\ asks[1].op \notin Lists
        BY <1>3, <3>2 DEF Lists
      <4> QED BY <1>9, <2>2, <2>3, <2>6, <4>1 DEF NoneDeletedShown
    <3> QED BY <3>1, <3>2
  <2> QED BY <2>3, <2>6, <2>7, <2>8, <2>9 DEF TimerFollows
<1> QED BY <1>3, <1>6, <1>11, <1>12, <1>13 DEF ListInv, ListFollows

LEMMA AfterBulkOK == ASSUME ListInv, List!AfterBulk PROVE ListInv'
<1>1. ListTyped /\ AsksTyped /\ FirstAnswer
  BY DEF ListInv
<1>2. PICK d : d = List!Load(FirstPage)
  OBVIOUS
<1>3. PICK rest : rest = Tail(asks)
  OBVIOUS
<1>4. /\ asks # <<>> /\ asks[1].op = "afterBulk" /\ asks[1].at \in {"ok", "failed"}
      /\ data' = (IF asks[1].at = "ok" THEN asks[1].answer ELSE data)
      /\ leaf' = (IF asks[1].at = "ok" THEN 1 ELSE leaf)
      /\ asks' = rest \o (IF leaf' = leaf THEN <<>> ELSE <<d>>)
      /\ crossed' = (crossed \/ ~(asks[1].at = "ok") \/ (leaf' # leaf /\ List!Deleting(rest)))
      /\ UNCHANGED <<listed, search, choice, debounce, chosen, deleted, visit>>
  BY <1>2, <1>3 DEF List!AfterBulk, List!Answered, List!Ok, List!kept, FirstPage
<1>5. PICK S : asks \in Seq(S)
  BY <1>1 DEF AsksTyped
<1>6. rest \in Seq(S) /\ 1 \in DOMAIN asks
  BY <1>3, <1>4, <1>5
<1>7. crossed' \in BOOLEAN /\ (crossed' \/ ~crossed) /\ (asks[1].at = "ok" \/ crossed') /\ data'.items \subseteq Enquiries
  BY <1>1, <1>4 DEF ListTyped, FirstAnswer, Lists
<1>8. CASE leaf' = leaf
  <2>1. Popped
    BY <1>3, <1>4, <1>6, <1>8 DEF Popped
  <2>2. UNCHANGED <<listed, choices, chosen, deleted, visit>>
    BY <1>4, <1>8 DEF choices
  <2>3. ~crossed' => data' = asks[1].answer /\ leaf = 1
    BY <1>4, <1>7, <1>8
  <2> QED BY <1>4, <1>7, <2>1, <2>2, <2>3, ShowOK DEF Lists
<1>9. CASE leaf' # leaf
  <2>1. asks[1].at = "ok" /\ leaf' = 1 /\ asks' = Append(rest, d) /\ data' = asks[1].answer
    BY <1>4, <1>6, <1>9
  <2>2. ListTyped'
    BY <1>1, <1>4, <1>7, <2>1 DEF ListTyped
  <2>3. FirstPage = List!Here' /\ FirstPage' = FirstPage /\ FirstPage \in List!Keys
    BY <1>1, <1>4, <2>1, HereIs DEF List!Here, FirstPage, List!Key
  <2>4. Asking(d) /\ d.op = "list" /\ d.at = "asked" /\ d.key = FirstPage
    BY <1>2, <2>3 DEF List!Load, List!Request, Asking, Lists
  <2>5. /\ asks' \in Seq(S \cup {d}) /\ Len(rest) \in Nat /\ DOMAIN rest = 1..Len(rest) /\ DOMAIN asks' = 1..(Len(rest) + 1)
        /\ Len(rest) + 1 \in DOMAIN asks' /\ asks'[Len(rest) + 1] = d /\ \A i \in DOMAIN rest : asks'[i] = rest[i]
    BY <1>6, <2>1
  <2>6. \A i \in DOMAIN rest : i + 1 \in DOMAIN asks /\ i + 1 > 1 /\ rest[i] = asks[i + 1]
    BY <1>3, <1>4, <1>5
  <2>7. \A i \in DOMAIN asks' : Asking(asks'[i]) /\ asks'[i].at = "asked"
    <3>1. \A i \in DOMAIN rest : Asking(rest[i]) /\ rest[i].at = "asked"
      BY <1>1, <2>6 DEF AsksTyped
    <3> QED BY <2>4, <2>5, <3>1
  <2>8. AsksTyped'
    BY <2>5, <2>7 DEF AsksTyped, Asking
  <2>9. FirstAnswer'
    BY <2>5, <2>7 DEF FirstAnswer
  <2>10. ASSUME ~crossed' PROVE TimerFollows' /\ LastIsHere' /\ DeletedHere' /\ NoneDeletedShown'
    <3>1. ~crossed /\ ListFollows /\ \A i \in DOMAIN rest : rest[i].op = "list"
      BY <1>4, <1>9, <2>10 DEF ListInv, List!Deleting
    <3>2. ~IsList(1) /\ debounce = Nothing
      BY <1>4, <1>6, <3>1 DEF IsList, ListFollows, TimerFollows
    <3>3. \A i \in DOMAIN rest : FALSE
      BY <1>6, <2>6, <3>1, <3>2 DEF ListFollows, DeletedHere, IsList
    <3>4. \A i \in DOMAIN asks' : asks'[i] = d
      BY <2>5, <3>3
    <3> QED BY <1>4, <2>3, <2>4, <2>5, <3>2, <3>4 DEF TimerFollows, LastIsHere, DeletedHere, NoneDeletedShown, IsList, Lists
  <2> QED BY <2>2, <2>8, <2>9, <2>10 DEF ListInv, ListFollows
<1> QED BY <1>8, <1>9

-----------------------------------------------------------------------------
LEMMA ListNext == ListInv /\ [List!Next]_List!vars => ListInv'
<1> SUFFICES ASSUME ListInv, [List!Next]_List!vars PROVE ListInv'
  OBVIOUS
<1>1. CASE UNCHANGED List!vars
  BY <1>1 DEF List!vars, ListInv, AsksTyped, Asking, ListTyped, FirstAnswer, ListFollows, TimerFollows, LastIsHere,
              DeletedHere, NoneDeletedShown, IsList, FirstPage, List!Key, List!Here
<1>2. CASE List!Next
  <2>1. \/ \E text \in Texts : List!HandleSearchChange(text)
        \/ List!Search
        \/ \E f \in Filters : List!HandleFilterChange(f) \/ List!HandleKpiClick(f)
        \/ \E p \in List!GetPageNumbers : List!HandlePageChange(p)
        \/ \E id \in data.items : List!ToggleSelectOne(id) \/ List!HandleDeleteSingle(id)
        \/ List!ToggleSelectAll \/ List!HandleDeleteBulk
        \/ List!List \/ List!FindOne \/ List!RemoveOne \/ List!BulkDelete \/ List!Lose \/ List!Elsewhere
        \/ List!FetchData \/ List!AfterDelete \/ List!AfterBulk
    BY <1>2 DEF List!Next, List!Shown
  <2> QED BY <2>1, TicksOK, ChoicesOK, TypingOK, SearchOK, DeletingOK, AnswersOK, DeletedElsewhereOK, FetchOK, AfterDeletionOK, AfterBulkOK
<1> QED BY <1>1, <1>2

(* When nothing is waiting, and nothing was loaded for choices that had    *)
(* changed, the list of enquiries is the answer for the text, the choices  *)
(* and the page shown, without an enquiry the page deleted: findAll and    *)
(* the loads of EnquiriesClient (handleSearchChange, its effect, handle    *)
(* Delete).                                                                *)
THEOREM ListFollowsChoices == List!Spec => []ListMatchesFilters
<1>1. ListInv => ListMatchesFilters
  <2> SUFFICES ASSUME ListInv, debounce = Nothing, asks = <<>>, ~crossed
               PROVE  data.key = List!Here /\ data.items \cap deleted = {}
    BY DEF ListMatchesFilters, List!ListMatchesFilters
  <2>1. LastIsHere /\ NoneDeletedShown /\ \A i \in DOMAIN asks : FALSE
    <3>1. asks \in Seq(Nat) /\ Len(asks) = 0
      <4>1. asks = <<>>
        OBVIOUS
      <4> QED BY <4>1
    <3> QED BY <3>1 DEF ListInv, ListFollows
  <2> QED BY <2>1 DEF LastIsHere, NoneDeletedShown
<1> QED BY ListInit, ListNext, <1>1, PTL DEF List!Spec

(* The enquiries, the ticks, what the page deleted, and the requests of    *)
(* the tab keep their types; only the first request is ever answered.      *)
THEOREM EnquiryListTypeCorrect == List!Spec => []List!EnquiryListTypeOK
<1>1. ListInv => List!EnquiryListTypeOK
  BY DEF ListInv, ListTyped, AsksTyped, Asking, Lists, List!EnquiryListTypeOK
<1> QED BY ListInit, ListNext, <1>1, PTL DEF List!Spec

-----------------------------------------------------------------------------
(***************************************************************************)
(* The page of contacts.                                                   *)
(***************************************************************************)
Changes == {"save", "channel", "create", "delete", "drop", "bulk"}
Call(c) ==
    /\ DOMAIN c = {"op", "key", "ids", "about", "tries", "live", "at", "answer"}
    /\ c.op \in Changes \cup {"list", "detail"}
    /\ c.op = "list" => c.key \in Contacted!Keys
    /\ c.op = "detail" => c.ids # {}
    /\ c.live \in BOOLEAN /\ c.at \in {"asked", "ok", "failed"}
Calls(q) == (\E S : q \in Seq(S)) /\ \A i \in DOMAIN q : Call(q[i])
StillAsked(q) == \A i \in DOMAIN q : q[i].at = "asked"
LoadsOnly(q, ids) == \A i \in DOMAIN q : Contacted!Loads(q[i]) \subseteq ids
FetchesShown(q) == Contacted!Fetching(q, Contacted!Shown)

OfPeople(rows) == \A i \in DOMAIN rows : rows[i] \in People
AList(l) ==
    /\ DOMAIN l = {"status", "items", "asOf", "stale"}
    /\ l.status \in {"pending", "success", "error"} /\ OfPeople(l.items)
    /\ l.asOf \in Nat /\ l.stale \in BOOLEAN
PeopleTyped ==
    /\ made \in Nat /\ told \in Nat /\ told <= made
    /\ Contacted!Shown \in Contacted!Keys /\ DOMAIN cache = Contacted!Keys
    /\ \A k \in Contacted!Keys : AList(cache[k]) /\ cache[k].asOf <= made
    /\ Calls(actions) /\ \A i \in DOMAIN actions : i > 1 => actions[i].at = "asked"
    /\ strayed \in BOOLEAN /\ DOMAIN panel = {"id", "contact"}
(* What the first call has been answered: a list of now, or a change the   *)
(* tab has not been told of.                                               *)
FirstOfPage ==
    actions # <<>> /\ actions[1].at = "ok" =>
        /\ actions[1].op = "list" =>
            AList(actions[1].answer) /\ actions[1].answer.asOf >= told /\ actions[1].answer.asOf <= made
        /\ actions[1].op \in Changes => told < made
(* A list that would not be loaded if it were chosen is current, and so is *)
(* the one shown unless it is being loaded; ...                            *)
FreshIsCurrent == \A k \in Contacted!Keys : ~cache[k].stale => cache[k].asOf >= told
ShownIsCurrent ==
    cache[Contacted!Shown].status = "success" /\ ~FetchesShown(actions) => cache[Contacted!Shown].asOf >= told
(* ... and unless another was still to be loaded when the contact was      *)
(* opened, only this one is loaded while its panel is open.                *)
PanelLoadsItsOwn ==
    panel.id # Nothing /\ ~strayed => panel.contact = panel.id /\ LoadsOnly(actions, {panel.id})
PeopleInv == PeopleTyped /\ FirstOfPage /\ FreshIsCurrent /\ ShownIsCurrent /\ PanelLoadsItsOwn

-----------------------------------------------------------------------------
(* Calls that are added, answered and done.                                *)
LEMMA NoCalls == Calls(<<>>) /\ \A i \in DOMAIN <<>> : FALSE
<1>1. PICK q : q = <<>>
  OBVIOUS
<1>2. q \in Seq(Nat) /\ Len(q) = 0
  BY <1>1
<1>3. Calls(q) /\ \A i \in DOMAIN q : FALSE
  BY <1>2 DEF Calls
<1> QED BY <1>1, <1>3

LEMMA AppendCall ==
    ASSUME NEW q, Calls(q), NEW c, Call(c)
    PROVE  /\ Calls(Append(q, c))
           /\ Len(q) \in Nat /\ DOMAIN q = 1..Len(q) /\ DOMAIN Append(q, c) = 1..(Len(q) + 1)
           /\ Append(q, c)[Len(q) + 1] = c /\ \A i \in DOMAIN q : Append(q, c)[i] = q[i]
           /\ StillAsked(q) /\ c.at = "asked" => StillAsked(Append(q, c))
           /\ \A ids : LoadsOnly(q, ids) /\ Contacted!Loads(c) \subseteq ids => LoadsOnly(Append(q, c), ids)
           /\ \A k : /\ Contacted!Fetching(q, k) => Contacted!Fetching(Append(q, c), k)
                     /\ c.op = "list" /\ c.key = k /\ c.live => Contacted!Fetching(Append(q, c), k)
<1>1. PICK S : q \in Seq(S)
  BY DEF Calls
<1>2. PICK r : r = Append(q, c)
  OBVIOUS
<1>3. /\ r \in Seq(S \cup {c}) /\ Len(q) \in Nat /\ DOMAIN q = 1..Len(q) /\ DOMAIN r = 1..(Len(q) + 1)
      /\ r[Len(q) + 1] = c /\ \A i \in DOMAIN q : r[i] = q[i]
  BY <1>1, <1>2
<1>4. Len(q) + 1 \in DOMAIN r /\ \A i \in DOMAIN r : i = Len(q) + 1 \/ i \in DOMAIN q
  BY <1>3
<1>5. \A i \in DOMAIN r : r[i] = c \/ (i \in DOMAIN q /\ r[i] = q[i])
  BY <1>3, <1>4
<1>6. Calls(r)
  BY <1>3, <1>5 DEF Calls
<1>7. StillAsked(q) /\ c.at = "asked" => StillAsked(r)
  BY <1>5 DEF StillAsked
<1>8. \A ids : LoadsOnly(q, ids) /\ Contacted!Loads(c) \subseteq ids => LoadsOnly(r, ids)
  <2> SUFFICES ASSUME NEW ids, LoadsOnly(q, ids), Contacted!Loads(c) \subseteq ids PROVE LoadsOnly(r, ids)
    OBVIOUS
  <2>1. ASSUME NEW i \in DOMAIN r PROVE Contacted!Loads(r[i]) \subseteq ids
    <3>1. CASE r[i] = c
      BY <3>1
    <3>2. CASE i \in DOMAIN q /\ r[i] = q[i]
      BY <3>2 DEF LoadsOnly
    <3> QED BY <1>5, <3>1, <3>2
  <2> QED BY <2>1 DEF LoadsOnly
<1>9. \A k : /\ Contacted!Fetching(q, k) => Contacted!Fetching(r, k)
             /\ c.op = "list" /\ c.key = k /\ c.live => Contacted!Fetching(r, k)
  BY <1>3, <1>4 DEF Contacted!Fetching
<1> QED BY <1>2, <1>3, <1>6, <1>7, <1>8, <1>9

LEMMA TailOfCalls ==
    ASSUME NEW q, Calls(q), q # <<>>, \A i \in DOMAIN q : i > 1 => q[i].at = "asked"
    PROVE  /\ Calls(Tail(q)) /\ StillAsked(Tail(q)) /\ 1 \in DOMAIN q /\ Call(q[1])
           /\ \A ids : LoadsOnly(q, ids) => LoadsOnly(Tail(q), ids)
           /\ \A k : Contacted!Fetching(q, k) =>
                Contacted!Fetching(Tail(q), k) \/ (q[1].op = "list" /\ q[1].key = k /\ q[1].live)
<1>1. PICK S : q \in Seq(S)
  BY DEF Calls
<1>2. PICK r : r = Tail(q)
  OBVIOUS
<1>3. /\ r \in Seq(S) /\ 1 \in DOMAIN q
      /\ \A i \in DOMAIN r : i \in Nat /\ i + 1 \in DOMAIN q /\ i + 1 > 1 /\ r[i] = q[i + 1]
      /\ \A i \in DOMAIN q : i = 1 \/ (i - 1 \in DOMAIN r /\ r[i - 1] = q[i])
  BY <1>1, <1>2
<1>4. Calls(r) /\ StillAsked(r) /\ Call(q[1])
  BY <1>3 DEF Calls, StillAsked
<1>5. \A ids : LoadsOnly(q, ids) => LoadsOnly(r, ids)
  BY <1>3 DEF LoadsOnly
<1>6. \A k : Contacted!Fetching(q, k) => Contacted!Fetching(r, k) \/ (q[1].op = "list" /\ q[1].key = k /\ q[1].live)
  BY <1>3 DEF Contacted!Fetching
<1> QED BY <1>2, <1>3, <1>4, <1>5, <1>6

Listed(k) == Contacted!List(k)
LEMMA ListCall ==
    ASSUME NEW k \in Contacted!Keys
    PROVE  /\ Call(Listed(k)) /\ Listed(k).op = "list" /\ Listed(k).key = k /\ Listed(k).live = TRUE
           /\ Listed(k).at = "asked" /\ Contacted!Loads(Listed(k)) = {}
<1>1. PICK c : c = Listed(k)
  OBVIOUS
<1>2. /\ DOMAIN c = {"op", "key", "ids", "about", "tries", "live", "at", "answer"}
      /\ c.op = "list" /\ c.key = k /\ c.live = TRUE /\ c.at = "asked"
  BY <1>1 DEF Listed, Contacted!List, Contacted!Request
<1>3. Call(c) /\ Contacted!Loads(c) = {}
  BY <1>2 DEF Call, Contacted!Loads
<1> QED BY <1>1, <1>2, <1>3

Aside(q) == [i \in DOMAIN q |-> IF q[i].key = Contacted!Shown THEN [q[i] EXCEPT !.live = FALSE] ELSE q[i]]
LEMMA AsideIs ==
    ASSUME NEW q, Calls(q)
    PROVE  /\ Calls(Aside(q)) /\ (StillAsked(q) => StillAsked(Aside(q)))
           /\ \A ids : LoadsOnly(q, ids) => LoadsOnly(Aside(q), ids)
<1>1. PICK S : q \in Seq(S)
  BY DEF Calls
<1>2. PICK r : r = Aside(q)
  OBVIOUS
<1>3. DOMAIN r = DOMAIN q /\ \A i \in DOMAIN q : r[i] = q[i] \/ r[i] = [q[i] EXCEPT !.live = FALSE]
  BY <1>2 DEF Aside
<1>4. ASSUME NEW c, Call(c)
      PROVE  LET d == [c EXCEPT !.live = FALSE] IN
             Call(d) /\ d.at = c.at /\ Contacted!Loads(d) = Contacted!Loads(c)
  <2>1. PICK d : d = [c EXCEPT !.live = FALSE]
    OBVIOUS
  <2>2. /\ DOMAIN d = DOMAIN c /\ d.live = FALSE /\ d.op = c.op /\ d.key = c.key /\ d.ids = c.ids
        /\ d.about = c.about /\ d.at = c.at
    BY <1>4, <2>1 DEF Call
  <2>3. Call(d) /\ Contacted!Loads(d) = Contacted!Loads(c)
    BY <1>4, <2>2 DEF Call, Contacted!Loads
  <2> QED BY <2>1, <2>2, <2>3
<1>5. \A i \in DOMAIN q : Call(r[i]) /\ r[i].at = q[i].at /\ Contacted!Loads(r[i]) = Contacted!Loads(q[i])
  BY <1>3, <1>4 DEF Calls
<1>6. \E T : r \in Seq(T)
  <2>1. PICK T : T = {r[i] : i \in DOMAIN q}
    OBVIOUS
  <2>2. Len(q) \in Nat /\ DOMAIN q = 1..Len(q)
    BY <1>1
  <2>3. r \in [1..Len(q) -> T]
    BY <1>2, <2>1, <2>2 DEF Aside
  <2>4. r \in Seq(T)
    BY <2>2, <2>3
  <2> QED BY <2>4
<1>7. Calls(r) /\ (StillAsked(q) => StillAsked(r)) /\ \A ids : LoadsOnly(q, ids) => LoadsOnly(r, ids)
  BY <1>3, <1>5, <1>6 DEF Calls, StillAsked, LoadsOnly
<1> QED BY <1>2, <1>7

LEMMA RefreshedIs ==
    ASSUME NEW q, Calls(q), Contacted!Shown \in Contacted!Keys
    PROVE  /\ Calls(Contacted!Refreshed(q)) /\ FetchesShown(Contacted!Refreshed(q))
           /\ StillAsked(q) => StillAsked(Contacted!Refreshed(q))
           /\ \A ids : LoadsOnly(q, ids) => LoadsOnly(Contacted!Refreshed(q), ids)
<1>1. PICK r : r = Contacted!Refreshed(q)
  OBVIOUS
<1>2. \/ r = q /\ FetchesShown(q)
      \/ r = Append(Aside(q), Listed(Contacted!Shown))
  BY <1>1 DEF Contacted!Refreshed, FetchesShown, Aside, Listed
<1>3. CASE r = q /\ FetchesShown(q)
  BY <1>1, <1>3
<1>4. CASE r = Append(Aside(q), Listed(Contacted!Shown))
  <2>1. Calls(r) /\ FetchesShown(r)
    BY <1>4, AsideIs, ListCall, AppendCall DEF FetchesShown
  <2>2. StillAsked(q) => StillAsked(r)
    BY <1>4, AsideIs, ListCall, AppendCall
  <2>3. \A ids : LoadsOnly(q, ids) => LoadsOnly(r, ids)
    BY <1>4, AsideIs, ListCall, AppendCall
  <2> QED BY <1>1, <2>1, <2>2, <2>3
<1> QED BY <1>2, <1>3, <1>4

-----------------------------------------------------------------------------
LEMMA PagesAre ==
    /\ "all" \in Sieves /\ Cardinality(People) \in Nat /\ IsFiniteSet(People) /\ People \subseteq Nat
    /\ SheetSize \in Nat \ {0} /\ \A f \in Sieves : <<f, 1>> \in Contacted!Keys /\ Found[f] \subseteq People
    /\ \A S : Contacted!Cardinality(S) = Cardinality(S)
<1>1. IsFiniteSet(People) /\ SheetSize \in Nat \ {0} /\ "all" \in Sieves
  BY ScreensAssumption DEF Contacted!PagesOK, IsFiniteSet, Contacted!IsFiniteSet
<1>2. Cardinality(People) \in Nat /\ Contacted!Cardinality(People) = Cardinality(People)
  BY <1>1, FS_CardinalityType DEF Cardinality, Contacted!Cardinality
<1>3. 1 \in 1..(Contacted!Cardinality(People) \div SheetSize + 1)
  BY <1>1, <1>2
<1>4. People \subseteq Nat /\ \A f \in Sieves : Found[f] \subseteq People
  BY ScreensAssumption DEF Contacted!PagesOK
<1>5. \A S : Contacted!Cardinality(S) = Cardinality(S)
  BY DEF Cardinality, Contacted!Cardinality
<1> QED BY <1>1, <1>2, <1>3, <1>4, <1>5 DEF Contacted!Keys

(* Of n numbers one has k of them up to itself, for every k from 1 to n.   *)
LEMMA EachRankTaken ==
    ASSUME NEW S, S \subseteq Nat, IsFiniteSet(S)
    PROVE  \A k \in 1..Cardinality(S) : \E i \in S : Cardinality({j \in S : j <= i}) = k
<1> DEFINE n == Cardinality(S)
           Upto(i) == {j \in S : j <= i}
           rank == [i \in S |-> Cardinality(Upto(i))]
<1>1. n \in Nat
  BY FS_CardinalityType
<1>2. ASSUME NEW i \in S PROVE IsFiniteSet(Upto(i)) /\ Cardinality(Upto(i)) \in 1..n
  <2>1. Upto(i) \in SUBSET S /\ i \in Upto(i)
    OBVIOUS
  <2> HIDE DEF Upto
  <2>2. IsFiniteSet(Upto(i)) /\ Cardinality(Upto(i)) <= n /\ Cardinality(Upto(i)) \in Nat
    BY <2>1, FS_Subset, FS_CardinalityType
  <2>3. Cardinality(Upto(i)) # 0
    BY <2>1, <2>2, FS_EmptySet
  <2> QED BY <1>1, <2>2, <2>3
<1>3. ASSUME NEW i \in S, NEW j \in S, i < j PROVE Cardinality(Upto(i)) # Cardinality(Upto(j))
  <2>0. i \in Nat /\ j \in Nat /\ \A x \in S : x \in Nat
    OBVIOUS
  <2>1. Upto(i) \in SUBSET Upto(j) /\ j \in Upto(j) /\ j \notin Upto(i)
    <3>1. \A x \in S : x <= i => x <= j
      BY <1>3, <2>0
    <3>2. j <= j /\ ~(j <= i)
      BY <1>3, <2>0
    <3> QED BY <3>1, <3>2
  <2>2. IsFiniteSet(Upto(j))
    BY <1>2
  <2> HIDE DEF Upto
  <2> QED BY <2>1, <2>2, FS_Subset
<1> HIDE DEF Upto
<1>4. rank \in Injection(S, 1..n)
  <2>1. rank \in [S -> 1..n]
    BY <1>2
  <2>2. ASSUME NEW i \in S, NEW j \in S, rank[i] = rank[j] PROVE i = j
    <3>1. i \in Nat /\ j \in Nat /\ ~(i < j) /\ ~(j < i)
      BY <1>3, <2>2
    <3> QED BY <3>1
  <2> HIDE DEF rank
  <2> QED BY <2>1, <2>2 DEF Injection, IsInjective
<1>5. IsFiniteSet(1..n) /\ Cardinality(1..n) = n
  BY <1>1, FS_Interval
<1>6. \A k \in 1..n : \E i \in S : Cardinality(Upto(i)) = k
  <2>1. rank \in Surjection(S, 1..n)
    BY <1>4, <1>5, FS_Injection
  <2> QED BY <2>1 DEF Surjection
<1> QED BY <1>6 DEF Upto

LEMMA RowsArePeople == ASSUME NEW k \in Contacted!Keys PROVE OfPeople(Contacted!Rows(k))
<1>1. k[1] \in Sieves /\ k[2] \in Nat /\ k[2] >= 1
  <2>1. PICK f \in Sieves, p \in 1..(Cardinality(People) \div SheetSize + 1) : k = <<f, p>>
    BY PagesAre DEF Contacted!Keys
  <2>2. k[1] = f /\ k[2] = p
    BY <2>1
  <2>3. p \in Nat /\ p >= 1
    BY PagesAre
  <2> QED BY <2>2, <2>3
<1> DEFINE found == Found[k[1]] \cap people
           before == (k[2] - 1) * SheetSize
           Upto(i) == {j \in found : j <= i}
           rows == [i \in {j \in 1..SheetSize : before + j <= Contacted!Cardinality(found)} |->
                       CHOOSE id \in found : Contacted!Cardinality(Upto(id)) = before + i]
<1>2. found \subseteq People /\ found \subseteq Nat /\ IsFiniteSet(found)
  <2>1. found \in SUBSET People
    BY <1>1, PagesAre
  <2> HIDE DEF found
  <2> QED BY <2>1, PagesAre, FS_Subset
<1>3. before \in Nat
  <2>1. PICK n \in Nat : n = k[2] - 1
    BY <1>1
  <2>2. n * SheetSize \in Nat
    BY PagesAre
  <2> QED BY <2>1, <2>2
<1>4. Contacted!Rows(k) = rows
  BY DEF Contacted!Rows
<1>5. \A m \in 1..Cardinality(found) : \E id \in found : Contacted!Cardinality(Upto(id)) = m
  <2> HIDE DEF found
  <2>1. \A m \in 1..Cardinality(found) : \E id \in found : Cardinality(Upto(id)) = m
    BY <1>2, EachRankTaken
  <2> QED BY <2>1, PagesAre
<1> HIDE DEF found, before, Upto
<1>6. ASSUME NEW i \in DOMAIN rows PROVE rows[i] \in People
  <2>1. i \in 1..SheetSize /\ before + i <= Cardinality(found)
    BY PagesAre
  <2>2. before + i \in 1..Cardinality(found)
    BY <1>2, <1>3, <2>1, PagesAre, FS_CardinalityType
  <2>3. \E id \in found : Contacted!Cardinality(Upto(id)) = before + i
    BY <1>5, <2>2
  <2>4. rows[i] \in found
    BY <2>3
  <2> QED BY <1>2, <2>4
<1> QED BY <1>4, <1>6 DEF OfPeople

LEMMA EmptyOfPeople == OfPeople(<<>>)
<1>1. PICK q : q = <<>>
  OBVIOUS
<1>2. q \in Seq(Nat) /\ Len(q) = 0
  BY <1>1
<1>3. OfPeople(q)
  BY <1>2 DEF OfPeople
<1> QED BY <1>1, <1>3

LEMMA PeopleInit == Contacted!Init => PeopleInv
<1> SUFFICES ASSUME Contacted!Init PROVE PeopleInv
  OBVIOUS
<1>1. /\ made = 0 /\ told = 0 /\ sieve = "all" /\ sheet = 1 /\ actions = <<>> /\ strayed = FALSE
      /\ cache = [k \in Contacted!Keys |-> IF k = <<"all", 1>>
             THEN [status |-> "success", items |-> Contacted!Rows(k), asOf |-> 0, stale |-> FALSE]
             ELSE [status |-> "pending", items |-> <<>>, asOf |-> 0, stale |-> TRUE]]
      /\ panel = [id |-> Nothing, contact |-> Nothing]
  BY DEF Contacted!Init, Contacted!Unknown
<1>2. Contacted!Shown \in Contacted!Keys
  BY <1>1, PagesAre DEF Contacted!Shown
<1>3. ASSUME NEW k \in Contacted!Keys PROVE AList(cache[k]) /\ cache[k].asOf = 0
  <2>1. CASE k = <<"all", 1>>
    <3>1. cache[k] = [status |-> "success", items |-> Contacted!Rows(k), asOf |-> 0, stale |-> FALSE]
      BY <1>1, <2>1
    <3> QED BY <3>1, RowsArePeople DEF AList
  <2>2. CASE k # <<"all", 1>>
    <3>1. cache[k] = [status |-> "pending", items |-> <<>>, asOf |-> 0, stale |-> TRUE]
      BY <1>1, <2>2
    <3> QED BY <3>1, EmptyOfPeople DEF AList
  <2> QED BY <2>1, <2>2
<1>4. PeopleTyped
  <2>1. Calls(actions) /\ \A i \in DOMAIN actions : FALSE
    BY <1>1, NoCalls
  <2>2. made \in Nat /\ told \in Nat /\ told <= made
    <3>1. made = 0 /\ told = 0
      BY <1>1
    <3> QED BY <3>1
  <2>3. DOMAIN panel = {"id", "contact"}
    BY <1>1
  <2>4. \A k \in Contacted!Keys : AList(cache[k]) /\ cache[k].asOf <= made
    BY <1>1, <1>3
  <2>5. DOMAIN cache = Contacted!Keys
    BY <1>1
  <2>6. strayed \in BOOLEAN
    BY <1>1
  <2> QED BY <1>2, <2>1, <2>2, <2>3, <2>4, <2>5, <2>6 DEF PeopleTyped
<1>5. FirstOfPage /\ FreshIsCurrent /\ ShownIsCurrent /\ PanelLoadsItsOwn
  BY <1>1, <1>2, <1>3 DEF FirstOfPage, FreshIsCurrent, ShownIsCurrent, PanelLoadsItsOwn
<1> QED BY <1>4, <1>5 DEF PeopleInv

-----------------------------------------------------------------------------
(* A call is made.                                                         *)
LEMMA AddedCall ==
    ASSUME PeopleInv, NEW c, Call(c), c.at = "asked", actions' = Append(actions, c), UNCHANGED <<made, told>>
    PROVE  /\ Calls(actions') /\ (\A i \in DOMAIN actions' : i > 1 => actions'[i].at = "asked") /\ FirstOfPage'
           /\ \A k : /\ Contacted!Fetching(actions, k) => Contacted!Fetching(actions', k)
                     /\ c.op = "list" /\ c.key = k /\ c.live => Contacted!Fetching(actions', k)
           /\ \A ids : LoadsOnly(actions, ids) /\ Contacted!Loads(c) \subseteq ids => LoadsOnly(actions', ids)
<1>1. Calls(actions) /\ \A i \in DOMAIN actions : i > 1 => actions[i].at = "asked"
  BY DEF PeopleInv, PeopleTyped
<1>2. /\ Calls(actions') /\ Len(actions) \in Nat /\ DOMAIN actions = 1..Len(actions)
      /\ DOMAIN actions' = 1..(Len(actions) + 1)
      /\ actions'[Len(actions) + 1] = c /\ \A i \in DOMAIN actions : actions'[i] = actions[i]
  BY <1>1, AppendCall
<1>3. \A k : /\ Contacted!Fetching(actions, k) => Contacted!Fetching(actions', k)
             /\ c.op = "list" /\ c.key = k /\ c.live => Contacted!Fetching(actions', k)
  BY <1>1, AppendCall
<1>4. \A ids : LoadsOnly(actions, ids) /\ Contacted!Loads(c) \subseteq ids => LoadsOnly(actions', ids)
  BY <1>1, AppendCall
<1>5. \A i \in DOMAIN actions' : i > 1 => actions'[i].at = "asked"
  BY <1>1, <1>2
<1>6. FirstOfPage'
  <2>1. CASE 1 \in DOMAIN actions
    <3>1. actions'[1] = actions[1] /\ actions # <<>>
      BY <1>2, <2>1
    <3> QED BY <3>1 DEF PeopleInv, FirstOfPage
  <2>2. CASE 1 \notin DOMAIN actions
    <3>1. actions'[1] = c
      BY <1>2, <2>2
    <3> QED BY <3>1 DEF FirstOfPage
  <2> QED BY <2>1, <2>2
<1> QED BY <1>2, <1>3, <1>4, <1>5, <1>6

(* Another list is chosen: it is loaded when it is not there or stale.     *)
LEMMA ChosenOK ==
    ASSUME PeopleInv, Contacted!Shown' \in Contacted!Keys,
           actions' = Contacted!Chosen(actions, cache, Contacted!Shown'),
           UNCHANGED <<made, told, cache, panel, strayed>>
    PROVE  PeopleInv'
<1>1. PICK k \in Contacted!Keys : k = Contacted!Shown'
  OBVIOUS
<1>2. \/ cache[k].stale /\ ~Contacted!Fetching(actions, k) /\ actions' = Append(actions, Listed(k))
      \/ (~cache[k].stale \/ Contacted!Fetching(actions, k)) /\ UNCHANGED actions
  BY <1>1 DEF Contacted!Chosen, Listed
<1>3. FreshIsCurrent'
  BY DEF PeopleInv, FreshIsCurrent
<1>4. CASE cache[k].stale /\ actions' = Append(actions, Listed(k))
  <2>1. /\ Calls(actions') /\ (\A i \in DOMAIN actions' : i > 1 => actions'[i].at = "asked") /\ FirstOfPage'
        /\ Contacted!Fetching(actions', k) /\ \A ids : LoadsOnly(actions, ids) => LoadsOnly(actions', ids)
    BY <1>4, ListCall, AddedCall
  <2>2. PeopleTyped'
    BY <2>1 DEF PeopleInv, PeopleTyped
  <2>3. ShownIsCurrent'
    BY <1>1, <2>1 DEF ShownIsCurrent, FetchesShown
  <2>4. PanelLoadsItsOwn'
    BY <2>1 DEF PeopleInv, PanelLoadsItsOwn
  <2> QED BY <1>3, <2>1, <2>2, <2>3, <2>4 DEF PeopleInv
<1>5. CASE (~cache[k].stale \/ Contacted!Fetching(actions, k)) /\ UNCHANGED actions
  <2>1. PeopleTyped' /\ FirstOfPage' /\ PanelLoadsItsOwn'
    BY <1>5 DEF PeopleInv, PeopleTyped, FirstOfPage, PanelLoadsItsOwn
  <2>2. ShownIsCurrent'
    BY <1>1, <1>5 DEF PeopleInv, FreshIsCurrent, ShownIsCurrent, FetchesShown
  <2> QED BY <1>3, <2>1, <2>2 DEF PeopleInv
<1> QED BY <1>2, <1>4, <1>5

LEMMA ChoosingOK ==
    ASSUME PeopleInv, \/ \E f \in Sieves : Contacted!HandleFilterChange(f)
                      \/ \E p : Contacted!OnPaginationChange(p)
    PROVE  PeopleInv'
<1>1. CASE \E f \in Sieves : Contacted!HandleFilterChange(f)
  <2>1. PICK f \in Sieves : Contacted!HandleFilterChange(f)
    BY <1>1
  <2>2. Contacted!Shown' = <<f, 1>> /\ actions' = Contacted!Chosen(actions, cache, <<f, 1>>)
        /\ UNCHANGED <<made, told, cache, panel, strayed>>
    BY <2>1 DEF Contacted!HandleFilterChange, Contacted!Shown
  <2>3. Contacted!Shown' \in Contacted!Keys
    BY <2>2, PagesAre
  <2> QED BY <2>2, <2>3, ChosenOK
<1>2. CASE \E p : Contacted!OnPaginationChange(p)
  <2>1. PICK p : Contacted!OnPaginationChange(p)
    BY <1>2
  <2>2. Contacted!Shown' = <<sieve, p>> /\ actions' = Contacted!Chosen(actions, cache, <<sieve, p>>)
        /\ Contacted!Shown' \in Contacted!Keys /\ UNCHANGED <<made, told, cache, panel, strayed>>
    BY <2>1 DEF Contacted!OnPaginationChange, Contacted!Shown
  <2> QED BY <2>2, ChosenOK
<1> QED BY <1>1, <1>2

(* The lists stay as they are, and a call is made.                         *)
LEMMA CallMadeOK ==
    ASSUME PeopleInv, NEW c, Call(c), c.at = "asked", actions' = Append(actions, c),
           UNCHANGED <<made, told, sieve, sheet, cache>>,
           strayed' \in BOOLEAN, DOMAIN panel' = {"id", "contact"},
           panel'.id # Nothing /\ ~strayed' =>
             panel'.contact = panel'.id /\ LoadsOnly(actions, {panel'.id}) /\ Contacted!Loads(c) \subseteq {panel'.id}
    PROVE  PeopleInv'
<1>1. /\ Calls(actions') /\ (\A i \in DOMAIN actions' : i > 1 => actions'[i].at = "asked") /\ FirstOfPage'
      /\ \A k : Contacted!Fetching(actions, k) => Contacted!Fetching(actions', k)
      /\ \A ids : LoadsOnly(actions, ids) /\ Contacted!Loads(c) \subseteq ids => LoadsOnly(actions', ids)
  BY AddedCall
<1>2. Contacted!Shown' = Contacted!Shown
  BY DEF Contacted!Shown
<1>3. PeopleTyped'
  BY <1>1, <1>2 DEF PeopleInv, PeopleTyped
<1>4. FreshIsCurrent' /\ ShownIsCurrent'
  BY <1>1, <1>2 DEF PeopleInv, FreshIsCurrent, ShownIsCurrent, FetchesShown
<1>5. PanelLoadsItsOwn'
  BY <1>1 DEF PanelLoadsItsOwn
<1> QED BY <1>1, <1>3, <1>4, <1>5 DEF PeopleInv

LEMMA RequestIs ==
    ASSUME NEW op \in Changes \cup {"detail"}, NEW ids, op = "detail" => ids # {}
    PROVE  /\ Call(Contacted!Request(op, ids)) /\ Contacted!Request(op, ids).at = "asked"
           /\ Contacted!Loads(Contacted!Request(op, ids)) =
                IF op = "detail" THEN ids ELSE IF op = "channel" THEN {Nothing} ELSE {}
<1>1. PICK c : c = Contacted!Request(op, ids)
  OBVIOUS
<1>2. /\ DOMAIN c = {"op", "key", "ids", "about", "tries", "live", "at", "answer"}
      /\ c.op = op /\ c.ids = ids /\ c.about = Nothing /\ c.live = TRUE /\ c.at = "asked"
  BY <1>1 DEF Contacted!Request
<1>3. Call(c)
  BY <1>2 DEF Call, Changes
<1>4. Contacted!Loads(c) = IF op = "detail" THEN ids ELSE IF op = "channel" THEN {Nothing} ELSE {}
  BY <1>2 DEF Contacted!Loads
<1> QED BY <1>1, <1>2, <1>3, <1>4

LEMMA AskingOK ==
    ASSUME PeopleInv, \/ Contacted!Retry \/ Contacted!HandleBulkDelete \/ Contacted!HandleSubmit
                      \/ \E id : Contacted!HandleDeleteSingle(id)
                      \/ Contacted!HandleSaveProfile \/ Contacted!ChangeChannel \/ Contacted!HandleDeleteContact
    PROVE  PeopleInv'
<1>1. UNCHANGED <<made, told, sieve, sheet, cache, panel, strayed>>
  BY DEF Contacted!Retry, Contacted!HandleBulkDelete, Contacted!HandleSubmit, Contacted!HandleDeleteSingle,
         Contacted!HandleSaveProfile, Contacted!ChangeChannel, Contacted!HandleDeleteContact, Contacted!Ask
<1>2. strayed' \in BOOLEAN /\ DOMAIN panel' = {"id", "contact"} /\ Contacted!Shown \in Contacted!Keys
  BY <1>1 DEF PeopleInv, PeopleTyped
<1>3. panel'.id # Nothing /\ ~strayed' => panel'.contact = panel'.id /\ LoadsOnly(actions, {panel'.id})
  BY <1>1 DEF PeopleInv, PanelLoadsItsOwn
<1>4. ASSUME NEW c, Call(c), c.at = "asked", actions' = Append(actions, c), Contacted!Loads(c) \subseteq {panel.id}
      PROVE  PeopleInv'
  BY <1>1, <1>2, <1>3, <1>4, CallMadeOK
<1>5. CASE Contacted!Retry
  <2>1. actions' = Append(actions, Listed(Contacted!Shown))
    BY <1>5 DEF Contacted!Retry, Listed
  <2> QED BY <1>2, <1>4, <2>1, ListCall
<1>6. CASE Contacted!HandleBulkDelete \/ Contacted!HandleSubmit \/ \E id : Contacted!HandleDeleteSingle(id)
  <2>1. \/ actions' = Append(actions, Contacted!Request("bulk", picked))
        \/ actions' = Append(actions, Contacted!Request("create", {}))
        \/ \E id : actions' = Append(actions, Contacted!Request("delete", {id}))
    BY <1>6 DEF Contacted!HandleBulkDelete, Contacted!HandleSubmit, Contacted!HandleDeleteSingle, Contacted!Ask
  <2>2. ASSUME NEW op \in {"bulk", "create", "delete"}, NEW ids, actions' = Append(actions, Contacted!Request(op, ids))
        PROVE  PeopleInv'
    <3>1. op \in Changes \cup {"detail"} /\ op # "detail" /\ op # "channel"
      BY DEF Changes
    <3>2. PICK c : c = Contacted!Request(op, ids)
      OBVIOUS
    <3>3. Call(c) /\ c.at = "asked" /\ Contacted!Loads(c) = {}
      BY <3>1, <3>2, RequestIs
    <3> QED BY <1>4, <2>2, <3>2, <3>3
  <2> QED BY <2>1, <2>2
<1>7. CASE Contacted!HandleSaveProfile \/ Contacted!ChangeChannel \/ Contacted!HandleDeleteContact
  <2>1. \/ actions' = Append(actions, Contacted!Panel("save"))
        \/ actions' = Append(actions, Contacted!Panel("channel"))
        \/ actions' = Append(actions, Contacted!Panel("drop"))
    BY <1>7 DEF Contacted!HandleSaveProfile, Contacted!ChangeChannel, Contacted!HandleDeleteContact, Contacted!Ask
  <2>2. PICK op \in {"save", "channel", "drop"} : actions' = Append(actions, Contacted!Panel(op))
    BY <2>1
  <2>3. PICK c : c = Contacted!Panel(op)
    OBVIOUS
  <2>4. op \in Changes \cup {"detail"} /\ op # "detail"
    BY DEF Changes
  <2>5. /\ DOMAIN c = {"op", "key", "ids", "about", "tries", "live", "at", "answer"}
        /\ c.op = op /\ c.about = panel.id /\ c.live = TRUE /\ c.at = "asked"
    BY <2>3 DEF Contacted!Panel, Contacted!Request
  <2>6. Call(c) /\ Contacted!Loads(c) \subseteq {panel.id}
    BY <2>4, <2>5 DEF Call, Contacted!Loads
  <2> QED BY <1>4, <2>2, <2>3, <2>5, <2>6
<1> QED BY <1>5, <1>6, <1>7

(* A contact is opened; the panel is closed.                               *)
LEMMA OpeningOK ==
    ASSUME PeopleInv, Contacted!Close \/ \E id : Contacted!HandleRowClick(id)
    PROVE  PeopleInv'
<1>1. CASE Contacted!Close
  <2>1. panel' = [id |-> Nothing, contact |-> Nothing] /\ UNCHANGED <<made, told, sieve, sheet, cache, actions, strayed>>
    BY <1>1 DEF Contacted!Close
  <2>2. PeopleTyped'
    BY <2>1 DEF PeopleInv, PeopleTyped, Contacted!Shown
  <2>3. FirstOfPage' /\ FreshIsCurrent'
    BY <2>1 DEF PeopleInv, FirstOfPage, FreshIsCurrent
  <2>4. ShownIsCurrent' /\ PanelLoadsItsOwn'
    BY <2>1 DEF PeopleInv, ShownIsCurrent, FetchesShown, Contacted!Shown, PanelLoadsItsOwn
  <2> QED BY <2>2, <2>3, <2>4 DEF PeopleInv
<1>2. CASE \E id : Contacted!HandleRowClick(id)
  <2>1. PICK id : Contacted!HandleRowClick(id)
    BY <1>2
  <2>2. /\ panel' = [id |-> id, contact |-> id] /\ actions' = Append(actions, Contacted!Request("detail", {id}))
        /\ strayed' = (\E i \in DOMAIN actions : ~(Contacted!Loads(actions[i]) \subseteq {id}))
        /\ UNCHANGED <<made, told, sieve, sheet, cache>>
    BY <2>1 DEF Contacted!HandleRowClick, Contacted!Opened
  <2>3. PICK c : c = Contacted!Request("detail", {id})
    OBVIOUS
  <2>4. Call(c) /\ c.at = "asked" /\ Contacted!Loads(c) = {id}
    BY <2>3, RequestIs
  <2>5. panel'.id = id /\ panel'.contact = id /\ DOMAIN panel' = {"id", "contact"} /\ strayed' \in BOOLEAN
    BY <2>2
  <2>6. panel'.id # Nothing /\ ~strayed' =>
           panel'.contact = panel'.id /\ LoadsOnly(actions, {panel'.id}) /\ Contacted!Loads(c) \subseteq {panel'.id}
    BY <2>2, <2>4, <2>5 DEF LoadsOnly
  <2> QED BY <2>2, <2>3, <2>4, <2>5, <2>6, CallMadeOK
<1> QED BY <1>1, <1>2

-----------------------------------------------------------------------------
(* Lists grow old; the rest of the page is not of the invariant.           *)
LEMMA AgingOK == ASSUME PeopleInv, NEW k \in Contacted!Keys, Contacted!GrowOld(k) PROVE PeopleInv'
<1>1. /\ cache' = [cache EXCEPT ![k].stale = TRUE]
      /\ UNCHANGED <<made, told, sieve, sheet, actions, panel, strayed>>
  BY DEF Contacted!GrowOld
<1>2. DOMAIN cache = Contacted!Keys /\ \A l \in Contacted!Keys : AList(cache[l]) /\ cache[l].asOf <= made
  BY DEF PeopleInv, PeopleTyped
<1>3. DOMAIN cache' = Contacted!Keys /\ \A l \in Contacted!Keys : l # k => cache'[l] = cache[l]
  BY <1>1, <1>2
<1>4. PICK new : new = [cache[k] EXCEPT !.stale = TRUE]
  OBVIOUS
<1>5. cache'[k] = new
  BY <1>1, <1>2, <1>4
<1>6. AList(new) /\ new.asOf = cache[k].asOf /\ new.status = cache[k].status /\ new.stale = TRUE
  BY <1>2, <1>4 DEF AList
<1>7. \A l \in Contacted!Keys : /\ AList(cache'[l]) /\ cache'[l].asOf = cache[l].asOf
                               /\ cache'[l].status = cache[l].status /\ (cache[l].stale => cache'[l].stale)
  BY <1>2, <1>3, <1>5, <1>6
<1>8. PeopleTyped'
  BY <1>1, <1>3, <1>7 DEF PeopleInv, PeopleTyped, Contacted!Shown
<1>9. FirstOfPage' /\ PanelLoadsItsOwn'
  BY <1>1 DEF PeopleInv, FirstOfPage, PanelLoadsItsOwn
<1>10. FreshIsCurrent'
  BY <1>1, <1>7 DEF PeopleInv, FreshIsCurrent
<1>11. ShownIsCurrent'
  BY <1>1, <1>7 DEF PeopleInv, PeopleTyped, ShownIsCurrent, FetchesShown, Contacted!Shown
<1> QED BY <1>8, <1>9, <1>10, <1>11 DEF PeopleInv

LEMMA BesidesOK == ASSUME PeopleInv, UNCHANGED <<made, told, sieve, sheet, cache, actions, panel, strayed>> PROVE PeopleInv'
<1>1. PeopleTyped'
  BY DEF PeopleInv, PeopleTyped, Contacted!Shown
<1>2. FirstOfPage' /\ FreshIsCurrent' /\ PanelLoadsItsOwn'
  BY DEF PeopleInv, FirstOfPage, FreshIsCurrent, PanelLoadsItsOwn
<1>3. ShownIsCurrent'
  BY DEF PeopleInv, ShownIsCurrent, FetchesShown, Contacted!Shown
<1> QED BY <1>1, <1>2, <1>3 DEF PeopleInv

-----------------------------------------------------------------------------
(* The back end answers the first call.                                    *)
LEMMA AnsweredCall ==
    ASSUME PeopleInv, NEW at \in {"ok", "failed"}, NEW a, actions # <<>>, Contacted!Answer(at, a)
    PROVE  /\ Calls(actions') /\ (\A i \in DOMAIN actions' : i > 1 => actions'[i].at = "asked")
           /\ actions' # <<>> /\ actions'[1].at = at /\ actions'[1].answer = a /\ actions'[1].op = actions[1].op
           /\ \A k : Contacted!Fetching(actions, k) => Contacted!Fetching(actions', k)
           /\ \A ids : LoadsOnly(actions, ids) => LoadsOnly(actions', ids)
<1>1. Calls(actions) /\ \A i \in DOMAIN actions : i > 1 => actions[i].at = "asked"
  BY DEF PeopleInv, PeopleTyped
<1>2. PICK S : actions \in Seq(S)
  BY <1>1 DEF Calls
<1>3. 1 \in DOMAIN actions /\ Call(actions[1])
  BY <1>1, <1>2 DEF Calls
<1>4. PICK c : c = [actions[1] EXCEPT !.at = at, !.answer = a]
  OBVIOUS
<1>5. /\ DOMAIN c = DOMAIN actions[1] /\ c.at = at /\ c.answer = a /\ c.op = actions[1].op /\ c.key = actions[1].key
      /\ c.ids = actions[1].ids /\ c.about = actions[1].about /\ c.live = actions[1].live
  BY <1>3, <1>4 DEF Call
<1>6. Call(c) /\ Contacted!Loads(c) = Contacted!Loads(actions[1])
  BY <1>3, <1>5 DEF Call, Contacted!Loads
<1>7. actions' = [actions EXCEPT ![1] = c]
  BY <1>3, <1>4 DEF Contacted!Answer
<1>8. /\ actions' \in Seq(S \cup {c}) /\ DOMAIN actions' = DOMAIN actions /\ actions'[1] = c /\ actions' # <<>>
      /\ \A i \in DOMAIN actions : i = 1 \/ actions'[i] = actions[i]
  BY <1>2, <1>3, <1>7
<1>9. Calls(actions') /\ \A i \in DOMAIN actions' : i > 1 => actions'[i].at = "asked"
  BY <1>1, <1>6, <1>8 DEF Calls
<1>10. \A k : Contacted!Fetching(actions, k) => Contacted!Fetching(actions', k)
  BY <1>5, <1>8 DEF Contacted!Fetching
<1>11. \A ids : LoadsOnly(actions, ids) => LoadsOnly(actions', ids)
  BY <1>6, <1>8 DEF LoadsOnly
<1> QED BY <1>5, <1>8, <1>9, <1>10, <1>11

LEMMA AnswerOK ==
    ASSUME PeopleInv, NEW at \in {"ok", "failed"}, NEW a, actions # <<>>, Contacted!Answer(at, a),
           UNCHANGED <<told, sieve, sheet, cache, panel, strayed>>, made' \in Nat, made <= made',
           at = "ok" => /\ actions[1].op = "list" => AList(a) /\ a.asOf >= told /\ a.asOf <= made'
                        /\ actions[1].op \in Changes => told < made'
    PROVE  PeopleInv'
<1>1. /\ Calls(actions') /\ (\A i \in DOMAIN actions' : i > 1 => actions'[i].at = "asked")
      /\ actions' # <<>> /\ actions'[1].at = at /\ actions'[1].answer = a /\ actions'[1].op = actions[1].op
      /\ \A k : Contacted!Fetching(actions, k) => Contacted!Fetching(actions', k)
      /\ \A ids : LoadsOnly(actions, ids) => LoadsOnly(actions', ids)
  BY AnsweredCall
<1>2. FirstOfPage'
  BY <1>1 DEF FirstOfPage
<1>3. \A k \in Contacted!Keys : AList(cache[k]) /\ cache[k].asOf <= made'
  BY DEF PeopleInv, PeopleTyped, AList
<1>4. told \in Nat /\ told <= made'
  BY DEF PeopleInv, PeopleTyped
<1>5. PeopleTyped'
  BY <1>1, <1>3, <1>4 DEF PeopleInv, PeopleTyped, Contacted!Shown
<1>6. FreshIsCurrent' /\ ShownIsCurrent' /\ PanelLoadsItsOwn'
  BY <1>1 DEF PeopleInv, FreshIsCurrent, ShownIsCurrent, FetchesShown, Contacted!Shown, PanelLoadsItsOwn
<1> QED BY <1>2, <1>5, <1>6 DEF PeopleInv

LEMMA AnsweringOK ==
    ASSUME PeopleInv, Contacted!FindAll \/ Contacted!FindById \/ Contacted!Write \/ Contacted!Delete \/ Contacted!Lose
    PROVE  PeopleInv'
<1>1. actions # <<>> /\ UNCHANGED <<told, sieve, sheet, cache, panel, strayed>>
  BY DEF Contacted!FindAll, Contacted!FindById, Contacted!Write, Contacted!Delete, Contacted!Lose, Contacted!Asked, Contacted!shown
<1>2. made \in Nat /\ told \in Nat /\ told <= made
  BY DEF PeopleInv, PeopleTyped
<1>3. CASE Contacted!FindAll
  <2>1. PICK a : a = [status |-> "success", items |-> Contacted!Rows(actions[1].key), asOf |-> made, stale |-> FALSE]
    OBVIOUS
  <2>2. Contacted!Answer("ok", a) /\ UNCHANGED made /\ actions[1].op = "list"
    BY <1>3, <2>1 DEF Contacted!FindAll, Contacted!Asked
  <2>3. actions[1].key \in Contacted!Keys
    <3>1. PICK S : actions \in Seq(S)
      BY DEF PeopleInv, PeopleTyped, Calls
    <3>2. Call(actions[1])
      BY <1>1, <3>1 DEF PeopleInv, PeopleTyped, Calls
    <3> QED BY <2>2, <3>2 DEF Call
  <2>4. AList(a) /\ a.asOf = made /\ actions[1].op \notin Changes
    <3>1. OfPeople(a.items)
      BY <2>1, <2>3, RowsArePeople
    <3> QED BY <1>2, <2>1, <2>2, <3>1 DEF AList, Changes
  <2> QED BY <1>1, <1>2, <2>2, <2>4, AnswerOK
<1>4. CASE Contacted!FindById \/ Contacted!Lose
  <2>1. PICK at \in {"ok", "failed"} : /\ Contacted!Answer(at, Nothing) /\ UNCHANGED made
                                       /\ at = "ok" => actions[1].op = "detail"
    BY <1>4 DEF Contacted!FindById, Contacted!Lose, Contacted!Asked
  <2>2. at = "ok" => actions[1].op # "list" /\ actions[1].op \notin Changes
    BY <2>1 DEF Changes
  <2> QED BY <1>1, <1>2, <2>1, <2>2, AnswerOK
<1>5. CASE Contacted!Write \/ Contacted!Delete
  <2>1. PICK at \in {"ok", "failed"} : /\ Contacted!Answer(at, Nothing)
                                       /\ made' = (IF at = "ok" THEN made + 1 ELSE made) /\ actions[1].op # "list"
    BY <1>5 DEF Contacted!Write, Contacted!Delete, Contacted!Asked
  <2> QED BY <1>1, <1>2, <2>1, AnswerOK
<1> QED BY <1>3, <1>4, <1>5

-----------------------------------------------------------------------------
(* What follows an answer.  The calls that are left are all still asked.   *)
LEMMA AskedAgain ==
    ASSUME Calls(actions'), StillAsked(actions')
    PROVE  (\A i \in DOMAIN actions' : i > 1 => actions'[i].at = "asked") /\ FirstOfPage'
<1>1. PICK S : actions' \in Seq(S)
  BY DEF Calls
<1>2. actions' # <<>> => 1 \in DOMAIN actions'
  BY <1>1
<1>3. actions' # <<>> => actions'[1].at = "asked"
  BY <1>2 DEF StillAsked
<1>4. FirstOfPage'
  BY <1>3 DEF FirstOfPage
<1> QED BY <1>4 DEF StillAsked

LEMMA AfterListOK == ASSUME PeopleInv, Contacted!AfterList PROVE PeopleInv'
<1>1. PICK c : c = actions[1]
  OBVIOUS
<1>2. PICK retried : retried = (c.live /\ ~(c.at = "ok") /\ c.tries = 1)
  OBVIOUS
<1>3. PICK d : d = [c EXCEPT !.at = "asked", !.tries = 2]
  OBVIOUS
<1>4. PICK rest : rest = Tail(actions)
  OBVIOUS
<1>5. /\ actions # <<>> /\ c.op = "list" /\ c.at \in {"ok", "failed"}
      /\ actions' = rest \o (IF retried THEN <<d>> ELSE <<>>)
      /\ cache' = (IF ~c.live \/ retried THEN cache
                   ELSE IF c.at = "ok" THEN [cache EXCEPT ![c.key] = c.answer]
                   ELSE [cache EXCEPT ![c.key].status = "error", ![c.key].stale = TRUE])
      /\ UNCHANGED <<made, told, sieve, sheet, panel, strayed>>
  BY <1>1, <1>2, <1>3, <1>4 DEF Contacted!AfterList, Contacted!Answered, Contacted!Ok, Contacted!Again
<1>6. Calls(actions) /\ \A i \in DOMAIN actions : i > 1 => actions[i].at = "asked"
  BY DEF PeopleInv, PeopleTyped
<1>7. /\ Calls(rest) /\ StillAsked(rest) /\ 1 \in DOMAIN actions /\ Call(c)
      /\ \A ids : LoadsOnly(actions, ids) => LoadsOnly(rest, ids)
      /\ \A k : Contacted!Fetching(actions, k) => Contacted!Fetching(rest, k) \/ (c.key = k /\ c.live)
  BY <1>1, <1>4, <1>5, <1>6, TailOfCalls
<1>8. Call(d) /\ d.op = "list" /\ d.key = c.key /\ d.live = c.live /\ d.at = "asked" /\ Contacted!Loads(d) = {}
  <2>1. DOMAIN d = DOMAIN c /\ d.op = "list" /\ d.key = c.key /\ d.live = c.live /\ d.at = "asked"
    BY <1>3, <1>5, <1>7 DEF Call
  <2> QED BY <1>5, <1>7, <2>1 DEF Call, Contacted!Loads
<1>9. PICK S : rest \in Seq(S)
  BY <1>7 DEF Calls
<1>10. \/ retried /\ actions' = Append(rest, d)
       \/ ~retried /\ actions' = rest
  BY <1>5, <1>9
<1>11. /\ Calls(actions') /\ StillAsked(actions') /\ \A ids : LoadsOnly(actions, ids) => LoadsOnly(actions', ids)
       /\ \A k : Contacted!Fetching(actions, k) => Contacted!Fetching(actions', k) \/ (c.key = k /\ c.live /\ ~retried)
  <2>1. CASE retried /\ actions' = Append(rest, d)
    <3>1. Calls(actions') /\ StillAsked(actions')
      BY <1>7, <1>8, <2>1, AppendCall
    <3>2. \A ids : LoadsOnly(actions, ids) => LoadsOnly(actions', ids)
      BY <1>7, <1>8, <2>1, AppendCall
    <3>3. \A k : /\ Contacted!Fetching(rest, k) => Contacted!Fetching(actions', k)
                 /\ c.key = k /\ c.live => Contacted!Fetching(actions', k)
      BY <1>7, <1>8, <2>1, AppendCall
    <3> QED BY <1>7, <3>1, <3>2, <3>3
  <2>2. CASE ~retried /\ actions' = rest
    BY <1>7, <2>2
  <2> QED BY <1>10, <2>1, <2>2
<1>12. DOMAIN cache = Contacted!Keys /\ c.key \in Contacted!Keys
  BY <1>5, <1>7 DEF PeopleInv, PeopleTyped, Call
<1>13. c.at = "ok" => AList(c.answer) /\ c.answer.asOf >= told /\ c.answer.asOf <= made
  BY <1>1, <1>5 DEF PeopleInv, FirstOfPage
<1>14. PICK new : new = IF c.at = "ok" THEN c.answer ELSE [cache[c.key] EXCEPT !.status = "error", !.stale = TRUE]
  OBVIOUS
<1>15. /\ DOMAIN cache' = Contacted!Keys
       /\ \A k \in Contacted!Keys : (cache'[k] = cache[k] /\ ~(c.key = k /\ c.live /\ ~retried))
                                   \/ (cache'[k] = new /\ k = c.key)
  <2>1. CASE ~c.live \/ retried
    <3>1. cache' = cache
      BY <1>5, <2>1
    <3>2. ~(c.live /\ ~retried)
      BY <2>1, Zenon
    <3>3. \A k \in Contacted!Keys : ~(c.key = k /\ c.live /\ ~retried)
      BY <3>2, Zenon
    <3>4. \A k \in Contacted!Keys : cache'[k] = cache[k]
      BY <3>1
    <3> QED BY <1>12, <3>1, <3>3, <3>4, Zenon
  <2>2. CASE ~(~c.live \/ retried)
    <3>1. cache' = [cache EXCEPT ![c.key] = new]
      <4>1. CASE c.at = "ok"
        <5>1. new = c.answer
          BY <1>14, <4>1
        <5>2. cache' = [cache EXCEPT ![c.key] = c.answer]
          BY <1>5, <2>2, <4>1
        <5> QED BY <5>1, <5>2
      <4>2. CASE c.at # "ok"
        <5>1. new = [cache[c.key] EXCEPT !.status = "error", !.stale = TRUE]
          BY <1>14, <4>2
        <5>2. cache' = [cache EXCEPT ![c.key].status = "error", ![c.key].stale = TRUE]
          BY <1>5, <2>2, <4>2
        <5> QED BY <1>12, <5>1, <5>2
      <4> QED BY <4>1, <4>2
    <3> QED BY <1>12, <3>1
  <2> QED BY <2>1, <2>2
<1>16. /\ AList(new) /\ new.asOf <= made /\ (~new.stale => new.asOf >= told)
       /\ new.status = "success" => new.asOf >= told
  <2>1. CASE c.at = "ok"
    BY <1>13, <1>14, <2>1
  <2>2. CASE c.at # "ok"
    <3>1. AList(cache[c.key]) /\ cache[c.key].asOf <= made
      BY <1>12 DEF PeopleInv, PeopleTyped
    <3>2. new = [cache[c.key] EXCEPT !.status = "error", !.stale = TRUE]
      BY <1>14, <2>2
    <3>3. /\ DOMAIN new = DOMAIN cache[c.key] /\ new.stale = TRUE
          /\ new.status = "error" /\ new.asOf = cache[c.key].asOf /\ new.items = cache[c.key].items
      BY <3>1, <3>2 DEF AList
    <3>4. new.asOf \in Nat /\ new.asOf <= made
      BY <3>1, <3>3 DEF AList
    <3>5. AList(new)
      BY <3>1, <3>3, <3>4 DEF AList
    <3> QED BY <3>3, <3>4, <3>5
  <2> QED BY <2>1, <2>2
<1>17. \A k \in Contacted!Keys : AList(cache'[k]) /\ cache'[k].asOf <= made /\ (~cache'[k].stale => cache'[k].asOf >= told)
  BY <1>15, <1>16 DEF PeopleInv, PeopleTyped, FreshIsCurrent
<1>18. PeopleTyped' /\ FirstOfPage'
  <2>1. (\A i \in DOMAIN actions' : i > 1 => actions'[i].at = "asked") /\ FirstOfPage'
    BY <1>11, AskedAgain
  <2> QED BY <1>5, <1>11, <1>15, <1>17, <2>1 DEF PeopleInv, PeopleTyped, Contacted!Shown
<1>19. FreshIsCurrent' /\ PanelLoadsItsOwn'
  BY <1>5, <1>11, <1>17 DEF PeopleInv, FreshIsCurrent, PanelLoadsItsOwn
<1>20. ShownIsCurrent'
  <2>1. PICK k \in Contacted!Keys : k = Contacted!Shown /\ k = Contacted!Shown'
    BY <1>5 DEF PeopleInv, PeopleTyped, Contacted!Shown
  <2>2. SUFFICES ASSUME cache'[k].status = "success", ~Contacted!Fetching(actions', k) PROVE cache'[k].asOf >= told
    BY <1>5, <2>1 DEF ShownIsCurrent, FetchesShown
  <2>3. CASE cache'[k] = new
    BY <1>16, <2>2, <2>3
  <2>4. CASE cache'[k] = cache[k] /\ ~(c.key = k /\ c.live /\ ~retried)
    BY <1>11, <2>1, <2>2, <2>4 DEF PeopleInv, ShownIsCurrent, FetchesShown
  <2> QED BY <1>15, <2>3, <2>4
<1> QED BY <1>18, <1>19, <1>20 DEF PeopleInv

LEMMA AfterDetailOK == ASSUME PeopleInv, Contacted!AfterDetail PROVE PeopleInv'
<1>1. PICK c : c = actions[1]
  OBVIOUS
<1>2. /\ actions # <<>> /\ c.op = "detail" /\ actions' = Tail(actions)
      /\ UNCHANGED <<made, told, sieve, sheet, cache, strayed>>
      /\ \/ UNCHANGED panel
         \/ panel.id # Nothing /\ panel' = [panel EXCEPT !.contact = CHOOSE id \in c.ids : TRUE]
  BY <1>1 DEF Contacted!AfterDetail, Contacted!Answered
<1>3. Calls(actions) /\ \A i \in DOMAIN actions : i > 1 => actions[i].at = "asked"
  BY DEF PeopleInv, PeopleTyped
<1>4. /\ Calls(actions') /\ StillAsked(actions') /\ 1 \in DOMAIN actions /\ Call(c)
      /\ \A ids : LoadsOnly(actions, ids) => LoadsOnly(actions', ids)
      /\ \A k : Contacted!Fetching(actions, k) => Contacted!Fetching(actions', k)
  BY <1>1, <1>2, <1>3, TailOfCalls
<1>5. (\A i \in DOMAIN actions' : i > 1 => actions'[i].at = "asked") /\ FirstOfPage'
  BY <1>4, AskedAgain
<1>6. DOMAIN panel = {"id", "contact"}
  BY DEF PeopleInv, PeopleTyped
<1>7. PICK id : id = CHOOSE x \in c.ids : TRUE
  OBVIOUS
<1>8. id \in c.ids
  BY <1>2, <1>4, <1>7 DEF Call
<1>9. \/ UNCHANGED panel
      \/ panel'.id = panel.id /\ panel'.contact = id /\ DOMAIN panel' = DOMAIN panel
  BY <1>2, <1>6, <1>7
<1>10. PeopleTyped'
  BY <1>2, <1>4, <1>5, <1>6, <1>9 DEF PeopleInv, PeopleTyped, Contacted!Shown
<1>11. FreshIsCurrent' /\ ShownIsCurrent'
  BY <1>2, <1>4 DEF PeopleInv, FreshIsCurrent, ShownIsCurrent, FetchesShown, Contacted!Shown
<1>12. PanelLoadsItsOwn'
  <2> SUFFICES ASSUME panel'.id # Nothing, ~strayed' PROVE panel'.contact = panel'.id /\ LoadsOnly(actions', {panel'.id})
    BY DEF PanelLoadsItsOwn
  <2>1. panel'.id = panel.id /\ panel.contact = panel.id /\ LoadsOnly(actions, {panel.id})
    BY <1>2, <1>9 DEF PeopleInv, PanelLoadsItsOwn
  <2>2. c.ids \subseteq {panel.id}
    BY <1>1, <1>2, <1>4, <2>1 DEF LoadsOnly, Contacted!Loads
  <2> QED BY <1>4, <1>8, <1>9, <2>1, <2>2
<1> QED BY <1>5, <1>10, <1>11, <1>12 DEF PeopleInv

(* The back end has made a change: every list is stale, and the one shown  *)
(* is on its way.                                                          *)
LEMMA InvalidatedOK ==
    ASSUME PeopleInv, told < made, cache' = Contacted!Invalidated, told' = told + 1, UNCHANGED <<made, strayed>>,
           Contacted!Shown' \in Contacted!Keys, Calls(actions'), StillAsked(actions'),
           Contacted!Fetching(actions', Contacted!Shown'),
           panel' = panel \/ panel' = [id |-> Nothing, contact |-> Nothing],
           panel' = panel /\ panel.id # Nothing /\ ~strayed => LoadsOnly(actions', {panel.id})
    PROVE  PeopleInv'
<1>1. /\ DOMAIN cache = Contacted!Keys /\ DOMAIN panel = {"id", "contact"} /\ strayed \in BOOLEAN
      /\ made \in Nat /\ told \in Nat /\ \A k \in Contacted!Keys : AList(cache[k]) /\ cache[k].asOf <= made
  BY DEF PeopleInv, PeopleTyped
<1>2. DOMAIN cache' = Contacted!Keys /\ \A k \in Contacted!Keys : cache'[k] = [cache[k] EXCEPT !.stale = TRUE]
  BY DEF Contacted!Invalidated
<1>3. ASSUME NEW l, AList(l) PROVE LET m == [l EXCEPT !.stale = TRUE] IN AList(m) /\ m.asOf = l.asOf /\ m.stale = TRUE
  BY <1>3 DEF AList
<1>4. ASSUME NEW k \in Contacted!Keys PROVE AList(cache'[k]) /\ cache'[k].asOf <= made /\ cache'[k].stale = TRUE
  <2>1. PICK m : m = [cache[k] EXCEPT !.stale = TRUE]
    OBVIOUS
  <2>2. AList(cache[k]) /\ cache[k].asOf <= made /\ cache'[k] = m
    BY <1>1, <1>2, <2>1
  <2>3. AList(m) /\ m.asOf = cache[k].asOf /\ m.stale = TRUE
    BY <2>1, <2>2, <1>3
  <2> QED BY <2>2, <2>3
<1>5. (\A i \in DOMAIN actions' : i > 1 => actions'[i].at = "asked") /\ FirstOfPage'
  BY AskedAgain
<1>6. told' \in Nat /\ made' \in Nat /\ told' <= made' /\ DOMAIN panel' = {"id", "contact"} /\ strayed' \in BOOLEAN
  BY <1>1
<1>7. PeopleTyped'
  BY <1>2, <1>4, <1>5, <1>6 DEF PeopleTyped
<1>8. FreshIsCurrent' /\ ShownIsCurrent'
  BY <1>4 DEF FreshIsCurrent, ShownIsCurrent, FetchesShown
<1>9. PanelLoadsItsOwn'
  BY DEF PeopleInv, PanelLoadsItsOwn
<1> QED BY <1>5, <1>7, <1>8, <1>9 DEF PeopleInv

(* The back end has not made it.                                           *)
LEMMA NotMadeOK ==
    ASSUME PeopleInv, actions # <<>>, actions[1].op # "list", actions' = Tail(actions),
           UNCHANGED <<made, told, sieve, sheet, cache, panel, strayed>>
    PROVE  PeopleInv'
<1>1. Calls(actions) /\ \A i \in DOMAIN actions : i > 1 => actions[i].at = "asked"
  BY DEF PeopleInv, PeopleTyped
<1>2. /\ Calls(actions') /\ StillAsked(actions')
      /\ \A ids : LoadsOnly(actions, ids) => LoadsOnly(actions', ids)
      /\ \A k : Contacted!Fetching(actions, k) => Contacted!Fetching(actions', k)
  BY <1>1, TailOfCalls
<1>3. (\A i \in DOMAIN actions' : i > 1 => actions'[i].at = "asked") /\ FirstOfPage'
  BY <1>2, AskedAgain
<1>4. PeopleTyped'
  BY <1>2, <1>3 DEF PeopleInv, PeopleTyped, Contacted!Shown
<1>5. FreshIsCurrent' /\ ShownIsCurrent' /\ PanelLoadsItsOwn'
  BY <1>2 DEF PeopleInv, FreshIsCurrent, ShownIsCurrent, FetchesShown, Contacted!Shown, PanelLoadsItsOwn
<1> QED BY <1>3, <1>4, <1>5 DEF PeopleInv

LEMMA AfterChangeOK == ASSUME PeopleInv, Contacted!AfterChange PROVE PeopleInv'
<1>1. PICK c : c = actions[1]
  OBVIOUS
<1>2. PICK d : d = Contacted!Request("detail", {c.about})
  OBVIOUS
<1>3. PICK rest : rest = Tail(actions) \o (IF c.op = "channel" THEN <<d>> ELSE <<>>)
  OBVIOUS
<1>4. /\ actions # <<>> /\ c.op \in {"save", "channel", "create", "delete", "drop"} /\ c.at \in {"ok", "failed"}
      /\ actions' = (IF c.at = "ok" THEN Contacted!Refreshed(rest) ELSE Tail(actions))
      /\ cache' = (IF c.at = "ok" THEN Contacted!Invalidated ELSE cache)
      /\ told' = (IF c.at = "ok" THEN told + 1 ELSE told)
      /\ panel' = (IF c.at = "ok" /\ c.op = "drop" THEN [id |-> Nothing, contact |-> Nothing] ELSE panel)
      /\ UNCHANGED <<made, sieve, sheet, strayed>>
  BY <1>1, <1>2, <1>3 DEF Contacted!AfterChange, Contacted!Answered, Contacted!Ok
<1>5. CASE c.at # "ok"
  BY <1>1, <1>4, <1>5, NotMadeOK
<1>6. CASE c.at = "ok"
  <2>1. Calls(actions) /\ (\A i \in DOMAIN actions : i > 1 => actions[i].at = "asked") /\ Contacted!Shown \in Contacted!Keys
    BY DEF PeopleInv, PeopleTyped
  <2>2. told < made
    BY <1>1, <1>4, <1>6 DEF PeopleInv, FirstOfPage, Changes
  <2>3. /\ Calls(Tail(actions)) /\ StillAsked(Tail(actions)) /\ 1 \in DOMAIN actions
        /\ \A ids : LoadsOnly(actions, ids) => LoadsOnly(Tail(actions), ids)
    BY <1>4, <2>1, TailOfCalls
  <2>4. Call(d) /\ d.at = "asked" /\ Contacted!Loads(d) = {c.about}
    <3>1. /\ DOMAIN d = {"op", "key", "ids", "about", "tries", "live", "at", "answer"}
          /\ d.op = "detail" /\ d.ids = {c.about} /\ d.live = TRUE /\ d.at = "asked"
      BY <1>2 DEF Contacted!Request
    <3>2. Contacted!Loads(d) = {c.about}
      BY <3>1 DEF Contacted!Loads
    <3> QED BY <3>1, <3>2 DEF Call
  <2>5. PICK S : Tail(actions) \in Seq(S)
    BY <2>3 DEF Calls
  <2>6. \/ c.op = "channel" /\ rest = Append(Tail(actions), d)
        \/ c.op # "channel" /\ rest = Tail(actions)
    BY <1>3, <2>5
  <2>7. Calls(rest) /\ StillAsked(rest)
    <3>1. CASE rest = Append(Tail(actions), d)
      BY <2>3, <2>4, <3>1, AppendCall
    <3>2. CASE rest = Tail(actions)
      BY <2>3, <3>2
    <3> QED BY <2>6, <3>1, <3>2
  <2>8. ASSUME NEW id, LoadsOnly(actions, {id}) PROVE LoadsOnly(rest, {id})
    <3>1. CASE c.op = "channel" /\ rest = Append(Tail(actions), d)
      <4>1. Contacted!Loads(c) \subseteq {id} /\ Contacted!Loads(c) = {c.about}
        BY <1>1, <2>3, <2>8, <3>1 DEF LoadsOnly, Contacted!Loads
      <4> QED BY <2>3, <2>4, <2>8, <3>1, <4>1, AppendCall
    <3>2. CASE rest = Tail(actions)
      BY <2>3, <2>8, <3>2
    <3> QED BY <2>6, <3>1, <3>2
  <2>9. /\ Calls(actions') /\ StillAsked(actions') /\ Contacted!Fetching(actions', Contacted!Shown)
        /\ \A ids : LoadsOnly(rest, ids) => LoadsOnly(actions', ids)
    BY <1>4, <1>6, <2>1, <2>7, RefreshedIs DEF FetchesShown
  <2>10. Contacted!Shown' = Contacted!Shown
    BY <1>4 DEF Contacted!Shown
  <2>11. panel' = panel /\ panel.id # Nothing /\ ~strayed => LoadsOnly(actions', {panel.id})
    BY <2>8, <2>9 DEF PeopleInv, PanelLoadsItsOwn
  <2> QED BY <1>4, <1>6, <2>1, <2>2, <2>9, <2>10, <2>11, InvalidatedOK
<1> QED BY <1>5, <1>6

LEMMA AfterBulkDeleteOK == ASSUME PeopleInv, Contacted!AfterBulk PROVE PeopleInv'
<1>1. PICK rest : rest = Contacted!Refreshed(Tail(actions))
  OBVIOUS
<1>2. PICK k : k = <<sieve, 1>>
  OBVIOUS
<1>3. /\ actions # <<>> /\ actions[1].op = "bulk" /\ actions[1].at \in {"ok", "failed"}
      /\ actions' = (IF actions[1].at = "ok" THEN Contacted!Chosen(rest, Contacted!Invalidated, k) ELSE Tail(actions))
      /\ cache' = (IF actions[1].at = "ok" THEN Contacted!Invalidated ELSE cache)
      /\ told' = (IF actions[1].at = "ok" THEN told + 1 ELSE told)
      /\ sheet' = (IF actions[1].at = "ok" THEN 1 ELSE sheet)
      /\ UNCHANGED <<made, sieve, panel, strayed>>
  BY <1>1, <1>2 DEF Contacted!AfterBulk, Contacted!Answered, Contacted!Ok
<1>4. CASE actions[1].at # "ok"
  BY <1>3, <1>4, NotMadeOK
<1>5. CASE actions[1].at = "ok"
  <2>1. Calls(actions) /\ (\A i \in DOMAIN actions : i > 1 => actions[i].at = "asked") /\ Contacted!Shown \in Contacted!Keys
    BY DEF PeopleInv, PeopleTyped
  <2>2. told < made
    BY <1>3, <1>5 DEF PeopleInv, FirstOfPage, Changes
  <2>3. sieve \in Sieves
    BY <2>1 DEF Contacted!Shown, Contacted!Keys
  <2>4. k \in Contacted!Keys /\ Contacted!Shown' = k
    BY <1>2, <1>3, <1>5, <2>3, PagesAre DEF Contacted!Shown
  <2>5. Contacted!Invalidated[k].stale = TRUE
    <3>1. DOMAIN cache = Contacted!Keys /\ AList(cache[k])
      BY <2>4 DEF PeopleInv, PeopleTyped
    <3>2. Contacted!Invalidated[k] = [cache[k] EXCEPT !.stale = TRUE]
      BY <2>4 DEF Contacted!Invalidated
    <3> QED BY <3>1, <3>2 DEF AList
  <2>6. /\ Calls(Tail(actions)) /\ StillAsked(Tail(actions))
        /\ \A ids : LoadsOnly(actions, ids) => LoadsOnly(Tail(actions), ids)
    BY <1>3, <2>1, TailOfCalls
  <2>7. Calls(rest) /\ StillAsked(rest) /\ \A ids : LoadsOnly(Tail(actions), ids) => LoadsOnly(rest, ids)
    BY <1>1, <2>1, <2>6, RefreshedIs
  <2>8. \/ actions' = Append(rest, Listed(k))
        \/ actions' = rest /\ Contacted!Fetching(rest, k)
    BY <1>3, <1>5, <2>5 DEF Contacted!Chosen, Listed
  <2>9. /\ Calls(actions') /\ StillAsked(actions') /\ Contacted!Fetching(actions', k)
        /\ \A ids : LoadsOnly(rest, ids) => LoadsOnly(actions', ids)
    <3>1. CASE actions' = Append(rest, Listed(k))
      <4>1. /\ Call(Listed(k)) /\ Listed(k).op = "list" /\ Listed(k).key = k /\ Listed(k).live = TRUE
            /\ Listed(k).at = "asked" /\ Contacted!Loads(Listed(k)) = {}
        BY <2>4, ListCall
      <4>2. Calls(actions') /\ StillAsked(actions') /\ Contacted!Fetching(actions', k)
        BY <2>7, <3>1, <4>1, AppendCall
      <4>3. \A ids : LoadsOnly(rest, ids) => LoadsOnly(actions', ids)
        BY <2>7, <3>1, <4>1, AppendCall
      <4> QED BY <4>2, <4>3
    <3>2. CASE actions' = rest /\ Contacted!Fetching(rest, k)
      BY <2>7, <3>2
    <3> QED BY <2>8, <3>1, <3>2
  <2>10. panel' = panel /\ panel.id # Nothing /\ ~strayed => LoadsOnly(actions', {panel.id})
    BY <2>6, <2>7, <2>9 DEF PeopleInv, PanelLoadsItsOwn
  <2> QED BY <1>3, <1>5, <2>2, <2>4, <2>9, <2>10, InvalidatedOK
<1> QED BY <1>4, <1>5

-----------------------------------------------------------------------------
LEMMA PeopleNext == PeopleInv /\ [Contacted!Next]_Contacted!vars => PeopleInv'
<1> SUFFICES ASSUME PeopleInv, [Contacted!Next]_Contacted!vars PROVE PeopleInv'
  OBVIOUS
<1>1. CASE UNCHANGED Contacted!vars
  BY <1>1, BesidesOK DEF Contacted!vars
<1>2. CASE Contacted!ToggleAllPageRows \/ \E i : Contacted!HandleRowSelectionChange(i)
  BY <1>2, BesidesOK DEF Contacted!ToggleAllPageRows, Contacted!HandleRowSelectionChange
<1>3. CASE Contacted!Elsewhere
  BY <1>3, BesidesOK DEF Contacted!Elsewhere, Contacted!shown
<1>4. CASE Contacted!Next
  <2>1. \/ (\E f \in Sieves : Contacted!HandleFilterChange(f)) \/ (\E p : Contacted!OnPaginationChange(p))
        \/ \E k \in Contacted!Keys : Contacted!GrowOld(k)
        \/ Contacted!Retry \/ Contacted!ToggleAllPageRows \/ Contacted!HandleBulkDelete \/ Contacted!HandleSubmit
        \/ \E i : Contacted!HandleRowSelectionChange(i)
        \/ (\E id : Contacted!HandleDeleteSingle(id)) \/ (\E id : Contacted!HandleRowClick(id))
        \/ Contacted!Close \/ Contacted!HandleSaveProfile \/ Contacted!ChangeChannel \/ Contacted!HandleDeleteContact
        \/ Contacted!FindAll \/ Contacted!FindById \/ Contacted!Write \/ Contacted!Delete \/ Contacted!Lose
        \/ Contacted!Elsewhere
        \/ Contacted!AfterList \/ Contacted!AfterDetail \/ Contacted!AfterChange \/ Contacted!AfterBulk
    BY <1>4 DEF Contacted!Next, Contacted!RowActions
  <2> QED BY <1>2, <1>3, <2>1, ChoosingOK, AgingOK, AskingOK, OpeningOK, AnsweringOK, AfterListOK, AfterDetailOK, AfterChangeOK, AfterBulkDeleteOK
<1> QED BY <1>1, <1>4

(* A list of contacts that is shown and not on its way was read after      *)
(* every change the tab was told of, and the panel shows the contact that  *)
(* was opened, unless another was still to be loaded then: useQuery and    *)
(* refreshAll of ContactsPage, ContactDetailPanel.                         *)
THEOREM ContactsStayCurrent == Contacted!Spec => []PageIsCurrent
<1>1. PeopleInv => PageIsCurrent
  <2> SUFFICES ASSUME PeopleInv PROVE PageIsCurrent
    OBVIOUS
  <2>1. cache[Contacted!Shown].status = "success" /\ ~Contacted!Fetching(actions, Contacted!Shown)
          => cache[Contacted!Shown].asOf >= told
    BY DEF PeopleInv, ShownIsCurrent, FetchesShown
  <2>2. panel.id # Nothing /\ actions = <<>> /\ ~strayed => panel.contact = panel.id
    BY DEF PeopleInv, PanelLoadsItsOwn
  <2> QED BY <2>1, <2>2 DEF PageIsCurrent, Contacted!PageIsCurrent
<1> QED BY PeopleInit, PeopleNext, <1>1, PTL DEF Contacted!Spec

(* What the page keeps besides its lists: contacts, ticks, the panel.      *)
RestOfPageTyped ==
    /\ people \subseteq People /\ picked \subseteq People
    /\ panel.id = Nothing => panel.contact = Nothing
    /\ DOMAIN browse = Contacted!Happenings

LEMMA VisibleArePeople ==
    ASSUME PeopleInv, NEW t, UNCHANGED cache, UNCHANGED sieve, UNCHANGED sheet
    PROVE  Contacted!Ticked(t) \subseteq People
<1>1. AList(cache[Contacted!Shown])
  BY DEF PeopleInv, PeopleTyped
<1>2. OfPeople(Contacted!Visible)
  BY <1>1, EmptyOfPeople DEF Contacted!Visible, AList
<1> QED BY <1>2 DEF Contacted!Ticked, OfPeople

LEMMA BrowseSpent == ASSUME RestOfPageTyped, NEW what, Contacted!Spend(what) PROVE DOMAIN browse' = Contacted!Happenings
BY DEF RestOfPageTyped, Contacted!Spend

LEMMA RestOfPageNext ==
    ASSUME PeopleInv, RestOfPageTyped, [Contacted!Next]_Contacted!vars
    PROVE  RestOfPageTyped'
<1>1. DOMAIN browse' = Contacted!Happenings
  <2>1. CASE UNCHANGED browse
    BY <2>1 DEF RestOfPageTyped
  <2>2. CASE \E what : Contacted!Spend(what)
    BY <2>2, BrowseSpent
  <2>3. UNCHANGED browse \/ \E what : Contacted!Spend(what)
    BY DEF Contacted!vars, Contacted!Next, Contacted!HandleFilterChange, Contacted!OnPaginationChange, Contacted!GrowOld,
           Contacted!Retry, Contacted!ToggleAllPageRows, Contacted!HandleBulkDelete, Contacted!HandleSubmit,
           Contacted!HandleRowSelectionChange, Contacted!RowActions, Contacted!HandleDeleteSingle, Contacted!HandleRowClick,
           Contacted!Close, Contacted!HandleSaveProfile, Contacted!ChangeChannel, Contacted!HandleDeleteContact,
           Contacted!Ask, Contacted!FindAll, Contacted!FindById, Contacted!Write, Contacted!Delete, Contacted!Lose,
           Contacted!Elsewhere, Contacted!AfterList, Contacted!AfterDetail, Contacted!AfterChange, Contacted!AfterBulk
  <2> QED BY <2>1, <2>2, <2>3
<1>2. people' \subseteq People
  <2>1. people' \subseteq people
    BY DEF Contacted!vars, Contacted!Next, Contacted!HandleFilterChange, Contacted!OnPaginationChange, Contacted!GrowOld,
           Contacted!Retry, Contacted!ToggleAllPageRows, Contacted!HandleBulkDelete, Contacted!HandleSubmit,
           Contacted!HandleRowSelectionChange, Contacted!RowActions, Contacted!HandleDeleteSingle, Contacted!HandleRowClick,
           Contacted!Close, Contacted!HandleSaveProfile, Contacted!ChangeChannel, Contacted!HandleDeleteContact,
           Contacted!Ask, Contacted!FindAll, Contacted!FindById, Contacted!Write, Contacted!Delete, Contacted!Lose,
           Contacted!Elsewhere, Contacted!AfterList, Contacted!AfterDetail, Contacted!AfterChange, Contacted!AfterBulk
  <2> QED BY <2>1 DEF RestOfPageTyped
<1>3. picked' \subseteq People
  <2>1. \/ UNCHANGED picked \/ picked' = {}
        \/ picked' = Contacted!Ticked(ticks') /\ UNCHANGED <<cache, sieve, sheet>>
    BY DEF Contacted!vars, Contacted!Next, Contacted!HandleFilterChange, Contacted!OnPaginationChange, Contacted!GrowOld,
           Contacted!Retry, Contacted!ToggleAllPageRows, Contacted!HandleBulkDelete, Contacted!HandleSubmit,
           Contacted!HandleRowSelectionChange, Contacted!RowActions, Contacted!HandleDeleteSingle, Contacted!HandleRowClick,
           Contacted!Close, Contacted!HandleSaveProfile, Contacted!ChangeChannel, Contacted!HandleDeleteContact,
           Contacted!Ask, Contacted!FindAll, Contacted!FindById, Contacted!Write, Contacted!Delete, Contacted!Lose,
           Contacted!Elsewhere, Contacted!shown, Contacted!AfterList, Contacted!AfterDetail, Contacted!AfterChange,
           Contacted!AfterBulk
  <2> QED BY <2>1, VisibleArePeople DEF RestOfPageTyped
<1>4. panel'.id = Nothing => panel'.contact = Nothing
  <2>0. DOMAIN panel = {"id", "contact"}
    BY DEF PeopleInv, PeopleTyped
  <2>1. \/ UNCHANGED panel \/ panel' = [id |-> Nothing, contact |-> Nothing]
        \/ \E id : panel' = [id |-> id, contact |-> id]
        \/ panel.id # Nothing /\ \E id : panel' = [panel EXCEPT !.contact = id]
    BY DEF Contacted!vars, Contacted!Next, Contacted!HandleFilterChange, Contacted!OnPaginationChange, Contacted!GrowOld,
           Contacted!Retry, Contacted!ToggleAllPageRows, Contacted!HandleBulkDelete, Contacted!HandleSubmit,
           Contacted!HandleRowSelectionChange, Contacted!RowActions, Contacted!HandleDeleteSingle, Contacted!HandleRowClick,
           Contacted!Opened, Contacted!Close, Contacted!HandleSaveProfile, Contacted!ChangeChannel,
           Contacted!HandleDeleteContact, Contacted!Ask, Contacted!FindAll, Contacted!FindById, Contacted!Write,
           Contacted!Delete, Contacted!Lose, Contacted!Elsewhere, Contacted!shown, Contacted!AfterList,
           Contacted!AfterDetail, Contacted!AfterChange, Contacted!AfterBulk
  <2> QED BY <2>0, <2>1 DEF RestOfPageTyped
<1> QED BY <1>1, <1>2, <1>3, <1>4 DEF RestOfPageTyped

(* Contacts, lists, ticks, calls and the panel keep to their types; what   *)
(* is ticked is a contact: ContactsPage.                                   *)
THEOREM ContactsPageTypeCorrect == Contacted!Spec => []Contacted!ContactsPageTypeOK
<1>1. Contacted!Init => RestOfPageTyped
  <2> SUFFICES ASSUME Contacted!Init PROVE RestOfPageTyped
    OBVIOUS
  <2>1. PICK v \in Browses : browse = v
    BY DEF Contacted!Init
  <2>2. v \in [Contacted!Happenings -> Nat]
    BY ScreensAssumption DEF Contacted!PagesOK
  <2>3. people = People /\ picked = {} /\ panel = [id |-> Nothing, contact |-> Nothing]
    BY DEF Contacted!Init
  <2> QED BY <2>1, <2>2, <2>3 DEF RestOfPageTyped
<1>2. PeopleInv /\ RestOfPageTyped /\ [Contacted!Next]_Contacted!vars => RestOfPageTyped'
  BY RestOfPageNext
<1>3. PeopleInv /\ RestOfPageTyped => Contacted!ContactsPageTypeOK
  <2> SUFFICES ASSUME PeopleInv, RestOfPageTyped PROVE Contacted!ContactsPageTypeOK
    OBVIOUS
  <2>1. \A i \in DOMAIN actions :
           actions[i].op \in {"list", "detail", "delete", "bulk", "drop", "save", "channel", "create"}
    BY DEF PeopleInv, PeopleTyped, Calls, Call, Changes
  <2>2. \A k \in Contacted!Keys : cache[k].status \in {"pending", "success", "error"} /\ cache[k].asOf <= made
    BY DEF PeopleInv, PeopleTyped, AList
  <2>3. told <= made /\ Contacted!Shown \in Contacted!Keys /\ DOMAIN cache = Contacted!Keys
    BY DEF PeopleInv, PeopleTyped
  <2> QED BY <2>1, <2>2, <2>3 DEF RestOfPageTyped, Contacted!ContactsPageTypeOK
<1> QED BY PeopleInit, PeopleNext, <1>1, <1>2, <1>3, PTL DEF Contacted!Spec

-----------------------------------------------------------------------------
(***************************************************************************)
(* The pages of templates.                                                 *)
(***************************************************************************)
Acts == {"create", "update", "remove", "duplicate"}
AnAction(c) ==
    /\ DOMAIN c = {"op", "row", "mine", "at", "tries", "rows"}
    /\ c.op \in Acts \cup {"list"} /\ c.mine \in BOOLEAN /\ c.at \in {"start", "ok", "failed"}
Waits(q) == (\E S : q \in Seq(S)) /\ \A i \in DOMAIN q : AnAction(q[i]) /\ q[i].at = "start"
(* A load whose answer will be shown; a change asked for by a page that    *)
(* was left; a change that keeps its row busy.                             *)
Counts(c) == c.op = "list" /\ c.mine
OfAPageLeft(c) == c.op \in Acts /\ ~c.mine
KeepsBusy(c) == c.op \in {"remove", "duplicate"} /\ c.mine
CountsIn(q) == \E i \in DOMAIN q : Counts(q[i])

ActionsTyped ==
    /\ Waits(pending) /\ (served = Catalogue!Free \/ AnAction(served))
    /\ isLoading \in BOOLEAN /\ behind \in BOOLEAN
(* One load counts at a time, and while one does the list is "loading".    *)
OneLoadCounts ==
    /\ \A i, j \in DOMAIN pending : Counts(pending[i]) /\ Counts(pending[j]) => i = j
    /\ Counts(served) => ~CountsIn(pending)
LoadingIsShown == where = "list" /\ (Counts(served) \/ CountsIn(pending)) => isLoading
(* The load comes after the changes of pages that were left, ...           *)
LoadComesLast ==
    where = "list" =>
        /\ OfAPageLeft(served) => CountsIn(pending)
        /\ \A i \in DOMAIN pending : OfAPageLeft(pending[i]) => \E j \in DOMAIN pending : j > i /\ Counts(pending[j])
(* ... what it has read is the table, ...                                  *)
ReadIsTable == Counts(served) /\ served.at = "ok" /\ ~behind => served.rows = catalogue
(* ... and the list is the table unless it is loading or will load.        *)
ListIsCurrent ==
    where = "list" /\ ~behind =>
        everything = catalogue \/ isLoading \/ (served.op \in Acts /\ served.at # "start")
BusyWaits == occupied # Nothing => KeepsBusy(served) \/ \E i \in DOMAIN pending : KeepsBusy(pending[i])
CatalogueInv ==
    ActionsTyped /\ OneLoadCounts /\ LoadingIsShown /\ LoadComesLast /\ ReadIsTable /\ ListIsCurrent /\ BusyWaits

-----------------------------------------------------------------------------
LEMMA PageLeftIs ==
    ASSUME NEW c, AnAction(c)
    PROVE  /\ AnAction(Catalogue!Left(c)) /\ Catalogue!Left(c).mine = FALSE /\ Catalogue!Left(c).at = c.at
           /\ Catalogue!Left(c).op = c.op /\ c # Catalogue!Free
<1>1. PICK d : d = Catalogue!Left(c)
  OBVIOUS
<1>2. c # Catalogue!Free
  <2>1. c.op # "none"
    BY DEF AnAction, Acts
  <2>2. Catalogue!Free.op = "none"
    BY DEF Catalogue!Free
  <2> QED BY <2>1, <2>2
<1>3. d = [c EXCEPT !.mine = FALSE, !.rows = <<>>]
  BY <1>1, <1>2 DEF Catalogue!Left
<1>4. DOMAIN d = DOMAIN c /\ d.mine = FALSE /\ d.at = c.at /\ d.op = c.op
  BY <1>3 DEF AnAction
<1>5. AnAction(d)
  BY <1>4 DEF AnAction
<1> QED BY <1>1, <1>2, <1>4, <1>5

LEMMA CancelledIs ==
    ASSUME NEW c, AnAction(c)
    PROVE  /\ AnAction(Catalogue!Cancelled(c)) /\ Catalogue!Cancelled(c).at = c.at /\ Catalogue!Cancelled(c).op = c.op
           /\ ~Counts(Catalogue!Cancelled(c))
           /\ OfAPageLeft(c) <=> OfAPageLeft(Catalogue!Cancelled(c))
           /\ KeepsBusy(c) <=> KeepsBusy(Catalogue!Cancelled(c))
<1>1. PICK d : d = Catalogue!Cancelled(c)
  OBVIOUS
<1>2. CASE c.op = "list"
  <2>1. d = Catalogue!Left(c)
    BY <1>1, <1>2, PageLeftIs DEF Catalogue!Cancelled
  <2>2. AnAction(d) /\ d.mine = FALSE /\ d.at = c.at /\ d.op = c.op
    BY <2>1, PageLeftIs
  <2> QED BY <1>1, <1>2, <2>2 DEF Counts, OfAPageLeft, KeepsBusy, Acts
<1>3. CASE c.op # "list"
  <2>1. d = c
    BY <1>1, <1>3 DEF Catalogue!Cancelled
  <2> QED BY <1>1, <1>3, <2>1 DEF Counts
<1> QED BY <1>2, <1>3

LEMMA FreeIs ==
    /\ Catalogue!Free.op = "none" /\ ~Counts(Catalogue!Free) /\ ~OfAPageLeft(Catalogue!Free)
    /\ ~KeepsBusy(Catalogue!Free) /\ Catalogue!Free.op \notin Acts
<1>1. Catalogue!Free.op = "none"
  BY DEF Catalogue!Free
<1> QED BY <1>1 DEF Counts, OfAPageLeft, KeepsBusy, Acts

LEMMA HandIs ==
    ASSUME ActionsTyped
    PROVE  /\ Catalogue!Left(served) = Catalogue!Free \/ AnAction(Catalogue!Left(served))
           /\ ~Counts(Catalogue!Left(served)) /\ ~KeepsBusy(Catalogue!Left(served))
           /\ Catalogue!Cancelled(served) = Catalogue!Free \/ AnAction(Catalogue!Cancelled(served))
           /\ ~Counts(Catalogue!Cancelled(served))
           /\ KeepsBusy(Catalogue!Cancelled(served)) <=> KeepsBusy(served)
<1>1. CASE served = Catalogue!Free
  <2>1. Catalogue!Left(served) = served /\ Catalogue!Cancelled(served) = served
    BY <1>1 DEF Catalogue!Left, Catalogue!Cancelled
  <2> QED BY <1>1, <2>1, FreeIs
<1>2. CASE AnAction(served)
  <2>1. ~Counts(Catalogue!Left(served)) /\ ~KeepsBusy(Catalogue!Left(served))
    BY <1>2, PageLeftIs DEF Counts, KeepsBusy
  <2> QED BY <1>2, <2>1, PageLeftIs, CancelledIs
<1> QED BY <1>1, <1>2 DEF ActionsTyped

(* The queue, mapped call by call.                                         *)
LEMMA MappedWaits ==
    ASSUME NEW q, Waits(q), NEW r, DOMAIN r = DOMAIN q, r = [i \in DOMAIN q |-> r[i]],
           \A i \in DOMAIN q : AnAction(r[i]) /\ r[i].at = "start"
    PROVE  Waits(r)
<1>1. PICK S : q \in Seq(S)
  BY DEF Waits
<1>2. Len(q) \in Nat /\ DOMAIN q = 1..Len(q)
  BY <1>1
<1>3. PICK T : T = {r[i] : i \in DOMAIN q}
  OBVIOUS
<1>4. r \in [1..Len(q) -> T]
  BY <1>2, <1>3
<1>5. r \in Seq(T)
  BY <1>2, <1>4
<1> QED BY <1>5 DEF Waits

LEMMA LeftAllIs ==
    ASSUME NEW q, Waits(q)
    PROVE  /\ Waits(Catalogue!LeftAll(q)) /\ DOMAIN Catalogue!LeftAll(q) = DOMAIN q
           /\ \A i \in DOMAIN q : ~Counts(Catalogue!LeftAll(q)[i]) /\ ~KeepsBusy(Catalogue!LeftAll(q)[i])
<1>1. PICK r : r = Catalogue!LeftAll(q)
  OBVIOUS
<1>2. DOMAIN r = DOMAIN q /\ \A i \in DOMAIN q : r[i] = Catalogue!Left(q[i])
  BY <1>1 DEF Catalogue!LeftAll
<1>3. ASSUME NEW i \in DOMAIN q PROVE AnAction(r[i]) /\ r[i].at = "start" /\ r[i].mine = FALSE
  <2>1. AnAction(q[i]) /\ q[i].at = "start" /\ r[i] = Catalogue!Left(q[i])
    BY <1>2 DEF Waits
  <2> QED BY <2>1, PageLeftIs
<1>4. r = [i \in DOMAIN q |-> r[i]]
  BY <1>1 DEF Catalogue!LeftAll
<1>5. Waits(r)
  BY <1>2, <1>3, <1>4, MappedWaits
<1>6. \A i \in DOMAIN q : ~Counts(r[i]) /\ ~KeepsBusy(r[i])
  BY <1>3 DEF Counts, KeepsBusy
<1> QED BY <1>1, <1>2, <1>5, <1>6

LEMMA AddedAction ==
    ASSUME NEW q, Waits(q), NEW c, AnAction(c), c.at = "start"
    PROVE  /\ Waits(Append(q, c)) /\ Len(q) \in Nat /\ DOMAIN q = 1..Len(q)
           /\ DOMAIN Append(q, c) = 1..(Len(q) + 1) /\ Append(q, c)[Len(q) + 1] = c
           /\ \A i \in DOMAIN q : Append(q, c)[i] = q[i]
<1>1. PICK S : q \in Seq(S)
  BY DEF Waits
<1>2. PICK r : r = Append(q, c)
  OBVIOUS
<1>3. /\ r \in Seq(S \cup {c}) /\ Len(q) \in Nat /\ DOMAIN q = 1..Len(q) /\ DOMAIN r = 1..(Len(q) + 1)
      /\ r[Len(q) + 1] = c /\ \A i \in DOMAIN q : r[i] = q[i]
  BY <1>1, <1>2
<1>4. \A i \in DOMAIN r : AnAction(r[i]) /\ r[i].at = "start"
  BY <1>3 DEF Waits
<1>5. Waits(r)
  BY <1>3, <1>4 DEF Waits
<1> QED BY <1>2, <1>3, <1>5

LEMMA PageCallIs ==
    ASSUME NEW op \in Acts \cup {"list"}, NEW r
    PROVE  /\ AnAction(Catalogue!Call(op, r)) /\ Catalogue!Call(op, r).at = "start"
           /\ Catalogue!Call(op, r).op = op /\ Catalogue!Call(op, r).mine = TRUE
<1>1. PICK c : c = Catalogue!Call(op, r)
  OBVIOUS
<1>2. /\ DOMAIN c = {"op", "row", "mine", "at", "tries", "rows"}
      /\ c.op = op /\ c.mine = TRUE /\ c.at = "start"
  BY <1>1 DEF Catalogue!Call
<1>3. AnAction(c)
  BY <1>2 DEF AnAction
<1> QED BY <1>1, <1>2, <1>3

-----------------------------------------------------------------------------
(* The effect runs: whatever waits, the new load is the one that counts.   *)
LEMMA FetchIs ==
    ASSUME NEW q, Waits(q), Catalogue!FetchAll(q)
    PROVE  /\ Waits(pending') /\ isLoading' = TRUE
           /\ \A i, j \in DOMAIN pending' : Counts(pending'[i]) /\ Counts(pending'[j]) => i = j
           /\ \A i \in DOMAIN pending' : OfAPageLeft(pending'[i]) => \E j \in DOMAIN pending' : j > i /\ Counts(pending'[j])
           /\ CountsIn(pending')
           /\ (\E i \in DOMAIN q : KeepsBusy(q[i])) => \E i \in DOMAIN pending' : KeepsBusy(pending'[i])
<1>1. PICK r : r = [i \in DOMAIN q |-> Catalogue!Cancelled(q[i])]
  OBVIOUS
<1>2. PICK c : c = Catalogue!Call("list", Nothing)
  OBVIOUS
<1>3. pending' = Append(r, c) /\ isLoading' = TRUE
  BY <1>1, <1>2 DEF Catalogue!FetchAll, Catalogue!ListAll
<1>4. AnAction(c) /\ c.at = "start" /\ c.op = "list" /\ c.mine = TRUE
  BY <1>2, PageCallIs
<1>5. DOMAIN r = DOMAIN q /\ \A i \in DOMAIN q : r[i] = Catalogue!Cancelled(q[i])
  BY <1>1
<1>6. ASSUME NEW i \in DOMAIN q
      PROVE  AnAction(r[i]) /\ r[i].at = "start" /\ ~Counts(r[i]) /\ (KeepsBusy(q[i]) <=> KeepsBusy(r[i]))
  <2>1. AnAction(q[i]) /\ q[i].at = "start" /\ r[i] = Catalogue!Cancelled(q[i])
    BY <1>5 DEF Waits
  <2> QED BY <2>1, CancelledIs
<1>7. r = [i \in DOMAIN q |-> r[i]]
  BY <1>1
<1>8. Waits(r)
  BY <1>5, <1>6, <1>7, MappedWaits
<1>9. /\ Waits(pending') /\ Len(r) \in Nat /\ DOMAIN r = 1..Len(r) /\ DOMAIN pending' = 1..(Len(r) + 1)
      /\ pending'[Len(r) + 1] = c /\ \A i \in DOMAIN r : pending'[i] = r[i]
  BY <1>3, <1>4, <1>8, AddedAction
<1>10. Counts(c) /\ ~OfAPageLeft(c)
  BY <1>4 DEF Counts, OfAPageLeft
<1>11. /\ Len(r) + 1 \in DOMAIN pending' /\ Counts(pending'[Len(r) + 1])
       /\ \A i \in DOMAIN pending' : i = Len(r) + 1 \/ (i \in DOMAIN r /\ Len(r) + 1 > i)
  BY <1>9, <1>10
<1>12. CountsIn(pending')
  BY <1>11 DEF CountsIn
<1>13. \A i \in DOMAIN pending' : Counts(pending'[i]) => i = Len(r) + 1
  BY <1>5, <1>6, <1>9, <1>11
<1>14. \A i \in DOMAIN pending' : OfAPageLeft(pending'[i]) => \E j \in DOMAIN pending' : j > i /\ Counts(pending'[j])
  BY <1>9, <1>10, <1>11
<1>15. (\E i \in DOMAIN q : KeepsBusy(q[i])) => \E i \in DOMAIN pending' : KeepsBusy(pending'[i])
  BY <1>5, <1>6, <1>9, <1>11
<1> QED BY <1>3, <1>9, <1>12, <1>13, <1>14, <1>15

LEMMA LoadsAgainOK ==
    ASSUME NEW q, Waits(q), Catalogue!FetchAll(q), served' = Catalogue!Free \/ AnAction(served'), ~Counts(served'),
           behind' \in BOOLEAN,
           occupied' # Nothing => KeepsBusy(served') \/ \E i \in DOMAIN q : KeepsBusy(q[i])
    PROVE  CatalogueInv'
<1>1. /\ Waits(pending') /\ isLoading' = TRUE
      /\ \A i, j \in DOMAIN pending' : Counts(pending'[i]) /\ Counts(pending'[j]) => i = j
      /\ \A i \in DOMAIN pending' : OfAPageLeft(pending'[i]) => \E j \in DOMAIN pending' : j > i /\ Counts(pending'[j])
      /\ CountsIn(pending')
      /\ (\E i \in DOMAIN q : KeepsBusy(q[i])) => \E i \in DOMAIN pending' : KeepsBusy(pending'[i])
  BY FetchIs
<1>2. ActionsTyped' /\ OneLoadCounts'
  BY <1>1 DEF ActionsTyped, OneLoadCounts
<1>3. LoadingIsShown' /\ LoadComesLast' /\ ListIsCurrent'
  BY <1>1 DEF LoadingIsShown, LoadComesLast, ListIsCurrent
<1>4. ReadIsTable' /\ BusyWaits'
  BY <1>1 DEF ReadIsTable, BusyWaits
<1> QED BY <1>2, <1>3, <1>4 DEF CatalogueInv

(* A toast comes or goes: on the list the effect runs again.               *)
LEMMA ToastedOK ==
    ASSUME CatalogueInv, Catalogue!Toasted(pending), UNCHANGED <<where, catalogue, behind>>,
           served' = Catalogue!Free \/ AnAction(served'),
           Counts(served') => where # "list" /\ served' = served,
           occupied' # Nothing => KeepsBusy(served') \/ \E i \in DOMAIN pending : KeepsBusy(pending[i])
    PROVE  CatalogueInv'
<1>1. Waits(pending) /\ behind' \in BOOLEAN /\ isLoading \in BOOLEAN
  BY DEF CatalogueInv, ActionsTyped
<1>2. CASE where = "list"
  <2>1. Catalogue!FetchAll(pending) /\ ~Counts(served')
    BY <1>2 DEF Catalogue!Toasted
  <2> QED BY <1>1, <2>1, LoadsAgainOK
<1>3. CASE where # "list"
  <2>1. UNCHANGED <<pending, isLoading>>
    BY <1>3 DEF Catalogue!Toasted
  <2>2. ActionsTyped' /\ LoadingIsShown' /\ LoadComesLast' /\ ListIsCurrent' /\ BusyWaits'
    BY <1>1, <1>3, <2>1 DEF ActionsTyped, LoadingIsShown, LoadComesLast, ListIsCurrent, BusyWaits
  <2>3. OneLoadCounts' /\ ReadIsTable'
    BY <2>1 DEF CatalogueInv, OneLoadCounts, ReadIsTable, CountsIn
  <2> QED BY <2>2, <2>3 DEF CatalogueInv
<1> QED BY <1>2, <1>3

LEMMA ToastsOK ==
    ASSUME CatalogueInv, Catalogue!RemoveToast \/ Catalogue!ViewQueue \/ Catalogue!HandleUseTemplate
    PROVE  CatalogueInv'
<1>1. /\ Catalogue!Toasted(pending) /\ UNCHANGED <<where, catalogue, behind, occupied>>
      /\ served' = Catalogue!Cancelled(served) \/ (where # "list" /\ served' = served)
  BY DEF Catalogue!RemoveToast, Catalogue!ViewQueue, Catalogue!HandleUseTemplate, Catalogue!OnList, Catalogue!backEnd
<1>2. /\ served' = Catalogue!Free \/ AnAction(served')
      /\ Counts(served') => where # "list" /\ served' = served
      /\ KeepsBusy(served') <=> KeepsBusy(served)
  BY <1>1, HandIs DEF CatalogueInv, ActionsTyped
<1>3. occupied' # Nothing => KeepsBusy(served') \/ \E i \in DOMAIN pending : KeepsBusy(pending[i])
  BY <1>1, <1>2 DEF CatalogueInv, BusyWaits
<1> QED BY <1>1, <1>2, <1>3, ToastedOK

-----------------------------------------------------------------------------
(* The back end.                                                           *)
LEMMA ServedOK ==
    ASSUME CatalogueInv, UNCHANGED <<pending, where, everything, isLoading, occupied>>, behind' \in BOOLEAN,
           served' = Catalogue!Free \/ AnAction(served'), served'.op = served.op,
           served.op # "none" => served'.mine = served.mine, ReadIsTable', ListIsCurrent'
    PROVE  CatalogueInv'
<1>1. /\ Counts(served') <=> Counts(served)
      /\ OfAPageLeft(served') <=> OfAPageLeft(served)
      /\ KeepsBusy(served') <=> KeepsBusy(served)
  BY DEF Counts, OfAPageLeft, KeepsBusy, Acts
<1>2. ActionsTyped'
  BY DEF CatalogueInv, ActionsTyped
<1>3. OneLoadCounts' /\ LoadingIsShown' /\ LoadComesLast' /\ BusyWaits'
  BY <1>1 DEF CatalogueInv, OneLoadCounts, LoadingIsShown, LoadComesLast, BusyWaits, CountsIn
<1> QED BY <1>2, <1>3 DEF CatalogueInv

LEMMA ServingOK ==
    ASSUME CatalogueInv, Catalogue!FindAll \/ Catalogue!Serve \/ Catalogue!Refuse \/ Catalogue!apiClient
    PROVE  CatalogueInv'
<1>1. UNCHANGED <<pending, where, everything, isLoading, occupied>> /\ served # Catalogue!Free
  BY DEF Catalogue!FindAll, Catalogue!Serve, Catalogue!Refuse, Catalogue!apiClient, Catalogue!Serving, Catalogue!list
<1>2. AnAction(served) /\ behind \in BOOLEAN
  BY <1>1 DEF CatalogueInv, ActionsTyped
<1>3. CASE Catalogue!FindAll
  <2>1. /\ served' = [served EXCEPT !.at = "ok", !.rows = IF served.mine THEN catalogue ELSE <<>>]
        /\ behind' = (behind /\ ~served.mine) /\ UNCHANGED catalogue /\ served.op = "list"
    BY <1>3 DEF Catalogue!FindAll
  <2>2. /\ DOMAIN served' = DOMAIN served /\ served'.op = "list" /\ served'.mine = served.mine /\ served'.at = "ok"
        /\ served'.rows = IF served.mine THEN catalogue ELSE <<>>
    BY <1>2, <2>1 DEF AnAction
  <2>3. AnAction(served') /\ behind' \in BOOLEAN
    BY <1>2, <2>1, <2>2 DEF AnAction
  <2>4. ReadIsTable'
    BY <2>1, <2>2 DEF ReadIsTable, Counts
  <2>5. ListIsCurrent'
    <3>1. CASE served.mine
      <4>1. where = "list" => isLoading
        BY <2>1, <3>1 DEF CatalogueInv, LoadingIsShown, Counts
      <4> QED BY <1>1, <4>1 DEF ListIsCurrent
    <3>2. CASE ~served.mine
      <4>1. behind' => behind
        BY <1>2, <2>1
      <4>2. behind => behind'
        BY <1>2, <2>1, <3>2
      <4>3. served.op \notin Acts
        BY <2>1 DEF Acts
      <4> QED BY <1>1, <2>1, <4>1, <4>2, <4>3 DEF CatalogueInv, ListIsCurrent
    <3> QED BY <3>1, <3>2
  <2> QED BY <1>1, <2>1, <2>2, <2>3, <2>4, <2>5, ServedOK
<1>4. CASE Catalogue!Serve \/ Catalogue!Refuse
  <2>1. /\ served.op # "list" /\ UNCHANGED behind
        /\ served' = [served EXCEPT !.at = "ok"] \/ served' = [served EXCEPT !.at = "failed"]
    BY <1>4 DEF Catalogue!Serve, Catalogue!Refuse, Catalogue!backEnd
  <2>2. /\ DOMAIN served' = DOMAIN served /\ served'.op = served.op /\ served'.mine = served.mine
        /\ served'.at \in {"ok", "failed"}
    BY <1>2, <2>1 DEF AnAction
  <2>3. AnAction(served') /\ served'.op \in Acts
    BY <1>2, <2>1, <2>2 DEF AnAction
  <2>4. ReadIsTable' /\ ListIsCurrent'
    BY <2>1, <2>2, <2>3 DEF ReadIsTable, Counts, ListIsCurrent
  <2> QED BY <1>1, <1>2, <2>1, <2>2, <2>3, <2>4, ServedOK
<1>5. CASE Catalogue!apiClient
  <2>1. /\ UNCHANGED <<catalogue, behind>>
        /\ \/ served' = [served EXCEPT !.at = "failed"]
           \/ served.op = "list" /\ served' = [served EXCEPT !.at = "start", !.tries = @ + 1]
    BY <1>5 DEF Catalogue!apiClient, Catalogue!backEnd
  <2>2. /\ DOMAIN served' = DOMAIN served /\ served'.op = served.op /\ served'.mine = served.mine
        /\ served'.at = "failed" \/ (served.op = "list" /\ served'.at = "start")
    BY <1>2, <2>1 DEF AnAction
  <2>3. AnAction(served')
    BY <1>2, <2>2 DEF AnAction
  <2>4. ReadIsTable'
    BY <2>2 DEF ReadIsTable
  <2>5. served.op \in Acts => served'.op \in Acts /\ served'.at # "start"
    BY <2>2 DEF Acts
  <2>6. ListIsCurrent'
    BY <1>1, <2>1, <2>5 DEF CatalogueInv, ListIsCurrent
  <2> QED BY <1>1, <1>2, <2>1, <2>2, <2>3, <2>4, <2>6, ServedOK
<1> QED BY <1>3, <1>4, <1>5

LEMMA ChangedElsewhereOK == ASSUME CatalogueInv, Catalogue!Elsewhere PROVE CatalogueInv'
<1>1. UNCHANGED <<served, pending, where, everything, isLoading, occupied>> /\ behind' = TRUE
  BY DEF Catalogue!Elsewhere, Catalogue!list
<1>2. ReadIsTable' /\ ListIsCurrent'
  BY <1>1 DEF ReadIsTable, ListIsCurrent
<1> QED BY <1>1, <1>2, ServedOK DEF CatalogueInv, ActionsTyped

(* The next action is sent.                                                *)
LEMMA PageDispatchOK == ASSUME CatalogueInv, Catalogue!Dispatch PROVE CatalogueInv'
<1>1. /\ served = Catalogue!Free /\ pending # <<>> /\ served' = Head(pending) /\ pending' = Tail(pending)
      /\ UNCHANGED <<catalogue, behind, where, everything, isLoading, occupied>>
  BY DEF Catalogue!Dispatch, Catalogue!backEnd, Catalogue!list
<1>2. Waits(pending) /\ isLoading \in BOOLEAN /\ behind \in BOOLEAN
  BY DEF CatalogueInv, ActionsTyped
<1>3. PICK S : pending \in Seq(S)
  BY <1>2 DEF Waits
<1>4. /\ 1 \in DOMAIN pending /\ served' = pending[1] /\ pending' \in Seq(S)
      /\ \A i \in DOMAIN pending' : i \in Nat /\ i + 1 \in DOMAIN pending /\ i + 1 # 1 /\ pending'[i] = pending[i + 1]
      /\ \A i \in DOMAIN pending : i = 1 \/ (i \in Nat /\ i - 1 \in DOMAIN pending' /\ pending'[i - 1] = pending[i])
  BY <1>1, <1>3
<1>5. AnAction(served') /\ served'.at = "start"
  BY <1>2, <1>4 DEF Waits
<1>6. Waits(pending')
  <2>1. \A i \in DOMAIN pending' : AnAction(pending'[i]) /\ pending'[i].at = "start"
    BY <1>2, <1>4 DEF Waits
  <2> QED BY <1>4, <2>1 DEF Waits
<1>7. ActionsTyped'
  BY <1>1, <1>2, <1>5, <1>6 DEF ActionsTyped
<1>8. CountsIn(pending) <=> Counts(served') \/ CountsIn(pending')
  BY <1>4 DEF CountsIn
<1>9. OneLoadCounts'
  <2>1. \A i, j \in DOMAIN pending' : Counts(pending'[i]) /\ Counts(pending'[j]) => i = j
    <3>1. \A i, j \in DOMAIN pending' : i + 1 = j + 1 => i = j
      BY <1>4
    <3> QED BY <1>4, <3>1 DEF CatalogueInv, OneLoadCounts
  <2>2. Counts(served') => ~CountsIn(pending')
    BY <1>4 DEF CatalogueInv, OneLoadCounts, CountsIn
  <2> QED BY <2>1, <2>2 DEF OneLoadCounts
<1>10. LoadingIsShown'
  BY <1>1, <1>8 DEF CatalogueInv, LoadingIsShown
<1>11. LoadComesLast'
  <2> SUFFICES ASSUME where = "list"
               PROVE  /\ OfAPageLeft(served') => CountsIn(pending')
                      /\ \A i \in DOMAIN pending' : OfAPageLeft(pending'[i])
                            => \E j \in DOMAIN pending' : j > i /\ Counts(pending'[j])
    BY <1>1 DEF LoadComesLast
  <2>1. \A i \in DOMAIN pending : OfAPageLeft(pending[i]) => \E j \in DOMAIN pending : j > i /\ Counts(pending[j])
    BY DEF CatalogueInv, LoadComesLast
  <2>2. ASSUME OfAPageLeft(served') PROVE CountsIn(pending')
    <3>1. PICK j \in DOMAIN pending : j > 1 /\ Counts(pending[j])
      BY <1>4, <2>1, <2>2
    <3> QED BY <1>4, <3>1 DEF CountsIn
  <2>3. ASSUME NEW i \in DOMAIN pending', OfAPageLeft(pending'[i])
        PROVE  \E j \in DOMAIN pending' : j > i /\ Counts(pending'[j])
    <3>1. i \in Nat /\ i + 1 \in DOMAIN pending /\ OfAPageLeft(pending[i + 1])
      BY <1>4, <2>3
    <3>2. PICK j \in DOMAIN pending : j > i + 1 /\ Counts(pending[j])
      BY <2>1, <3>1
    <3>3. j \in Nat /\ j # 1
      BY <1>3, <3>1, <3>2
    <3>4. j - 1 \in DOMAIN pending' /\ j - 1 > i /\ Counts(pending'[j - 1])
      BY <1>4, <3>1, <3>2, <3>3
    <3> QED BY <3>4
  <2> QED BY <2>2, <2>3
<1>12. ReadIsTable'
  BY <1>5 DEF ReadIsTable
<1>13. ListIsCurrent'
  <2>1. served.op \notin Acts
    BY <1>1, FreeIs
  <2> QED BY <1>1, <2>1 DEF CatalogueInv, ListIsCurrent
<1>14. BusyWaits'
  <2>1. ~KeepsBusy(served)
    BY <1>1, FreeIs
  <2>2. (\E i \in DOMAIN pending : KeepsBusy(pending[i])) => KeepsBusy(served') \/ \E i \in DOMAIN pending' : KeepsBusy(pending'[i])
    BY <1>4
  <2> QED BY <1>1, <2>1, <2>2 DEF CatalogueInv, BusyWaits
<1> QED BY <1>7, <1>9, <1>10, <1>11, <1>12, <1>13, <1>14 DEF CatalogueInv

-----------------------------------------------------------------------------
(* The user: choices, and changes that are asked for.                      *)
LEMMA LookingOK ==
    ASSUME CatalogueInv, UNCHANGED <<catalogue, behind, served, pending, where, everything, isLoading, occupied>>
    PROVE  CatalogueInv'
<1>1. ActionsTyped' /\ OneLoadCounts' /\ LoadingIsShown'
  BY DEF CatalogueInv, ActionsTyped, OneLoadCounts, LoadingIsShown, CountsIn
<1>2. LoadComesLast' /\ ReadIsTable' /\ ListIsCurrent' /\ BusyWaits'
  BY DEF CatalogueInv, LoadComesLast, ReadIsTable, ListIsCurrent, BusyWaits, CountsIn
<1> QED BY <1>1, <1>2 DEF CatalogueInv

LEMMA ChangeAsked ==
    ASSUME CatalogueInv, Catalogue!HandleDuplicate \/ Catalogue!HandleDelete \/ Catalogue!HandleSave
    PROVE  CatalogueInv'
<1>1. UNCHANGED <<catalogue, behind, served, where, everything, isLoading>>
  BY DEF Catalogue!HandleDuplicate, Catalogue!HandleDelete, Catalogue!HandleSave, Catalogue!Act, Catalogue!backEnd, Catalogue!list
<1>2. \E op \in Acts : (\E r : pending' = Append(pending, Catalogue!Call(op, r)))
                      /\ (UNCHANGED occupied \/ op \in {"remove", "duplicate"})
  <2>1. CASE Catalogue!HandleDuplicate
    <3>1. \E r : pending' = Append(pending, Catalogue!Call("duplicate", r))
      BY <2>1 DEF Catalogue!HandleDuplicate, Catalogue!Act
    <3> QED BY <3>1 DEF Acts
  <2>2. CASE Catalogue!HandleDelete
    <3>1. \E r : pending' = Append(pending, Catalogue!Call("remove", r))
      BY <2>2 DEF Catalogue!HandleDelete, Catalogue!Act
    <3> QED BY <3>1 DEF Acts
  <2>3. CASE Catalogue!HandleSave
    <3>1. PICK op : op = IF form.row.id = Nothing THEN "create" ELSE "update"
      OBVIOUS
    <3>2. UNCHANGED occupied /\ \E r : pending' = Append(pending, Catalogue!Call(op, r))
      BY <2>3, <3>1 DEF Catalogue!HandleSave, Catalogue!list
    <3>3. op \in Acts
      BY <3>1 DEF Acts
    <3> QED BY <3>2, <3>3
  <2> QED BY <2>1, <2>2, <2>3
<1>3. PICK op \in Acts : (\E r : pending' = Append(pending, Catalogue!Call(op, r)))
                          /\ (UNCHANGED occupied \/ op \in {"remove", "duplicate"})
  BY <1>2
<1>asked. PICK r : pending' = Append(pending, Catalogue!Call(op, r))
  BY <1>3
<1> DEFINE c == Catalogue!Call(op, r)
<1>4. AnAction(c) /\ c.at = "start" /\ c.op = op /\ c.mine = TRUE
  BY PageCallIs
<1>queued. pending' = Append(pending, c)
  BY <1>asked
<1> HIDE DEF c
<1>5. Waits(pending)
  BY DEF CatalogueInv, ActionsTyped
<1>6. /\ Waits(pending') /\ Len(pending) \in Nat /\ DOMAIN pending = 1..Len(pending)
      /\ DOMAIN pending' = 1..(Len(pending) + 1) /\ pending'[Len(pending) + 1] = c
      /\ \A i \in DOMAIN pending : pending'[i] = pending[i]
  BY <1>queued, <1>4, <1>5, AddedAction
<1>7. Len(pending) + 1 \in DOMAIN pending' /\ \A i \in DOMAIN pending' : i \in DOMAIN pending \/ i = Len(pending) + 1
  BY <1>6
<1>8. ~Counts(c) /\ ~OfAPageLeft(c) /\ (op \in {"remove", "duplicate"} => KeepsBusy(c))
  BY <1>4 DEF Counts, OfAPageLeft, KeepsBusy, Acts
<1>9. \A i \in DOMAIN pending' : Counts(pending'[i]) \/ OfAPageLeft(pending'[i]) => i \in DOMAIN pending
  BY <1>6, <1>7, <1>8
<1>10. CountsIn(pending') <=> CountsIn(pending)
  BY <1>6, <1>9 DEF CountsIn
<1>11. ActionsTyped' /\ ReadIsTable' /\ ListIsCurrent'
  BY <1>1, <1>6 DEF CatalogueInv, ActionsTyped, ReadIsTable, ListIsCurrent
<1>12. OneLoadCounts' /\ LoadingIsShown'
  BY <1>1, <1>6, <1>9, <1>10 DEF CatalogueInv, OneLoadCounts, LoadingIsShown
<1>13. LoadComesLast'
  BY <1>1, <1>6, <1>9, <1>10 DEF CatalogueInv, LoadComesLast
<1>14. BusyWaits'
  <2>1. CASE UNCHANGED occupied
    BY <1>1, <1>6, <2>1 DEF CatalogueInv, BusyWaits
  <2>2. CASE op \in {"remove", "duplicate"}
    BY <1>6, <1>7, <1>8, <2>2 DEF BusyWaits
  <2> QED
    <3>1. UNCHANGED occupied \/ op \in {"remove", "duplicate"}
      BY <1>3
    <3> QED BY <2>1, <2>2, <3>1
<1> QED BY <1>11, <1>12, <1>13, <1>14 DEF CatalogueInv

-----------------------------------------------------------------------------
(* What follows an answer.                                                 *)
LEMMA PageAnsweredIs ==
    ASSUME CatalogueInv, NEW ops, Catalogue!Answered(ops)
    PROVE  /\ served # Catalogue!Free /\ AnAction(served) /\ served.op \in ops /\ served.at \in {"ok", "failed"}
           /\ served' = Catalogue!Free /\ ~Counts(served') /\ ~KeepsBusy(served') /\ ~OfAPageLeft(served')
BY FreeIs DEF CatalogueInv, ActionsTyped, Catalogue!Answered

LEMMA ListAnsweredOK == ASSUME CatalogueInv, Catalogue!AfterList PROVE CatalogueInv'
<1>1. Catalogue!Answered({"list"}) /\ UNCHANGED <<catalogue, behind, where, occupied>>
  BY DEF Catalogue!AfterList, Catalogue!backEnd
<1>2. /\ AnAction(served) /\ served.op = "list" /\ served.at \in {"ok", "failed"}
      /\ served' = Catalogue!Free /\ ~Counts(served') /\ ~KeepsBusy(served') /\ ~OfAPageLeft(served')
  BY <1>1, PageAnsweredIs
<1>3. ~KeepsBusy(served) /\ ~OfAPageLeft(served) /\ served.op \notin Acts /\ (served.mine <=> Counts(served))
  BY <1>2 DEF KeepsBusy, OfAPageLeft, Acts, Counts
<1>4. occupied' # Nothing => KeepsBusy(served') \/ \E i \in DOMAIN pending : KeepsBusy(pending[i])
  BY <1>1, <1>3 DEF CatalogueInv, BusyWaits
<1>5. CASE served.mine /\ served.at = "failed"
  <2>1. Catalogue!Toasted(pending)
    BY <1>5 DEF Catalogue!AfterList
  <2> QED BY <1>1, <1>2, <1>4, <2>1, ToastedOK
<1>6. CASE ~(served.mine /\ served.at = "failed")
  <2>1. /\ everything' = IF served.mine THEN served.rows ELSE everything
        /\ isLoading' = (isLoading /\ ~served.mine) /\ UNCHANGED pending
    BY <1>6 DEF Catalogue!AfterList
  <2>2. ActionsTyped'
    BY <1>1, <1>2, <2>1 DEF CatalogueInv, ActionsTyped
  <2>3. OneLoadCounts' /\ ReadIsTable' /\ LoadComesLast' /\ BusyWaits'
    BY <1>1, <1>2, <1>4, <2>1 DEF CatalogueInv, OneLoadCounts, ReadIsTable, LoadComesLast, BusyWaits, CountsIn
  <2>4. CASE served.mine
    <3>1. ~CountsIn(pending) /\ served.at = "ok"
      BY <1>2, <1>3, <1>6, <2>4 DEF CatalogueInv, OneLoadCounts
    <3>2. LoadingIsShown'
      BY <1>2, <2>1, <3>1 DEF LoadingIsShown, CountsIn
    <3>3. behind \/ everything' = catalogue
      BY <1>3, <2>1, <2>4, <3>1 DEF CatalogueInv, ReadIsTable
    <3>4. ListIsCurrent'
      BY <1>1, <3>3 DEF ListIsCurrent
    <3> QED BY <2>2, <2>3, <3>2, <3>4 DEF CatalogueInv
  <2>5. CASE ~served.mine
    <3>1. everything' = everything /\ (isLoading <=> isLoading')
      BY <2>1, <2>5
    <3>2. LoadingIsShown' /\ ListIsCurrent'
      BY <1>1, <1>2, <1>3, <2>1, <3>1 DEF CatalogueInv, LoadingIsShown, ListIsCurrent, CountsIn
    <3> QED BY <2>2, <2>3, <3>2 DEF CatalogueInv
  <2> QED BY <2>4, <2>5
<1> QED BY <1>5, <1>6

LEMMA ActAnsweredOK == ASSUME CatalogueInv, Catalogue!AfterAct PROVE CatalogueInv'
<1>1. /\ Catalogue!Answered({"remove", "duplicate"}) /\ UNCHANGED <<catalogue, behind, where>>
      /\ occupied' = (IF served.mine THEN Nothing ELSE occupied) /\ Catalogue!Toasted(pending)
  BY DEF Catalogue!AfterAct, Catalogue!backEnd
<1>2. served' = Catalogue!Free /\ ~Counts(served')
  BY <1>1, PageAnsweredIs
<1>3. ~served.mine => ~KeepsBusy(served)
  BY DEF KeepsBusy
<1>4. occupied' # Nothing => KeepsBusy(served') \/ \E i \in DOMAIN pending : KeepsBusy(pending[i])
  BY <1>1, <1>3 DEF CatalogueInv, BusyWaits
<1> QED BY <1>1, <1>2, <1>4, ToastedOK

(* A page is left, another is opened.                                      *)
LEMMA MountOK ==
    ASSUME CatalogueInv, NEW rows, Catalogue!Mount(rows), UNCHANGED behind,
           served' = Catalogue!Free \/ AnAction(served'), ~Counts(served')
    PROVE  CatalogueInv'
<1>1. Waits(pending) /\ behind' \in BOOLEAN
  BY DEF CatalogueInv, ActionsTyped
<1>2. occupied' = Nothing /\ Catalogue!FetchAll(Catalogue!LeftAll(pending))
  BY DEF Catalogue!Mount
<1>3. PICK q : q = Catalogue!LeftAll(pending)
  OBVIOUS
<1>4. Waits(q) /\ Catalogue!FetchAll(q)
  BY <1>1, <1>2, <1>3, LeftAllIs
<1> QED BY <1>1, <1>2, <1>4, LoadsAgainOK

LEMMA NotOnListOK ==
    ASSUME CatalogueInv, where' # "list", Waits(pending'), \A i \in DOMAIN pending' : ~Counts(pending'[i]),
           isLoading' = FALSE, behind' \in BOOLEAN, occupied' = Nothing,
           served' = Catalogue!Free \/ AnAction(served'), ~Counts(served')
    PROVE  CatalogueInv'
<1>1. ActionsTyped' /\ OneLoadCounts'
  BY DEF ActionsTyped, OneLoadCounts
<1>2. LoadingIsShown' /\ LoadComesLast' /\ ReadIsTable' /\ ListIsCurrent' /\ BusyWaits'
  BY DEF LoadingIsShown, LoadComesLast, ReadIsTable, ListIsCurrent, BusyWaits
<1> QED BY <1>1, <1>2 DEF CatalogueInv

LEMMA PageLeaveOK == ASSUME CatalogueInv, NEW to, to # "list", NEW f, Catalogue!Leave(to, f) PROVE CatalogueInv'
<1>1. /\ where' = to /\ pending' = Catalogue!LeftAll(pending) /\ isLoading' = FALSE /\ occupied' = Nothing
      /\ served' = Catalogue!Left(served) /\ UNCHANGED behind
  BY DEF Catalogue!Leave, Catalogue!backEnd
<1>2. ActionsTyped /\ Waits(pending) /\ behind' \in BOOLEAN
  BY <1>1 DEF CatalogueInv, ActionsTyped
<1>3. Waits(pending') /\ \A i \in DOMAIN pending' : ~Counts(pending'[i])
  BY <1>1, <1>2, LeftAllIs
<1>4. (served' = Catalogue!Free \/ AnAction(served')) /\ ~Counts(served')
  BY <1>1, <1>2, HandIs
<1> QED BY <1>1, <1>2, <1>3, <1>4, NotOnListOK

LEMMA PagesOfTemplatesOK ==
    ASSUME CatalogueInv, Catalogue!Open \/ Catalogue!Away \/ Catalogue!NewTemplate \/ Catalogue!EditTemplate \/ Catalogue!AfterSave
    PROVE  CatalogueInv'
<1>1. CASE Catalogue!Open
  <2>1. PICK rows : Catalogue!Mount(rows)
    BY <1>1 DEF Catalogue!Open
  <2>2. served' = Catalogue!Left(served) /\ UNCHANGED behind
    BY <1>1 DEF Catalogue!Open, Catalogue!backEnd
  <2>3. (served' = Catalogue!Free \/ AnAction(served')) /\ ~Counts(served')
    BY <2>2, HandIs DEF CatalogueInv
  <2> QED BY <2>1, <2>2, <2>3, MountOK
<1>2. CASE Catalogue!Away \/ Catalogue!NewTemplate \/ Catalogue!EditTemplate
  <2>1. PICK to \in {"away", "form"} : \E f : Catalogue!Leave(to, f)
    BY <1>2 DEF Catalogue!Away, Catalogue!NewTemplate, Catalogue!EditTemplate
  <2> QED BY <2>1, PageLeaveOK
<1>3. CASE Catalogue!AfterSave
  <2>1. Catalogue!Answered({"create", "update"}) /\ UNCHANGED <<catalogue, behind>>
    BY <1>3 DEF Catalogue!AfterSave, Catalogue!backEnd
  <2>2. served' = Catalogue!Free /\ ~Counts(served') /\ ~KeepsBusy(served)
    BY <2>1, PageAnsweredIs DEF KeepsBusy
  <2>3. CASE Catalogue!Mount(catalogue)
    BY <2>1, <2>2, <2>3, MountOK
  <2>4. CASE Catalogue!Toasted(pending) /\ UNCHANGED <<where, occupied>>
    <3>1. occupied' # Nothing => KeepsBusy(served') \/ \E i \in DOMAIN pending : KeepsBusy(pending[i])
      BY <2>2, <2>4 DEF CatalogueInv, BusyWaits
    <3> QED BY <2>1, <2>2, <2>4, <3>1, ToastedOK
  <2> QED BY <1>3, <2>3, <2>4 DEF Catalogue!AfterSave
<1> QED BY <1>1, <1>2, <1>3

(* An action is lost on its way.                                           *)
LEMMA LostOK == ASSUME CatalogueInv, Catalogue!Lose PROVE CatalogueInv'
<1>1. /\ served # Catalogue!Free /\ served' = Catalogue!Free /\ UNCHANGED catalogue
      /\ behind' = (behind \/ (served.op # "list" /\ served.at = "ok"))
  BY DEF Catalogue!Lose
<1>2. AnAction(served) /\ behind' \in BOOLEAN /\ (behind => behind') /\ ~Counts(served') /\ ~KeepsBusy(served')
      /\ ~OfAPageLeft(served')
  BY <1>1, FreeIs DEF CatalogueInv, ActionsTyped
<1>3. CASE served.op = "list" \/ ~served.mine
  <2>1. UNCHANGED <<pending, where, everything, isLoading, occupied>>
    BY <1>3 DEF Catalogue!Lose, Catalogue!list
  <2>2. ~KeepsBusy(served) /\ (served.op \in Acts => OfAPageLeft(served))
    BY <1>3 DEF KeepsBusy, OfAPageLeft, Acts
  <2>3. ActionsTyped' /\ OneLoadCounts' /\ LoadingIsShown'
    BY <1>1, <1>2, <2>1 DEF CatalogueInv, ActionsTyped, OneLoadCounts, LoadingIsShown, CountsIn
  <2>4. LoadComesLast' /\ ReadIsTable' /\ BusyWaits'
    BY <1>2, <2>1, <2>2 DEF CatalogueInv, LoadComesLast, ReadIsTable, BusyWaits, CountsIn
  <2>5. ListIsCurrent'
    <3>1. where = "list" /\ served.op \in Acts => isLoading
      BY <2>2 DEF CatalogueInv, LoadComesLast, LoadingIsShown
    <3> QED BY <1>1, <1>2, <2>1, <3>1 DEF CatalogueInv, ListIsCurrent
  <2> QED BY <2>3, <2>4, <2>5 DEF CatalogueInv
<1>4. CASE ~(served.op = "list" \/ ~served.mine)
  <2>1. where' = "away" /\ occupied' = Nothing /\ isLoading' = FALSE /\ pending' = <<>>
    BY <1>4 DEF Catalogue!Lose
  <2>2. Waits(pending') /\ \A i \in DOMAIN pending' : ~Counts(pending'[i])
    <3>1. pending' \in Seq(Nat) /\ Len(pending') = 0
      BY <2>1
    <3> QED BY <3>1 DEF Waits
  <2> QED BY <1>1, <1>2, <2>1, <2>2, NotOnListOK
<1> QED BY <1>3, <1>4

-----------------------------------------------------------------------------
LEMMA CatalogueInit == Catalogue!Init => CatalogueInv
<1> SUFFICES ASSUME Catalogue!Init PROVE CatalogueInv
  OBVIOUS
<1>1. PICK c : c = Catalogue!Call("list", Nothing)
  OBVIOUS
<1>2. /\ behind = FALSE /\ where = "list" /\ everything = catalogue /\ occupied = Nothing
      /\ served = Catalogue!Free /\ pending = <<c>> /\ isLoading = TRUE
  BY <1>1 DEF Catalogue!Init, Catalogue!ListAll
<1>3. AnAction(c) /\ c.at = "start" /\ c.op = "list" /\ c.mine = TRUE
  BY <1>1, PageCallIs
<1>4. pending \in Seq({c}) /\ DOMAIN pending = {1} /\ pending[1] = c
  <2>1. pending \in Seq({c}) /\ Len(pending) = 1 /\ pending[1] = c
    BY <1>2
  <2> QED BY <2>1
<1>5. Counts(c) /\ ~OfAPageLeft(c)
  BY <1>3 DEF Counts, OfAPageLeft
<1>6. ActionsTyped
  BY <1>2, <1>3, <1>4 DEF ActionsTyped, Waits
<1>7. OneLoadCounts /\ LoadingIsShown /\ LoadComesLast
  BY <1>2, <1>4, <1>5, FreeIs DEF OneLoadCounts, LoadingIsShown, LoadComesLast
<1>8. ReadIsTable /\ ListIsCurrent /\ BusyWaits
  BY <1>2, FreeIs DEF ReadIsTable, ListIsCurrent, BusyWaits
<1> QED BY <1>6, <1>7, <1>8 DEF CatalogueInv

LEMMA CatalogueNext == CatalogueInv /\ [Catalogue!Next]_Catalogue!vars => CatalogueInv'
<1> SUFFICES ASSUME CatalogueInv, [Catalogue!Next]_Catalogue!vars PROVE CatalogueInv'
  OBVIOUS
<1>1. CASE UNCHANGED Catalogue!vars
  BY <1>1, LookingOK DEF Catalogue!vars
<1>2. CASE Catalogue!Choose \/ Catalogue!Preview
  BY <1>2, LookingOK DEF Catalogue!Choose, Catalogue!Preview, Catalogue!backEnd
<1>3. CASE Catalogue!Next
  BY <1>2, <1>3, ServingOK, ChangedElsewhereOK, ToastsOK, PageDispatchOK, ChangeAsked, ListAnsweredOK, ActAnsweredOK,
     PagesOfTemplatesOK, LostOK DEF Catalogue!Next
<1> QED BY <1>1, <1>3

(* When nothing is in progress the list of templates is the table, unless  *)
(* it changed behind the tab's back, and no row is busy: the effect and    *)
(* the handlers of TemplateList, TemplateForm and ToastProvider.           *)
THEOREM TemplatesListIsTheTable == Catalogue!Spec => []ListIsTheTable
<1>1. CatalogueInv => ListIsTheTable
  <2> SUFFICES ASSUME CatalogueInv, where = "list", served = Catalogue!Free, pending = <<>>, ~isLoading
               PROVE  (behind \/ everything = catalogue) /\ occupied = Nothing
    BY DEF ListIsTheTable, Catalogue!ListIsTheTable, Catalogue!Settled
  <2>1. \A i \in DOMAIN pending : FALSE
    <3>1. pending \in Seq(Nat) /\ Len(pending) = 0
      <4>1. pending = <<>>
        OBVIOUS
      <4> QED BY <4>1
    <3> QED BY <3>1
  <2>2. ~KeepsBusy(served) /\ served.op \notin Acts
    BY FreeIs
  <2> QED BY <2>1, <2>2 DEF CatalogueInv, ListIsCurrent, BusyWaits
<1> QED BY CatalogueInit, CatalogueNext, <1>1, PTL DEF Catalogue!Spec
-----------------------------------------------------------------------------
(* The types of the page: the table, ...                                   *)
IsRow(r) == DOMAIN r = {"id", "type", "name"}
ShelfTyped ==
    /\ \E S : catalogue \in Seq(S)
    /\ \A i \in DOMAIN catalogue : IsRow(catalogue[i]) /\ catalogue[i].id \in 1..lastId
    /\ \A i, j \in DOMAIN catalogue : catalogue[i].id = catalogue[j].id => i = j
    /\ lastId \in 0..LastId
(* ... the calls, which save whole templates, ...                          *)
AreRows(rows) == \E S : rows \in Seq(S)
Whole(c) == c.tries \in 0..2 /\ AreRows(c.rows) /\ (c.op \in {"create", "update"} => IsRow(c.row))
AllWhole(q) == \A i \in DOMAIN q : Whole(q[i])
CallsWhole == AllWhole(pending) /\ (served # Catalogue!Free => Whole(served))
(* ... and what the tab shows.                                             *)
TabTyped ==
    /\ where \in {"list", "form", "away"}
    /\ DOMAIN pick = {"tab", "filter", "page", "size"} /\ pick.page \in Nat \ {0} /\ pick.size \in {1, 2}
    /\ AreRows(everything)
    /\ DOMAIN form = {"row", "saving"} /\ IsRow(form.row)
    /\ DOMAIN toasts = {"up", "going"} /\ toasts.up \in Nat /\ toasts.going \in Nat
    /\ DOMAIN wishes = Catalogue!Happenings
CatalogueTyped == ShelfTyped /\ CallsWhole /\ TabTyped

LEMMA NoRowsAreList == AreRows(<<>>)
<1>1. <<>> \in Seq(Nat)
  OBVIOUS
<1> QED BY <1>1 DEF AreRows

-----------------------------------------------------------------------------
(* Rows of the table are taken out and put in front.                       *)
LEMMA Joined ==
    ASSUME NEW S, NEW a \in Seq(S), NEW b \in Seq(S)
    PROVE  /\ a \o b \in Seq(S) /\ Len(a \o b) = Len(a) + Len(b)
           /\ \A j \in 1..Len(a) : (a \o b)[j] = a[j]
           /\ \A k \in 1..Len(b) : (a \o b)[Len(a) + k] = b[k]
<1>1. PICK r : r = a \o b
  OBVIOUS
<1>2. Len(a) \in Nat /\ Len(b) \in Nat
  OBVIOUS
<1>3. r \in Seq(S) /\ Len(r) = Len(a) + Len(b)
  BY <1>1
<1>4. \A j \in 1..Len(a) : r[j] = a[j]
  BY <1>1
<1>5. \A k \in 1..Len(b) : r[Len(a) + k] = b[k]
  BY <1>1, <1>2
<1> QED BY <1>1, <1>3, <1>4, <1>5

LEMMA OneTakenOut ==
    ASSUME NEW S, NEW s \in Seq(S), NEW i \in DOMAIN s
    PROVE  LET r == Catalogue!RemoveAt(s, i) IN
           /\ r \in Seq(S) /\ DOMAIN r = 1..(Len(s) - 1)
           /\ \A j \in DOMAIN r : r[j] = s[IF j < i THEN j ELSE j + 1] /\ (IF j < i THEN j ELSE j + 1) \in DOMAIN s
<1>1. PICK a, b : a = SubSeq(s, 1, i - 1) /\ b = SubSeq(s, i + 1, Len(s))
  OBVIOUS
<1>2. Len(s) \in Nat /\ i \in 1..Len(s) /\ DOMAIN s = 1..Len(s)
  OBVIOUS
<1>3. a \in Seq(S) /\ Len(a) = i - 1 /\ \A j \in 1..(i - 1) : a[j] = s[j]
  BY <1>1, <1>2
<1>4. b \in Seq(S) /\ Len(b) = Len(s) - i /\ \A j \in 1..(Len(s) - i) : b[j] = s[i + j]
  BY <1>1, <1>2
<1>5. PICK r : r = a \o b
  OBVIOUS
<1>6. r \in Seq(S) /\ Len(r) = Len(s) - 1 /\ DOMAIN r = 1..(Len(s) - 1)
  <2>1. r \in Seq(S) /\ Len(r) = Len(a) + Len(b)
    BY <1>3, <1>4, <1>5, Joined
  <2>2. Len(r) = Len(s) - 1
    BY <1>2, <1>3, <1>4, <2>1
  <2>3. DOMAIN r = 1..Len(r)
    BY <2>1
  <2> QED BY <2>1, <2>2, <2>3
<1>7. ASSUME NEW j \in DOMAIN r
      PROVE  r[j] = s[IF j < i THEN j ELSE j + 1] /\ (IF j < i THEN j ELSE j + 1) \in DOMAIN s
  <2>1. j \in Nat /\ i \in Nat /\ 1 <= j /\ j <= Len(s) - 1 /\ i <= Len(s)
    BY <1>2, <1>6
  <2>2. CASE j < i
    <3>1. j \in 1..(i - 1) /\ j \in 1..Len(a) /\ j \in DOMAIN s
      BY <1>2, <1>3, <2>1, <2>2
    <3>2. r[j] = a[j]
      BY <1>3, <1>4, <1>5, <3>1
    <3> QED BY <1>3, <2>2, <3>1, <3>2
  <2>3. CASE ~(j < i)
    <3>1. PICK k : k = j - (i - 1)
      OBVIOUS
    <3>2. k \in 1..(Len(s) - i) /\ k \in 1..Len(b) /\ j = Len(a) + k /\ i + k = j + 1 /\ j + 1 \in DOMAIN s
      BY <1>2, <1>3, <1>4, <2>1, <2>3, <3>1
    <3>3. r[Len(a) + k] = b[k]
      <4>1. a \in Seq(S) /\ b \in Seq(S)
        BY <1>3, <1>4
      <4>2. \A m \in 1..Len(b) : (a \o b)[Len(a) + m] = b[m]
        BY <4>1, Joined
      <4> QED BY <1>5, <3>2, <4>2
    <3> QED BY <1>4, <2>3, <3>2, <3>3
  <2> QED BY <2>2, <2>3
<1>8. Catalogue!RemoveAt(s, i) = r
  BY <1>1, <1>5 DEF Catalogue!RemoveAt
<1> QED BY <1>6, <1>7, <1>8

LEMMA OnePutInFront ==
    ASSUME NEW S, NEW s \in Seq(S), NEW x
    PROVE  LET r == <<x>> \o s IN
           /\ r \in Seq(S \cup {x}) /\ DOMAIN r = 1..(Len(s) + 1) /\ r[1] = x
           /\ \A j \in DOMAIN r : j = 1 \/ (j - 1 \in DOMAIN s /\ r[j] = s[j - 1])
<1>1. PICK r : r = <<x>> \o s
  OBVIOUS
<1>2. r \in Seq(S \cup {x}) /\ Len(r) = Len(s) + 1 /\ Len(s) \in Nat /\ DOMAIN s = 1..Len(s)
  BY <1>1
<1>3. DOMAIN r = 1..(Len(s) + 1) /\ r[1] = x
  BY <1>1, <1>2
<1>4. \A j \in DOMAIN r : j = 1 \/ (j - 1 \in DOMAIN s /\ r[j] = s[j - 1])
  BY <1>1, <1>2, <1>3
<1> QED BY <1>1, <1>2, <1>3, <1>4

(* The rows s are rows of the table, each once and none with this id.      *)
Rest(at, s, id) ==
    /\ \A j \in DOMAIN s : at[j] \in DOMAIN catalogue /\ s[j] = catalogue[at[j]] /\ s[j].id # id
    /\ \A j, k \in DOMAIN s : at[j] = at[k] => j = k

(* A template is stored: its id is new, or was that of the row replaced.   *)
LEMMA StoredTyped ==
    ASSUME ShelfTyped, NEW S, NEW s \in Seq(S), NEW r, IsRow(r), catalogue' = <<r>> \o s,
           lastId' \in {lastId, lastId + 1}, lastId' <= LastId, r.id \in 1..lastId',
           NEW at, Rest(at, s, r.id)
    PROVE  ShelfTyped'
<1>1. lastId \in Nat /\ LastId \in Nat
  BY ScreensAssumption DEF ShelfTyped, Catalogue!ShelvesOK
<1>2. lastId' \in 0..LastId /\ \A x \in 1..lastId : x \in 1..lastId'
  BY <1>1
<1>3. \A j \in DOMAIN s : IsRow(s[j]) /\ s[j].id \in 1..lastId' /\ s[j].id # r.id
  BY <1>2 DEF ShelfTyped, Rest
<1>4. \A j, k \in DOMAIN s : s[j].id = s[k].id => j = k
  BY DEF ShelfTyped, Rest
<1>5. /\ catalogue' \in Seq(S \cup {r}) /\ DOMAIN catalogue' = 1..(Len(s) + 1) /\ catalogue'[1] = r
      /\ \A j \in DOMAIN catalogue' : j = 1 \/ (j - 1 \in DOMAIN s /\ catalogue'[j] = s[j - 1])
  BY OnePutInFront
<1>6. \A j \in DOMAIN catalogue' : IsRow(catalogue'[j]) /\ catalogue'[j].id \in 1..lastId'
  BY <1>3, <1>5
<1>7. ASSUME NEW j \in DOMAIN catalogue', NEW k \in DOMAIN catalogue', catalogue'[j].id = catalogue'[k].id PROVE j = k
  <2>1. j \in Nat /\ k \in Nat
    BY <1>5
  <2>2. CASE j = 1 \/ k = 1
    BY <1>3, <1>5, <1>7, <2>2
  <2>3. CASE j # 1 /\ k # 1
    <3>1. j - 1 = k - 1
      BY <1>4, <1>5, <1>7, <2>3
    <3> QED BY <2>1, <3>1
  <2> QED BY <2>2, <2>3
<1> QED BY <1>2, <1>5, <1>6, <1>7 DEF ShelfTyped

LEMMA TakenOutTyped ==
    ASSUME ShelfTyped, NEW i \in DOMAIN catalogue, NEW S, catalogue \in Seq(S)
    PROVE  /\ Catalogue!RemoveAt(catalogue, i) \in Seq(S)
           /\ \E at : Rest(at, Catalogue!RemoveAt(catalogue, i), catalogue[i].id)
<1>1. PICK r : r = Catalogue!RemoveAt(catalogue, i)
  OBVIOUS
<1>2. /\ r \in Seq(S) /\ DOMAIN r = 1..(Len(catalogue) - 1) /\ Len(catalogue) \in Nat /\ DOMAIN catalogue = 1..Len(catalogue)
      /\ \A j \in DOMAIN r : /\ r[j] = catalogue[IF j < i THEN j ELSE j + 1]
                              /\ (IF j < i THEN j ELSE j + 1) \in DOMAIN catalogue
  BY <1>1, OneTakenOut
<1>3. PICK at : at = [j \in DOMAIN r |-> IF j < i THEN j ELSE j + 1]
  OBVIOUS
<1>4. \A j \in DOMAIN r : at[j] \in DOMAIN catalogue /\ r[j] = catalogue[at[j]] /\ at[j] # i
  BY <1>2, <1>3
<1>5. \A j, k \in DOMAIN r : at[j] = at[k] => j = k
  BY <1>2, <1>3
<1>6. \A j \in DOMAIN r : r[j].id # catalogue[i].id
  BY <1>4 DEF ShelfTyped
<1>7. Rest(at, r, catalogue[i].id)
  BY <1>4, <1>5, <1>6 DEF Rest
<1> QED BY <1>1, <1>2, <1>7

(* TemplateService: create, duplicate, update, remove.                     *)
LEMMA WriteTyped ==
    ASSUME ShelfTyped, NEW op, NEW t, Catalogue!Write(op, t), op \in {"create", "update"} => IsRow(t)
    PROVE  ShelfTyped'
<1>1. PICK S : catalogue \in Seq(S)
  BY DEF ShelfTyped
<1>2. lastId \in Nat /\ LastId \in Nat
  BY ScreensAssumption DEF ShelfTyped, Catalogue!ShelvesOK
<1>3. ASSUME NEW r, IsRow(r), Catalogue!StoreNew(r) PROVE ShelfTyped'
  <2>1. PICK new : new = [r EXCEPT !.id = lastId + 1]
    OBVIOUS
  <2>2. IsRow(new) /\ new.id = lastId + 1
    BY <1>3, <2>1 DEF IsRow
  <2>3. catalogue' = <<new>> \o catalogue /\ lastId' = lastId + 1 /\ lastId' <= LastId
    BY <1>2, <1>3, <2>1 DEF Catalogue!StoreNew
  <2>4. \A j \in DOMAIN catalogue : catalogue[j].id # new.id
    BY <1>2, <2>2 DEF ShelfTyped
  <2>5. PICK at : at = [j \in DOMAIN catalogue |-> j]
    OBVIOUS
  <2>6. Rest(at, catalogue, new.id)
    BY <2>4, <2>5 DEF Rest
  <2>7. new.id \in 1..lastId'
    BY <1>2, <2>2, <2>3
  <2> QED BY <1>1, <2>2, <2>3, <2>6, <2>7, StoredTyped
<1>4. CASE op = "create" /\ Catalogue!StoreNew(t)
  BY <1>3, <1>4
<1>5. CASE Catalogue!Duplicate(t.id)
  <2>1. PICK i \in DOMAIN catalogue : Catalogue!StoreNew(catalogue[i])
    BY <1>5 DEF Catalogue!Duplicate, Catalogue!Stored
  <2> QED BY <1>3, <2>1 DEF ShelfTyped
<1>6. CASE op = "update" /\ Catalogue!Update(t)
  <2>1. PICK i \in DOMAIN catalogue : /\ catalogue[i].id = t.id /\ UNCHANGED lastId
                                     /\ catalogue' = <<t>> \o Catalogue!RemoveAt(catalogue, i)
    BY <1>6 DEF Catalogue!Update, Catalogue!Stored
  <2>2. PICK r : r = Catalogue!RemoveAt(catalogue, i)
    OBVIOUS
  <2>3. r \in Seq(S)
    BY <1>1, <2>2, TakenOutTyped
  <2>4. PICK at : Rest(at, r, t.id)
    BY <1>1, <2>1, <2>2, TakenOutTyped
  <2>5. t.id \in 1..lastId' /\ lastId' <= LastId
    BY <1>2, <2>1 DEF ShelfTyped
  <2> QED BY <1>6, <2>1, <2>2, <2>3, <2>4, <2>5, StoredTyped
<1>7. CASE Catalogue!RemoveTemplate(t.id)
  <2>1. PICK i \in DOMAIN catalogue : UNCHANGED lastId /\ catalogue' = Catalogue!RemoveAt(catalogue, i)
    BY <1>7 DEF Catalogue!RemoveTemplate, Catalogue!Stored
  <2>2. catalogue' \in Seq(S)
    BY <1>1, <2>1, TakenOutTyped
  <2>3. PICK at : Rest(at, catalogue', catalogue[i].id)
    BY <1>1, <2>1, TakenOutTyped
  <2>4. \A j \in DOMAIN catalogue' : IsRow(catalogue'[j]) /\ catalogue'[j].id \in 1..lastId'
    BY <2>1, <2>3 DEF ShelfTyped, Rest
  <2>5. \A j, k \in DOMAIN catalogue' : catalogue'[j].id = catalogue'[k].id => j = k
    BY <2>3 DEF ShelfTyped, Rest
  <2> QED BY <2>1, <2>2, <2>4, <2>5 DEF ShelfTyped
<1> QED BY <1>4, <1>5, <1>6, <1>7 DEF Catalogue!Write
-----------------------------------------------------------------------------
(* Calls stay what they are when their page is left or asks again.         *)
LEMMA LeftWhole ==
    ASSUME NEW c, AnAction(c), Whole(c)
    PROVE  Whole(Catalogue!Left(c)) /\ Whole(Catalogue!Cancelled(c))
<1>1. PICK d : d = [c EXCEPT !.mine = FALSE, !.rows = <<>>]
  OBVIOUS
<1>2. d.tries = c.tries /\ d.op = c.op /\ d.row = c.row /\ d.rows = <<>>
  BY <1>1 DEF AnAction
<1>3. Whole(d)
  BY <1>2, NoRowsAreList DEF Whole
<1> QED BY <1>1, <1>3 DEF Catalogue!Left, Catalogue!Cancelled

LEMMA LeftAllWhole ==
    ASSUME NEW q, Waits(q), AllWhole(q)
    PROVE  Waits(Catalogue!LeftAll(q)) /\ AllWhole(Catalogue!LeftAll(q))
<1>1. PICK r : r = Catalogue!LeftAll(q)
  OBVIOUS
<1>2. DOMAIN r = DOMAIN q /\ \A i \in DOMAIN q : r[i] = Catalogue!Left(q[i])
  BY <1>1 DEF Catalogue!LeftAll
<1>3. \A i \in DOMAIN q : Whole(r[i])
  BY <1>2, LeftWhole DEF Waits, AllWhole
<1>4. Waits(r) /\ AllWhole(r)
  BY <1>1, <1>2, <1>3, LeftAllIs DEF AllWhole
<1> QED BY <1>1, <1>4

LEMMA PageCallWhole ==
    ASSUME NEW op, NEW r, op \in {"create", "update"} => IsRow(r)
    PROVE  Whole(Catalogue!Call(op, r))
<1>1. PICK c : c = Catalogue!Call(op, r)
  OBVIOUS
<1>2. c.op = op /\ c.row = r /\ c.tries = 0 /\ c.rows = <<>>
  BY <1>1 DEF Catalogue!Call
<1> QED BY <1>1, <1>2, NoRowsAreList DEF Whole

LEMMA AddedWhole ==
    ASSUME NEW q, Waits(q), AllWhole(q), NEW op \in Acts \cup {"list"}, NEW r, op \in {"create", "update"} => IsRow(r)
    PROVE  AllWhole(Append(q, Catalogue!Call(op, r)))
<1>1. PICK c : c = Catalogue!Call(op, r)
  OBVIOUS
<1>2. AnAction(c) /\ c.at = "start" /\ Whole(c)
  BY <1>1, PageCallIs, PageCallWhole
<1>3. PICK l : l = Append(q, c)
  OBVIOUS
<1>4. /\ Len(q) \in Nat /\ DOMAIN q = 1..Len(q) /\ DOMAIN l = 1..(Len(q) + 1) /\ l[Len(q) + 1] = c
      /\ \A i \in DOMAIN q : l[i] = q[i]
  BY <1>2, <1>3, AddedAction
<1>5. \A i \in DOMAIN l : i = Len(q) + 1 \/ i \in DOMAIN q
  BY <1>4
<1>6. AllWhole(l)
  BY <1>2, <1>4, <1>5 DEF AllWhole
<1> QED BY <1>1, <1>3, <1>6

LEMMA FetchWhole ==
    ASSUME NEW q, Waits(q), AllWhole(q), Catalogue!FetchAll(q)
    PROVE  AllWhole(pending')
<1>1. PICK r : r = [i \in DOMAIN q |-> Catalogue!Cancelled(q[i])]
  OBVIOUS
<1>2. pending' = Append(r, Catalogue!Call("list", Nothing))
  BY <1>1 DEF Catalogue!FetchAll, Catalogue!ListAll
<1>3. DOMAIN r = DOMAIN q /\ \A i \in DOMAIN q : r[i] = Catalogue!Cancelled(q[i])
  BY <1>1
<1>4. \A i \in DOMAIN q : Whole(r[i]) /\ AnAction(r[i]) /\ r[i].at = "start"
  BY <1>3, LeftWhole, CancelledIs DEF Waits, AllWhole
<1>5. r = [i \in DOMAIN q |-> r[i]]
  BY <1>1
<1>6. Waits(r) /\ AllWhole(r)
  BY <1>3, <1>4, <1>5, MappedWaits DEF AllWhole
<1> QED BY <1>2, <1>6, AddedWhole

LEMMA QueueWhole ==
    ASSUME Waits(pending), AllWhole(pending),
           \/ UNCHANGED pending \/ pending' = <<>> \/ pending' = Catalogue!LeftAll(pending)
           \/ Catalogue!Toasted(pending) \/ \E rows : Catalogue!Mount(rows)
    PROVE  AllWhole(pending')
<1>1. CASE UNCHANGED pending
  BY <1>1
<1>2. CASE pending' = <<>>
  <2>1. pending' \in Seq(Nat) /\ Len(pending') = 0
    BY <1>2
  <2> QED BY <2>1 DEF AllWhole
<1>3. CASE pending' = Catalogue!LeftAll(pending)
  BY <1>3, LeftAllWhole
<1>4. CASE Catalogue!Toasted(pending)
  <2>1. Catalogue!FetchAll(pending) \/ UNCHANGED pending
    BY <1>4 DEF Catalogue!Toasted
  <2> QED BY <1>1, <2>1, FetchWhole
<1>5. CASE \E rows : Catalogue!Mount(rows)
  <2>1. PICK q : q = Catalogue!LeftAll(pending)
    OBVIOUS
  <2>2. Catalogue!FetchAll(q) /\ Waits(q) /\ AllWhole(q)
    BY <1>5, <2>1, LeftAllWhole DEF Catalogue!Mount
  <2> QED BY <2>2, FetchWhole
<1> QED BY <1>1, <1>2, <1>3, <1>4, <1>5

LEMMA HandWhole ==
    ASSUME CatalogueInv, served # Catalogue!Free => Whole(served),
           \/ UNCHANGED served \/ served' = Catalogue!Free
           \/ served' = Catalogue!Left(served) \/ served' = Catalogue!Cancelled(served)
    PROVE  served' # Catalogue!Free => Whole(served')
<1>1. CASE served = Catalogue!Free
  <2>1. Catalogue!Left(served) = served /\ Catalogue!Cancelled(served) = served
    BY <1>1 DEF Catalogue!Left, Catalogue!Cancelled
  <2> QED BY <1>1, <2>1
<1>2. CASE served # Catalogue!Free
  <2>1. AnAction(served) /\ Whole(served)
    BY <1>2 DEF CatalogueInv, ActionsTyped
  <2> QED BY <2>1, LeftWhole
<1> QED BY <1>1, <1>2

LEMMA CallsWholeNext ==
    ASSUME CatalogueInv, CatalogueTyped, [Catalogue!Next]_Catalogue!vars
    PROVE  CallsWhole'
<1>1. Waits(pending) /\ AllWhole(pending) /\ (served # Catalogue!Free => Whole(served) /\ AnAction(served))
  BY DEF CatalogueInv, ActionsTyped, CatalogueTyped, CallsWhole
<1>2. ASSUME \/ UNCHANGED pending \/ pending' = <<>> \/ pending' = Catalogue!LeftAll(pending)
             \/ Catalogue!Toasted(pending) \/ \E rows : Catalogue!Mount(rows),
             \/ UNCHANGED served \/ served' = Catalogue!Free
             \/ served' = Catalogue!Left(served) \/ served' = Catalogue!Cancelled(served)
      PROVE  CallsWhole'
  BY <1>1, <1>2, QueueWhole, HandWhole DEF CallsWhole
<1>3. CASE UNCHANGED Catalogue!vars \/ Catalogue!Elsewhere \/ Catalogue!Choose \/ Catalogue!Preview
  BY <1>2, <1>3 DEF Catalogue!vars, Catalogue!Elsewhere, Catalogue!Choose, Catalogue!Preview
<1>4. CASE Catalogue!RemoveToast \/ Catalogue!ViewQueue \/ Catalogue!HandleUseTemplate
  <2>1. Catalogue!Toasted(pending) /\ (UNCHANGED served \/ served' = Catalogue!Cancelled(served))
    BY <1>4 DEF Catalogue!RemoveToast, Catalogue!ViewQueue, Catalogue!HandleUseTemplate
  <2> QED BY <1>2, <2>1
<1>5. CASE Catalogue!AfterList \/ Catalogue!AfterAct \/ Catalogue!AfterSave \/ Catalogue!Lose
  <2>1. served' = Catalogue!Free
    BY <1>5 DEF Catalogue!AfterList, Catalogue!AfterAct, Catalogue!AfterSave, Catalogue!Lose, Catalogue!Answered
  <2>2. \/ UNCHANGED pending \/ pending' = <<>> \/ Catalogue!Toasted(pending) \/ \E rows : Catalogue!Mount(rows)
    BY <1>5 DEF Catalogue!AfterList, Catalogue!AfterAct, Catalogue!AfterSave, Catalogue!Lose
  <2> QED BY <1>2, <2>1, <2>2
<1>6. CASE Catalogue!Open \/ Catalogue!Away \/ Catalogue!NewTemplate \/ Catalogue!EditTemplate
  <2>1. CASE Catalogue!Open
    <3>1. served' = Catalogue!Left(served) /\ \E rows : Catalogue!Mount(rows)
      BY <2>1 DEF Catalogue!Open
    <3> QED BY <1>2, <3>1
  <2>2. CASE \E to, f : Catalogue!Leave(to, f)
    <3>1. served' = Catalogue!Left(served) /\ pending' = Catalogue!LeftAll(pending)
      BY <2>2 DEF Catalogue!Leave
    <3> QED BY <1>2, <3>1
  <2> QED BY <1>6, <2>1, <2>2 DEF Catalogue!Away, Catalogue!NewTemplate, Catalogue!EditTemplate
<1>7. CASE Catalogue!FindAll \/ Catalogue!Serve \/ Catalogue!Refuse \/ Catalogue!apiClient
  <2>1. /\ UNCHANGED pending /\ served # Catalogue!Free
        /\ \/ \E at, rows : AreRows(rows) /\ served' = [served EXCEPT !.at = at, !.rows = rows]
           \/ \E at : served' = [served EXCEPT !.at = at]
           \/ served.op = "list" /\ served.tries < 2 /\ served' = [served EXCEPT !.at = "start", !.tries = @ + 1]
    <3>1. AreRows(catalogue)
      BY DEF CatalogueTyped, ShelfTyped, AreRows
    <3> QED BY <1>7, <3>1, NoRowsAreList DEF Catalogue!FindAll, Catalogue!Serve, Catalogue!Refuse, Catalogue!apiClient, Catalogue!Serving
  <2>2. AnAction(served) /\ Whole(served)
    BY <1>1, <2>1
  <2>3. ASSUME served'.op = served.op, served'.row = served.row, served'.tries \in 0..2, AreRows(served'.rows)
        PROVE  CallsWhole'
    BY <1>1, <2>1, <2>2, <2>3 DEF CallsWhole, Whole
  <2>4. CASE \/ \E at, rows : AreRows(rows) /\ served' = [served EXCEPT !.at = at, !.rows = rows]
             \/ \E at : served' = [served EXCEPT !.at = at]
    <3>1. served'.op = served.op /\ served'.row = served.row /\ served'.tries = served.tries
      BY <2>2, <2>4 DEF AnAction
    <3>2. AreRows(served'.rows)
      BY <2>2, <2>4 DEF AnAction, Whole
    <3> QED BY <2>2, <2>3, <3>1, <3>2 DEF Whole
  <2>5. CASE served.tries < 2 /\ served' = [served EXCEPT !.at = "start", !.tries = @ + 1]
    <3>1. /\ served'.op = served.op /\ served'.row = served.row /\ served'.tries = served.tries + 1
          /\ served'.rows = served.rows
      BY <2>2, <2>5 DEF AnAction
    <3>2. served.tries \in 0..2 /\ served.tries < 2 /\ AreRows(served.rows)
      BY <2>2, <2>5 DEF Whole
    <3>3. served'.tries \in 0..2
      BY <3>1, <3>2
    <3> QED BY <2>3, <3>1, <3>2, <3>3
  <2> QED BY <2>1, <2>4, <2>5
<1>8. CASE Catalogue!Dispatch
  <2>1. pending # <<>> /\ served' = Head(pending) /\ pending' = Tail(pending)
    BY <1>8 DEF Catalogue!Dispatch
  <2>2. PICK S : pending \in Seq(S)
    BY <1>1 DEF Waits
  <2>3. 1 \in DOMAIN pending /\ served' = pending[1] /\ \A i \in DOMAIN pending' : i + 1 \in DOMAIN pending /\ pending'[i] = pending[i + 1]
    BY <2>1, <2>2
  <2> QED BY <1>1, <2>3 DEF CallsWhole, AllWhole
<1>9. CASE Catalogue!HandleDuplicate \/ Catalogue!HandleDelete \/ Catalogue!HandleSave
  <2>1. UNCHANGED served
    BY <1>9 DEF Catalogue!HandleDuplicate, Catalogue!HandleDelete, Catalogue!HandleSave, Catalogue!Act
  <2>2. ASSUME NEW op \in Acts, NEW r, op \in {"create", "update"} => IsRow(r), pending' = Append(pending, Catalogue!Call(op, r))
        PROVE  CallsWhole'
    BY <1>1, <2>1, <2>2, AddedWhole DEF CallsWhole
  <2>3. CASE Catalogue!HandleDuplicate \/ Catalogue!HandleDelete
    <3>1. PICK op \in {"duplicate", "remove"} : \E r : pending' = Append(pending, Catalogue!Call(op, r))
      BY <2>3 DEF Catalogue!HandleDuplicate, Catalogue!HandleDelete, Catalogue!Act
    <3>2. op \in Acts /\ op \notin {"create", "update"}
      BY DEF Acts
    <3> QED BY <2>2, <3>1, <3>2
  <2>4. CASE Catalogue!HandleSave
    <3>1. PICK op : op = IF form.row.id = Nothing THEN "create" ELSE "update"
      OBVIOUS
    <3>2. PICK t, n : pending' = Append(pending, Catalogue!Call(op, Catalogue!Fields(t, n)))
      BY <2>4, <3>1 DEF Catalogue!HandleSave
    <3>3. IsRow(Catalogue!Fields(t, n))
      BY DEF CatalogueTyped, TabTyped, IsRow, Catalogue!Fields
    <3>4. op \in Acts
      BY <3>1 DEF Acts
    <3> QED BY <2>2, <3>2, <3>3, <3>4
  <2> QED BY <1>9, <2>3, <2>4
<1> QED BY <1>3, <1>4, <1>5, <1>6, <1>7, <1>8, <1>9 DEF Catalogue!Next

LEMMA ShelfNext ==
    ASSUME CatalogueInv, CatalogueTyped, [Catalogue!Next]_Catalogue!vars
    PROVE  ShelfTyped'
<1>1. ShelfTyped
  BY DEF CatalogueTyped
<1>2. CASE UNCHANGED <<catalogue, lastId>>
  BY <1>1, <1>2 DEF ShelfTyped
<1>3. CASE Catalogue!Serve
  <2>1. Catalogue!Write(served.op, served.row) /\ served # Catalogue!Free
    BY <1>3 DEF Catalogue!Serve, Catalogue!Serving
  <2>2. served.op \in {"create", "update"} => IsRow(served.row)
    BY <2>1 DEF CatalogueTyped, CallsWhole, Whole
  <2> QED BY <1>1, <2>1, <2>2, WriteTyped
<1>4. CASE Catalogue!Elsewhere
  <2>1. PICK op, t : Catalogue!Write(op, t) /\ IsRow(t)
    BY <1>4 DEF Catalogue!Elsewhere, IsRow
  <2> QED BY <1>1, <2>1, WriteTyped
<1>5. UNCHANGED <<catalogue, lastId>> \/ Catalogue!Serve \/ Catalogue!Elsewhere
  BY DEF Catalogue!Next, Catalogue!vars, Catalogue!backEnd, Catalogue!FindAll, Catalogue!Refuse, Catalogue!apiClient,
         Catalogue!RemoveToast, Catalogue!Dispatch, Catalogue!Choose, Catalogue!ViewQueue, Catalogue!HandleUseTemplate,
         Catalogue!Preview, Catalogue!HandleDuplicate, Catalogue!HandleDelete, Catalogue!Act, Catalogue!AfterList,
         Catalogue!AfterAct, Catalogue!Open, Catalogue!Away, Catalogue!NewTemplate, Catalogue!EditTemplate,
         Catalogue!Leave, Catalogue!HandleSave, Catalogue!AfterSave, Catalogue!Lose
<1> QED BY <1>2, <1>3, <1>4, <1>5

LEMMA WishSpent == ASSUME TabTyped, NEW what, Catalogue!Spend(what) PROVE DOMAIN wishes' = Catalogue!Happenings
BY DEF TabTyped, Catalogue!Spend

(* A form starts as a new template, or as one of the table.                *)
LEMMA NewFormTyped ==
    /\ DOMAIN Catalogue!NewForm = {"row", "saving"} /\ IsRow(Catalogue!NewForm.row)
    /\ ShelfTyped => \A i \in DOMAIN catalogue :
        LET f == [Catalogue!NewForm EXCEPT !.row = catalogue[i]]
        IN DOMAIN f = {"row", "saving"} /\ IsRow(f.row)
BY DEF Catalogue!NewForm, IsRow, ShelfTyped

(* The list has a whole number of pages.                                   *)
LEMMA PagesToPick ==
    ASSUME TabTyped
    PROVE  \A p \in 1..Catalogue!totalPages : p \in Nat \ {0}
<1>1. PICK S : everything \in Seq(S)
  BY DEF TabTyped, AreRows
<1>2. PICK n : n = Catalogue!totalItems
  OBVIOUS
<1>3. n \in Nat
  <2>1. PICK T : T = {i \in DOMAIN everything : Catalogue!Fits(everything[i])}
    OBVIOUS
  <2>2. DOMAIN everything = 1..Len(everything) /\ Len(everything) \in Nat /\ T \subseteq DOMAIN everything
    BY <1>1, <2>1
  <2>3. IsFiniteSet(1..Len(everything))
    BY <2>2, FS_Interval
  <2>4. Cardinality(T) \in Nat
    BY <2>2, <2>3, FS_Subset, FS_CardinalityType
  <2>5. Catalogue!Cardinality(T) = Cardinality(T)
    BY DEF Cardinality, Catalogue!Cardinality
  <2> QED BY <1>2, <2>1, <2>4, <2>5 DEF Catalogue!totalItems
<1>4. Catalogue!totalPages \in Int
  <2>1. CASE n = 0
    BY <1>2, <2>1 DEF Catalogue!totalPages
  <2>2. CASE n # 0
    <3>1. Catalogue!totalPages = (n + pick.size - 1) \div pick.size
      BY <1>2, <2>2 DEF Catalogue!totalPages
    <3>2. pick.size = 1 \/ pick.size = 2
      BY DEF TabTyped
    <3> QED BY <1>3, <3>1, <3>2
  <2> QED BY <2>1, <2>2
<1> QED BY <1>4

LEMMA TabNext ==
    ASSUME CatalogueTyped, [Catalogue!Next]_Catalogue!vars
    PROVE  TabTyped'
<1>0. TabTyped /\ ShelfTyped
  BY DEF CatalogueTyped
<1>1. DOMAIN wishes' = Catalogue!Happenings
  <2>1. UNCHANGED wishes \/ \E what : Catalogue!Spend(what)
    BY DEF Catalogue!vars, Catalogue!list, Catalogue!backEnd, Catalogue!Next, Catalogue!FindAll, Catalogue!Serve,
           Catalogue!Refuse, Catalogue!apiClient, Catalogue!Elsewhere, Catalogue!RemoveToast, Catalogue!Dispatch,
           Catalogue!Choose, Catalogue!ViewQueue, Catalogue!HandleUseTemplate, Catalogue!Preview,
           Catalogue!HandleDuplicate, Catalogue!HandleDelete, Catalogue!Act, Catalogue!AfterList, Catalogue!AfterAct,
           Catalogue!Open, Catalogue!Away, Catalogue!NewTemplate, Catalogue!EditTemplate, Catalogue!Leave,
           Catalogue!HandleSave, Catalogue!AfterSave, Catalogue!Lose
  <2> QED BY <1>0, <2>1, WishSpent DEF TabTyped
<1>2. where' \in {"list", "form", "away"}
  <2>1. UNCHANGED where \/ where' \in {"list", "form", "away"}
    BY DEF Catalogue!Mount, Catalogue!vars, Catalogue!list, Catalogue!backEnd, Catalogue!Next, Catalogue!FindAll, Catalogue!Serve,
           Catalogue!Refuse, Catalogue!apiClient, Catalogue!Elsewhere, Catalogue!RemoveToast, Catalogue!Dispatch,
           Catalogue!Choose, Catalogue!ViewQueue, Catalogue!HandleUseTemplate, Catalogue!Preview,
           Catalogue!HandleDuplicate, Catalogue!HandleDelete, Catalogue!Act, Catalogue!AfterList, Catalogue!AfterAct,
           Catalogue!Open, Catalogue!Away, Catalogue!NewTemplate, Catalogue!EditTemplate, Catalogue!Leave,
           Catalogue!HandleSave, Catalogue!AfterSave, Catalogue!Lose
  <2> QED BY <1>0, <2>1 DEF TabTyped
<1>3. DOMAIN pick' = {"tab", "filter", "page", "size"} /\ pick'.page \in Nat \ {0} /\ pick'.size \in {1, 2}
  <2>1. \/ UNCHANGED pick \/ pick' = Catalogue!Ordinary
        \/ \E t, f : pick' = [pick EXCEPT !.tab = t, !.filter = f, !.page = 1]
        \/ \E f : pick' = [pick EXCEPT !.filter = f, !.page = 1]
        \/ \E t : pick' = [pick EXCEPT !.tab = t, !.page = 1]
        \/ \E p \in 1..Catalogue!totalPages : pick' = [pick EXCEPT !.page = p]
        \/ \E n \in 1..2 : pick' = [pick EXCEPT !.size = n]
    BY DEF Catalogue!Mount, Catalogue!vars, Catalogue!list, Catalogue!backEnd, Catalogue!Next, Catalogue!FindAll, Catalogue!Serve,
           Catalogue!Refuse, Catalogue!apiClient, Catalogue!Elsewhere, Catalogue!RemoveToast, Catalogue!Dispatch,
           Catalogue!Choose, Catalogue!ViewQueue, Catalogue!HandleUseTemplate, Catalogue!Preview,
           Catalogue!HandleDuplicate, Catalogue!HandleDelete, Catalogue!Act, Catalogue!AfterList, Catalogue!AfterAct,
           Catalogue!Open, Catalogue!Away, Catalogue!NewTemplate, Catalogue!EditTemplate, Catalogue!Leave,
           Catalogue!HandleSave, Catalogue!AfterSave, Catalogue!Lose
  <2>2. DOMAIN Catalogue!Ordinary = {"tab", "filter", "page", "size"} /\ Catalogue!Ordinary.page = 1 /\ Catalogue!Ordinary.size = 1
    BY DEF Catalogue!Ordinary
  <2>3. \A p \in 1..Catalogue!totalPages : p \in Nat \ {0}
    BY <1>0, PagesToPick
  <2>4. DOMAIN pick = {"tab", "filter", "page", "size"} /\ pick.page \in Nat \ {0} /\ pick.size \in {1, 2}
    BY <1>0 DEF TabTyped
  <2>5. CASE UNCHANGED pick \/ pick' = Catalogue!Ordinary
    BY <2>2, <2>4, <2>5
  <2>6. CASE \/ \E t, f : pick' = [pick EXCEPT !.tab = t, !.filter = f, !.page = 1]
             \/ \E f : pick' = [pick EXCEPT !.filter = f, !.page = 1]
             \/ \E t : pick' = [pick EXCEPT !.tab = t, !.page = 1]
    <3>1. CASE \E t, f : pick' = [pick EXCEPT !.tab = t, !.filter = f, !.page = 1]
      BY <2>4, <3>1
    <3>2. CASE \E f : pick' = [pick EXCEPT !.filter = f, !.page = 1]
      BY <2>4, <3>2
    <3>3. CASE \E t : pick' = [pick EXCEPT !.tab = t, !.page = 1]
      BY <2>4, <3>3
    <3> QED BY <2>6, <3>1, <3>2, <3>3
  <2>7. CASE \E p \in 1..Catalogue!totalPages : pick' = [pick EXCEPT !.page = p]
    BY <2>3, <2>4, <2>7
  <2>8. CASE \E n \in 1..2 : pick' = [pick EXCEPT !.size = n]
    BY <2>4, <2>8
  <2> QED BY <2>1, <2>5, <2>6, <2>7, <2>8
<1>4. DOMAIN form' = {"row", "saving"} /\ IsRow(form'.row)
  <2>1. \/ UNCHANGED form \/ form' = Catalogue!NewForm \/ (\E b : form' = [form EXCEPT !.saving = b])
        \/ \E i \in DOMAIN catalogue : form' = [Catalogue!NewForm EXCEPT !.row = catalogue[i]]
    BY DEF Catalogue!Stored, Catalogue!Mount, Catalogue!vars, Catalogue!list, Catalogue!backEnd, Catalogue!Next, Catalogue!FindAll, Catalogue!Serve,
           Catalogue!Refuse, Catalogue!apiClient, Catalogue!Elsewhere, Catalogue!RemoveToast, Catalogue!Dispatch,
           Catalogue!Choose, Catalogue!ViewQueue, Catalogue!HandleUseTemplate, Catalogue!Preview,
           Catalogue!HandleDuplicate, Catalogue!HandleDelete, Catalogue!Act, Catalogue!AfterList, Catalogue!AfterAct,
           Catalogue!Open, Catalogue!Away, Catalogue!NewTemplate, Catalogue!EditTemplate, Catalogue!Leave,
           Catalogue!HandleSave, Catalogue!AfterSave, Catalogue!Lose
  <2> QED BY <1>0, <2>1, NewFormTyped DEF TabTyped
<1>5. DOMAIN toasts' = {"up", "going"} /\ toasts'.up \in Nat /\ toasts'.going \in Nat
  <2>1. \/ UNCHANGED toasts \/ toasts' = [up |-> 0, going |-> 0]
        \/ Catalogue!Success
        \/ toasts.up > 0 /\ toasts' = [up |-> toasts.up - 1, going |-> toasts.going + 1]
        \/ toasts.going > 0 /\ toasts' = [toasts EXCEPT !.going = @ - 1]
    BY DEF Catalogue!vars, Catalogue!list, Catalogue!backEnd, Catalogue!Next, Catalogue!FindAll, Catalogue!Serve,
           Catalogue!Refuse, Catalogue!apiClient, Catalogue!Elsewhere, Catalogue!RemoveToast, Catalogue!Dispatch,
           Catalogue!Choose, Catalogue!ViewQueue, Catalogue!HandleUseTemplate, Catalogue!Preview,
           Catalogue!HandleDuplicate, Catalogue!HandleDelete, Catalogue!Act, Catalogue!AfterList, Catalogue!AfterAct,
           Catalogue!Open, Catalogue!Away, Catalogue!NewTemplate, Catalogue!EditTemplate, Catalogue!Leave,
           Catalogue!HandleSave, Catalogue!AfterSave, Catalogue!Lose
  <2> QED BY <1>0, <2>1 DEF TabTyped, Catalogue!Success
<1>6. AreRows(everything')
  <2>1. \/ UNCHANGED everything \/ everything' = <<>> \/ everything' = catalogue
        \/ served # Catalogue!Free /\ everything' = served.rows
    BY DEF Catalogue!Answered, Catalogue!Mount, Catalogue!vars, Catalogue!list, Catalogue!backEnd, Catalogue!Next, Catalogue!FindAll, Catalogue!Serve,
           Catalogue!Refuse, Catalogue!apiClient, Catalogue!Elsewhere, Catalogue!RemoveToast, Catalogue!Dispatch,
           Catalogue!Choose, Catalogue!ViewQueue, Catalogue!HandleUseTemplate, Catalogue!Preview,
           Catalogue!HandleDuplicate, Catalogue!HandleDelete, Catalogue!Act, Catalogue!AfterList, Catalogue!AfterAct,
           Catalogue!Open, Catalogue!Away, Catalogue!NewTemplate, Catalogue!EditTemplate, Catalogue!Leave,
           Catalogue!HandleSave, Catalogue!AfterSave, Catalogue!Lose
  <2>2. AreRows(catalogue) /\ (served # Catalogue!Free => AreRows(served.rows))
    BY <1>0 DEF CatalogueTyped, CallsWhole, Whole, ShelfTyped, AreRows
  <2> QED BY <1>0, <2>1, <2>2, NoRowsAreList DEF TabTyped
<1> QED BY <1>1, <1>2, <1>3, <1>4, <1>5, <1>6 DEF TabTyped

LEMMA CatalogueTypedInit == Catalogue!Init => CatalogueTyped
<1> SUFFICES ASSUME Catalogue!Init PROVE CatalogueTyped
  OBVIOUS
<1>1. PICK s \in Mornings :
           /\ catalogue = s.table /\ lastId = Len(s.table) /\ where = "list" /\ pick = Catalogue!Ordinary /\ everything = s.table
           /\ form = Catalogue!NewForm /\ served = Catalogue!Free /\ pending = <<Catalogue!ListAll>>
           /\ toasts = [up |-> 0, going |-> 0] /\ wishes = s.left
  BY DEF Catalogue!Init
<1>2. PICK S : S = [id : 1..LastId, type : {"INTERNAL", "WHATSAPP"}, name : Names]
  OBVIOUS
<1>3. /\ LastId \in Nat /\ wishes \in [Catalogue!Happenings -> Nat]
      /\ catalogue \in Seq(S) /\ lastId <= LastId /\ lastId = Len(catalogue)
      /\ \A i, j \in DOMAIN catalogue :
            catalogue[i].id <= lastId /\ (catalogue[i].id = catalogue[j].id => i = j)
  BY <1>1, <1>2, ScreensAssumption DEF Catalogue!ShelvesOK
<1>4. ShelfTyped
  <2>1. \A i \in DOMAIN catalogue : catalogue[i] \in S
    BY <1>3
  <2>2. \A t \in S : IsRow(t) /\ t.id \in 1..LastId
    BY <1>2 DEF IsRow
  <2>3. lastId \in 0..LastId
    BY <1>3
  <2>4. \A i \in DOMAIN catalogue : IsRow(catalogue[i]) /\ catalogue[i].id \in 1..lastId
    BY <1>3, <2>1, <2>2, <2>3
  <2> QED BY <1>3, <2>3, <2>4 DEF ShelfTyped
<1>5. CallsWhole
  <2>1. Whole(Catalogue!ListAll)
    BY PageCallWhole DEF Catalogue!ListAll
  <2>2. DOMAIN pending = {1} /\ pending[1] = Catalogue!ListAll
    BY <1>1
  <2> QED BY <1>1, <2>1, <2>2 DEF CallsWhole, AllWhole
<1>6. TabTyped
  <2>1. /\ DOMAIN Catalogue!Ordinary = {"tab", "filter", "page", "size"} /\ Catalogue!Ordinary.page \in Nat \ {0}
        /\ Catalogue!Ordinary.size \in {1, 2}
    BY DEF Catalogue!Ordinary
  <2>2. AreRows(everything)
    BY <1>1, <1>3 DEF AreRows
  <2> QED BY <1>1, <1>3, <2>1, <2>2, NewFormTyped DEF TabTyped
<1> QED BY <1>4, <1>5, <1>6 DEF CatalogueTyped

(* No id is used twice in the table, a call is repeated twice at most, and *)
(* the list is on a page, the form and the toasts are what they can be:    *)
(* TemplateList, TemplateForm, ToastProvider.                              *)
THEOREM TemplatesPageTypeCorrect == Catalogue!Spec => []Catalogue!TemplatesPageTypeOK
<1>1. CatalogueInv /\ CatalogueTyped /\ [Catalogue!Next]_Catalogue!vars => CatalogueTyped'
  BY ShelfNext, CallsWholeNext, TabNext DEF CatalogueTyped
<1>2. CatalogueInv /\ CatalogueTyped => Catalogue!TemplatesPageTypeOK
  BY DEF CatalogueInv, ActionsTyped, AnAction, CatalogueTyped, ShelfTyped, CallsWhole, Whole, TabTyped,
         Catalogue!TemplatesPageTypeOK
<1> QED BY CatalogueInit, CatalogueNext, CatalogueTypedInit, <1>1, <1>2, PTL DEF Catalogue!Spec
=============================================================================
