---------------------------- MODULE EnquiryProofs ---------------------------
(***************************************************************************)
(* What holds of an enquiry for every set of users, tags and handlers.     *)
(* All requests are alike to the proofs: each decides on an update that is *)
(* sound for the row as it read it (Sound), and only Write changes the     *)
(* row.  What remains to be shown of a property is that a sound decision   *)
(* is still sound when it is written: always, because no other handler is  *)
(* in progress, or because of what the other handlers are.                 *)
(***************************************************************************)
EXTENDS Enquiry, FiniteSetTheorems, SequenceTheorems, TLAPS

Legal(rows) ==
    \A i \in DOMAIN rows :
        rows[i].from # "NONE" => rows[i].to \in Transitions[rows[i].from]

(* The statuses a handler writes without being told to by a user, and the  *)
(* group of statuses within which IN_PROGRESS and AWAITING_CUSTOMER move.  *)
Automatic == {"SAME", "OPEN", "IN_PROGRESS", "AWAITING_CUSTOMER"}
Engaged == {"IN_PROGRESS", "AWAITING_CUSTOMER", "QUOTATION_SENT", "FOLLOW_UP"}

(* Rows that tell neither of a note nor of tags; what the rows of a        *)
(* decision tell of.                                                       *)
OfNoTag(rows) == \A i \in DOMAIN rows : rows[i].added = {} /\ rows[i].removed = {}
Quiet(rows) == OfNoTag(rows) /\ \A i \in DOMAIN rows : rows[i].type # "NOTE_ADDED"
Tells(u) ==
    /\ u.op = "note" => u.rows = <<PlainRow("NOTE_ADDED")>>
    /\ u.op = "edit" => u.rows = TagRows(tags, u.tags)
    /\ u.op \notin {"note", "edit"} => Quiet(u.rows)

(* What every handler guarantees of its decision when it takes it. *)
Sound(u) ==
    /\ u \in Update
    /\ Tells(u)
    /\ Legal(u.rows)
    /\ u.status # "SAME" => status \in Statuses /\ u.status \in Transitions[status]
    /\ u.op # "change" => /\ u.status \in Automatic
                          /\ u.status = "IN_PROGRESS" => status \in Engaged
    /\ u.op \in {"change", "assign"} => u.base = version
    /\ u.responds => firstResponse = 0

-----------------------------------------------------------------------------
(* The updates the handlers decide on.                                     *)

LEMMA TransitionsType == Transitions \in [Statuses -> SUBSET Statuses]
BY SMTT(30) DEF Transitions, Statuses

(* Which statuses lead to the ones that handlers write by themselves. *)
LEMMA LeadingTo ==
    ASSUME NEW s \in Statuses
    PROVE  /\ "OPEN" \in Transitions[s] <=> s \in {"NEW", "STALE", "CLOSED_LOST"}
           /\ "AWAITING_CUSTOMER" \in Transitions[s]
                 <=> s \in {"IN_PROGRESS", "QUOTATION_SENT", "FOLLOW_UP"}
           /\ s \in {"AWAITING_CUSTOMER", "QUOTATION_SENT", "FOLLOW_UP"}
                 => "IN_PROGRESS" \in Transitions[s]
BY SMTT(30) DEF Transitions, Statuses

LEMMA SpendType ==
    ASSUME TypeOK, NEW what \in Limited, Spend(what)
    PROVE  budget' \in Budgets /\ (budget["changes"] = 0 => budget'["changes"] = 0)
BY DEF TypeOK, Spend, Budgets, Limited

LEMMA StatusRowType ==
    ASSUME NEW type \in Events, NEW s \in Statuses, NEW t \in Transitions[s]
    PROVE  /\ <<StatusRow(type, s, t)>> \in Seq(Row)
           /\ Legal(<<StatusRow(type, s, t)>>)
           /\ type # "NOTE_ADDED" => Quiet(<<StatusRow(type, s, t)>>)
<1>1. t \in Statuses
  BY TransitionsType
<1>2. /\ StatusRow(type, s, t) \in Row /\ StatusRow(type, s, t).from = s
      /\ StatusRow(type, s, t).to = t /\ StatusRow(type, s, t).type = type
      /\ StatusRow(type, s, t).added = {} /\ StatusRow(type, s, t).removed = {}
  BY <1>1 DEF StatusRow, PlainRow, Row
<1> QED BY <1>2 DEF Legal, Quiet, OfNoTag

LEMMA PlainRowType ==
    ASSUME NEW type \in Events
    PROVE  /\ <<PlainRow(type)>> \in Seq(Row) /\ Legal(<<PlainRow(type)>>)
           /\ type # "NOTE_ADDED" => Quiet(<<PlainRow(type)>>)
<1>1. /\ PlainRow(type) \in Row /\ PlainRow(type).from = "NONE" /\ PlainRow(type).type = type
      /\ PlainRow(type).added = {} /\ PlainRow(type).removed = {}
  BY DEF PlainRow, Row
<1> QED BY <1>1 DEF Legal, Quiet, OfNoTag

LEMMA NoRowType == <<>> \in Seq(Row) /\ Legal(<<>>) /\ Quiet(<<>>)
BY DEF Legal, Quiet, OfNoTag

LEMMA TagRowsType ==
    ASSUME NEW old \in SUBSET Tags, NEW new \in SUBSET Tags
    PROVE  TagRows(old, new) \in Seq(Row) /\ Legal(TagRows(old, new))
<1> DEFINE r == [PlainRow("TAGS") EXCEPT !.added = new \ old, !.removed = old \ new]
<1>1. r \in Row /\ r.from = "NONE"
  BY DEF PlainRow, Row, Events
<1> HIDE DEF r
<1>2. <<r>> \in Seq(Row) /\ Legal(<<r>>)
  BY <1>1 DEF Legal
<1>3. TagRows(old, new) = <<>> \/ TagRows(old, new) = <<r>>
  BY DEF TagRows, r
<1> QED BY <1>2, <1>3, NoRowType

(* An update is sound if its parts are. *)
LEMMA SoundIf ==
    ASSUME NEW u \in Update, Legal(u.rows), Tells(u), u.op # "change",
           u.status \in Automatic,
           u.status # "SAME" => status \in Statuses /\ u.status \in Transitions[status],
           u.status = "IN_PROGRESS" => status \in Engaged,
           u.op = "assign" => u.base = version,
           u.responds => firstResponse = 0
    PROVE  Sound(u) /\ u.op # "change"
BY DEF Sound

LEMMA NoUpdateType ==
    ASSUME NEW op \in Op
    PROVE  /\ NoUpdate(op) \in Update
           /\ NoUpdate(op).op = op /\ NoUpdate(op).status = "SAME"
           /\ ~NoUpdate(op).responds /\ NoUpdate(op).rows = <<>>
BY DEF NoUpdate, Update

LEMMA StatusChangeSound ==
    ASSUME TypeOK, NEW c \in Calls, NEW u \in Users, NEW s \in Statuses, StatusChange(c, u, s)
    PROVE  \E d : Sound(d) /\ Decide(c, d) /\ d.op = "change"
<1> DEFINE r == <<StatusRow("STATUS_CHANGED", status, s)>>
           d == [NoUpdate("change") EXCEPT
                    !.by = u, !.base = seen[u].version, !.status = s, !.bump = TRUE,
                    !.rows = r]
<1>1. status \in Statuses /\ s \in Transitions[status]
  BY DEF TypeOK, StatusChange, Exists
<1>2. r \in Seq(Row) /\ Legal(r) /\ Quiet(r)
  BY <1>1, StatusRowType DEF Events
<1>3. Decide(c, d)
  BY DEF StatusChange
<1>4. seen[u].version \in Int /\ seen[u].version = version
  BY DEF TypeOK, StatusChange, UpToDate
<1> HIDE DEF r
<1>5. Sound(d) /\ d.op = "change"
  BY <1>1, <1>2, <1>4 DEF Sound, Tells, NoUpdate, Update, Op
<1> HIDE DEF d
<1> QED BY <1>3, <1>5

LEMMA AssignSound ==
    ASSUME TypeOK, NEW c \in Calls, NEW u \in Users, NEW to \in Users, Assign(c, u, to)
    PROVE  \E d : Sound(d) /\ Decide(c, d) /\ d.op \notin {"change", "note"}
<1> DEFINE r == <<PlainRow(IF assignee = Nobody THEN "ASSIGNED" ELSE "REASSIGNED")>>
           s == IF status = "NEW" THEN "OPEN" ELSE "SAME"
           d == [NoUpdate("assign") EXCEPT
                    !.by = u, !.base = seen[u].version, !.assignee = to, !.bump = TRUE,
                    !.status = s, !.rows = r]
<1>1. s \in Statuses \cup {"SAME"} /\ s \in Automatic /\ s # "IN_PROGRESS"
      /\ (s # "SAME" => status \in Statuses /\ s \in Transitions[status])
  BY LeadingTo DEF Statuses, Automatic
<1>2. r \in Seq(Row) /\ Legal(r) /\ Quiet(r)
  BY PlainRowType DEF Events
<1>3. Decide(c, d)
  BY DEF Assign
<1>4. seen[u].version \in Int /\ seen[u].version = version
  BY DEF TypeOK, Assign, UpToDate
<1> HIDE DEF r, s
<1>5. Sound(d) /\ d.op \notin {"change", "note"}
  BY <1>1, <1>2, <1>4 DEF Sound, Tells, NoUpdate, Update, Op
<1> HIDE DEF d
<1> QED BY <1>3, <1>5

LEMMA UpdateTagsSound ==
    ASSUME TypeOK, NEW c \in Calls, NEW new \in SUBSET Tags, UpdateTags(c, new)
    PROVE  \E d : Sound(d) /\ Decide(c, d) /\ d.op \notin {"change", "note"}
<1> DEFINE r == TagRows(tags, new)
           d == [NoUpdate("edit") EXCEPT !.tags = new, !.rows = r]
<1>1. r \in Seq(Row) /\ Legal(r) /\ r = TagRows(tags, new)
  BY TagRowsType DEF TypeOK
<1>2. Decide(c, d)
  BY DEF UpdateTags
<1> HIDE DEF r
<1>3. d \in Update /\ d.op = "edit" /\ d.status = "SAME" /\ d.rows = r /\ d.responds = FALSE /\ d.tags = new
  BY <1>1, NoUpdateType DEF Op, Update
<1>4. Sound(d) /\ d.op \notin {"change", "note"}
  BY <1>1, <1>3, SoundIf DEF Automatic, Tells
<1> HIDE DEF d
<1> QED BY <1>2, <1>4

LEMMA AddNoteSound ==
    ASSUME TypeOK, NEW c \in Calls, AddNote(c)
    PROVE  \E d : Sound(d) /\ Decide(c, d) /\ d.op = "note"
<1> DEFINE r == <<PlainRow("NOTE_ADDED")>>
           d == [NoUpdate("note") EXCEPT !.rows = r]
<1>1. r \in Seq(Row) /\ Legal(r) /\ r = <<PlainRow("NOTE_ADDED")>>
  BY PlainRowType DEF Events
<1>2. Decide(c, d)
  BY DEF AddNote
<1> HIDE DEF r
<1>3. d \in Update /\ d.op = "note" /\ d.status = "SAME" /\ d.rows = r /\ d.responds = FALSE
  BY <1>1, NoUpdateType DEF Op, Update
<1>4. Sound(d) /\ d.op = "note"
  BY <1>1, <1>3, SoundIf DEF Automatic, Tells
<1> HIDE DEF d
<1> QED BY <1>2, <1>4

LEMMA SendMessageSound ==
    ASSUME TypeOK, NEW c \in Calls, SendMessage(c)
    PROVE  \E d : Sound(d) /\ Decide(c, d) /\ d.op \notin {"change", "note"}
<1> DEFINE r == <<PlainRow("MESSAGE_SENT")>>
           s == IF status = "IN_PROGRESS" THEN "AWAITING_CUSTOMER" ELSE "SAME"
           f == firstResponse = 0
           d == [NoUpdate("send") EXCEPT !.status = s, !.responds = f, !.rows = r]
<1>1. r \in Seq(Row) /\ Legal(r) /\ Quiet(r)
  BY PlainRowType DEF Events
<1>2. s \in Statuses \cup {"SAME"} /\ s \in Automatic /\ s # "IN_PROGRESS"
      /\ (s # "SAME" => status \in Statuses /\ s \in Transitions[status])
  BY LeadingTo DEF Statuses, Automatic
<1>3. Decide(c, d)
  BY DEF SendMessage
<1>4. f \in BOOLEAN /\ (f => firstResponse = 0)
  OBVIOUS
<1> HIDE DEF r, s, f
<1>5. d \in Update /\ d.op = "send" /\ d.status = s /\ d.rows = r /\ d.responds = f
  BY <1>1, <1>2, <1>4, NoUpdateType DEF Op, Update
<1>6. Sound(d) /\ d.op \notin {"change", "note"}
  BY <1>1, <1>2, <1>4, <1>5, SoundIf DEF Tells
<1> HIDE DEF d
<1> QED BY <1>3, <1>6

LEMMA AddOutboundMessageSound ==
    ASSUME TypeOK, NEW c \in Calls, AddOutboundMessage(c)
    PROVE  \E d : Sound(d) /\ Decide(c, d) /\ d.op \notin {"change", "note"}
<1> DEFINE r == <<PlainRow("MESSAGE_SENT")>>
           f == firstResponse = 0
           d == [NoUpdate("send") EXCEPT !.responds = f, !.rows = r]
<1>1. r \in Seq(Row) /\ Legal(r) /\ Quiet(r)
  BY PlainRowType DEF Events
<1>2. Decide(c, d)
  BY DEF AddOutboundMessage
<1>3. f \in BOOLEAN /\ (f => firstResponse = 0)
  OBVIOUS
<1> HIDE DEF r, f
<1>4. d \in Update /\ d.op = "send" /\ d.status = "SAME" /\ d.rows = r /\ d.responds = f
  BY <1>1, <1>3, NoUpdateType DEF Op, Update
<1>5. Sound(d) /\ d.op \notin {"change", "note"}
  BY <1>1, <1>3, <1>4, SoundIf DEF Automatic, Tells
<1> HIDE DEF d
<1> QED BY <1>2, <1>5

LEMMA MaybeTransitionOnOutboundSound ==
    ASSUME TypeOK, NEW c \in Calls, MaybeTransitionOnOutbound(c)
    PROVE  \E d : Sound(d) /\ Decide(c, d) /\ d.op \notin {"change", "note"}
<1> DEFINE r == <<StatusRow("STATUS_CHANGED", status, "AWAITING_CUSTOMER")>>
           d == [NoUpdate("report") EXCEPT
                    !.status = "AWAITING_CUSTOMER", !.bump = TRUE, !.rows = r]
<1>1. status \in Statuses /\ "AWAITING_CUSTOMER" \in Transitions[status]
  BY LeadingTo DEF MaybeTransitionOnOutbound, AwaitsReply, Statuses
<1>2. r \in Seq(Row) /\ Legal(r) /\ Quiet(r)
  BY <1>1, StatusRowType DEF Events
<1>3. Decide(c, d)
  BY DEF MaybeTransitionOnOutbound
<1> HIDE DEF r
<1>4. /\ d \in Update /\ d.op = "report" /\ d.rows = r /\ d.responds = FALSE
      /\ d.status = "AWAITING_CUSTOMER"
  BY <1>1, <1>2, NoUpdateType DEF Op, Update, Statuses
<1>5. Sound(d) /\ d.op \notin {"change", "note"}
  BY <1>1, <1>2, <1>4, SoundIf DEF Automatic, Tells
<1> HIDE DEF d
<1> QED BY <1>3, <1>5

LEMMA AppendToExistingEnquirySound ==
    ASSUME TypeOK, NEW c \in Calls, AppendToExistingEnquiry(c)
    PROVE  \E d : Sound(d) /\ Decide(c, d) /\ d.op \notin {"change", "note"}
<1> DEFINE s == OnCustomerReply(status)
           d == [NoUpdate("inbound") EXCEPT !.status = s]
<1>1. status \in Statuses
  BY DEF TypeOK, AppendToExistingEnquiry, Decide, Exists
<1>2. s \in Statuses \cup {"SAME"} /\ s \in Automatic
      /\ (s # "SAME" => s \in Transitions[status])
      /\ (s = "IN_PROGRESS" => status \in Engaged)
  BY <1>1, LeadingTo DEF OnCustomerReply, Statuses, Automatic, Engaged
<1>3. Decide(c, d)
  BY DEF AppendToExistingEnquiry
<1> HIDE DEF s
<1>4. d \in Update /\ d.op = "inbound" /\ d.status = s /\ d.rows = <<>> /\ d.responds = FALSE
  BY <1>2, NoUpdateType DEF Op, Update
<1>5. Sound(d) /\ d.op \notin {"change", "note"}
  BY <1>1, <1>2, <1>4, NoRowType, SoundIf DEF Tells
<1> HIDE DEF d
<1> QED BY <1>3, <1>5

LEMMA ReopenClosedEnquirySound ==
    ASSUME TypeOK, NEW c \in Calls, ReopenClosedEnquiry(c)
    PROVE  \E d : Sound(d) /\ Decide(c, d) /\ d.op \notin {"change", "note"}
<1> DEFINE r == <<StatusRow("REOPENED", "CLOSED_LOST", "OPEN")>>
           d == [NoUpdate("inbound") EXCEPT !.status = "OPEN", !.bump = TRUE, !.rows = r]
<1>1. status = "CLOSED_LOST" /\ status \in Statuses /\ "OPEN" \in Transitions[status]
  BY LeadingTo DEF ReopenClosedEnquiry, Statuses
<1>2. r \in Seq(Row) /\ Legal(r) /\ Quiet(r)
  BY <1>1, StatusRowType DEF Events
<1>3. Decide(c, d)
  BY DEF ReopenClosedEnquiry
<1> HIDE DEF r
<1>4. d \in Update /\ d.op = "inbound" /\ d.status = "OPEN" /\ d.rows = r /\ d.responds = FALSE
  BY <1>1, <1>2, NoUpdateType DEF Op, Update, Statuses
<1>5. Sound(d) /\ d.op \notin {"change", "note"}
  BY <1>1, <1>2, <1>4, SoundIf DEF Automatic, Tells
<1> HIDE DEF d
<1> QED BY <1>3, <1>5

LEMMA AppendQualifiedSound ==
    ASSUME TypeOK, NEW c \in Calls, AppendQualified(c)
    PROVE  \E d : Sound(d) /\ Decide(c, d) /\ d.op \notin {"change", "note"}
<1> DEFINE d == NoUpdate("inbound")
<1>1. Decide(c, d)
  BY DEF AppendQualified
<1>2. Sound(d) /\ d.op \notin {"change", "note"}
  BY NoUpdateType, NoRowType, SoundIf DEF Op, Automatic, Tells
<1> HIDE DEF d
<1> QED BY <1>1, <1>2

-----------------------------------------------------------------------------
(* What a step does.                                                       *)

(* A request takes a sound decision and leaves the row alone. *)
LEMMA RequestEffect ==
    ASSUME TypeOK, NEW c \in Calls, Request(c)
    PROVE  /\ \E d : /\ Sound(d) /\ Decide(c, d) /\ (d.op = "change" => budget["changes"] > 0)
                     /\ notes' = IF d.op = "note" THEN notes + 1 ELSE notes
           /\ Unread
           /\ notes' \in Nat /\ untold' = untold
           /\ budget' \in Budgets
           /\ budget["changes"] = 0 => budget'["changes"] = 0
<1>1. CASE \E u \in Users, s \in Statuses : StatusChange(c, u, s)
  <2>1. PICK u \in Users, s \in Statuses : StatusChange(c, u, s)
    BY <1>1
  <2>2. budget["changes"] > 0 /\ Spend("changes") /\ Unread /\ UNCHANGED <<notes, untold>>
    BY <2>1 DEF StatusChange, Spend, noted
  <2> QED BY <2>1, <2>2, StatusChangeSound, SpendType DEF Limited, TypeOK
<1>2. CASE \E u \in Users, to \in Users : Assign(c, u, to)
  <2>1. PICK u \in Users, to \in Users : Assign(c, u, to)
    BY <1>2
  <2>2. Spend("assignments") /\ Unread /\ UNCHANGED <<notes, untold>>
    BY <2>1 DEF Assign, noted
  <2> QED BY <2>1, <2>2, AssignSound, SpendType DEF Limited, TypeOK
<1>3. CASE \E new \in SUBSET Tags : UpdateTags(c, new)
  <2>1. PICK new \in SUBSET Tags : UpdateTags(c, new)
    BY <1>3
  <2>2. Spend("edits") /\ Unread /\ UNCHANGED <<notes, untold>>
    BY <2>1 DEF UpdateTags, noted
  <2> QED BY <2>1, <2>2, UpdateTagsSound, SpendType DEF Limited, TypeOK
<1>4. CASE AddNote(c)
  <2>1. Spend("notes") /\ Unread /\ notes' = notes + 1 /\ untold' = untold
    BY <1>4 DEF AddNote
  <2> QED BY <1>4, <2>1, AddNoteSound, SpendType DEF Limited, TypeOK
<1>5. CASE SendMessage(c)
  <2>1. Spend("replies") /\ Unread /\ UNCHANGED <<notes, untold>>
    BY <1>5 DEF SendMessage, noted
  <2> QED BY <1>5, <2>1, SendMessageSound, SpendType DEF Limited, TypeOK
<1>6. CASE AddOutboundMessage(c)
  <2>1. Spend("outbound") /\ Unread /\ UNCHANGED <<notes, untold>>
    BY <1>6 DEF AddOutboundMessage, noted
  <2> QED BY <1>6, <2>1, AddOutboundMessageSound, SpendType DEF Limited, TypeOK
<1>7. CASE MaybeTransitionOnOutbound(c)
  <2>1. Spend("reports") /\ Unread /\ UNCHANGED <<notes, untold>>
    BY <1>7 DEF MaybeTransitionOnOutbound, noted
  <2> QED BY <1>7, <2>1, MaybeTransitionOnOutboundSound, SpendType DEF Limited, TypeOK
<1>8. CASE AppendToExistingEnquiry(c)
  <2>1. Spend("inbound") /\ Unread /\ UNCHANGED <<notes, untold>>
    BY <1>8 DEF AppendToExistingEnquiry, noted
  <2> QED BY <1>8, <2>1, AppendToExistingEnquirySound, SpendType DEF Limited, TypeOK
<1>9. CASE ReopenClosedEnquiry(c)
  <2>1. Spend("inbound") /\ Unread /\ UNCHANGED <<notes, untold>>
    BY <1>9 DEF ReopenClosedEnquiry, noted
  <2> QED BY <1>9, <2>1, ReopenClosedEnquirySound, SpendType DEF Limited, TypeOK
<1>10. CASE AppendQualified(c)
  <2>1. Spend("inbound") /\ Unread /\ UNCHANGED <<notes, untold>>
    BY <1>10 DEF AppendQualified, noted
  <2> QED BY <1>10, <2>1, AppendQualifiedSound, SpendType DEF Limited, TypeOK
<1> QED
  BY <1>1, <1>2, <1>3, <1>4, <1>5, <1>6, <1>7, <1>8, <1>9, <1>10 DEF Request

(* A handler that ends, with or without writing, is idle again. *)
LEMMA IdleSound == Sound(Idle) /\ Idle.op = "idle" /\ Idle.status = "SAME"
BY NoUpdateType, NoRowType, SoundIf DEF Idle, Op, Automatic, Tells

LEMMA FailEffect ==
    ASSUME TypeOK, NEW c \in Calls, Fail(c)
    PROVE  /\ call' = [call EXCEPT ![c] = Idle]
           /\ Unread /\ notes' = notes
           /\ untold' = IF call[c].op = "note" THEN untold + 1 ELSE untold
           /\ budget' \in Budgets
           /\ budget["changes"] = 0 => budget'["changes"] = 0
BY SpendType DEF Fail, Limited, TypeOK

(* Keeping to the types. *)
LEMMA CallType ==
    ASSUME TypeOK, NEW c \in Calls, NEW d \in Update
    PROVE  [call EXCEPT ![c] = d] \in [Calls -> Update]
BY DEF TypeOK

LEMMA WriteType ==
    ASSUME TypeOK, NEW c \in Calls, Write(c)
    PROVE  TypeOK'
<1> DEFINE u == call[c]
<1>1. u \in Update
  BY DEF TypeOK
<1>2. status' \in Statuses \cup {"DELETED"} /\ version' \in Nat
      /\ assignee' \in Users \cup {Nobody} /\ tags' \in SUBSET Tags
  BY <1>1 DEF TypeOK, Write, Update
<1>3. firstResponse' \in Nat /\ outbound' \in Nat /\ lastMessage' \in {"INBOUND", "OUTBOUND"}
  BY <1>1 DEF TypeOK, Write, Update
<1>4. timeline' \in Seq(Row)
  <2>1. timeline \in Seq(Row) /\ u.rows \in Seq(Row) /\ timeline' = timeline \o u.rows
    BY <1>1 DEF TypeOK, Write, Update
  <2> QED BY <2>1, ConcatProperties
<1>5. call' \in [Calls -> Update]
  BY CallType, IdleSound DEF Write, Sound
<1>6. notes' \in Nat /\ untold' \in Nat /\ seen' \in [Users -> [version: Nat, status: Statuses]]
      /\ budget' \in Budgets
  BY DEF TypeOK, Write, noted
<1> QED BY <1>2, <1>3, <1>4, <1>5, <1>6 DEF TypeOK

LEMMA InitType == Init => TypeOK
<1> SUFFICES ASSUME Init PROVE TypeOK
  OBVIOUS
<1>1. seen \in [Users -> [version: Nat, status: Statuses]] /\ status \in Statuses
  BY EnquiryAssumption DEF Init
<1>2. call \in [Calls -> Update]
  BY IdleSound DEF Init, Sound
<1> QED BY <1>1, <1>2, EnquiryAssumption DEF Init, TypeOK

LEMMA NextType == TypeOK /\ [Next]_vars => TypeOK'
<1> SUFFICES ASSUME TypeOK, [Next]_vars PROVE TypeOK'
  OBVIOUS
<1>1. ASSUME NEW u \in Users, Look(u) PROVE TypeOK'
  BY <1>1 DEF TypeOK, Look, Exists, thread, noted
<1>2. ASSUME NEW c \in Calls, Request(c) PROVE TypeOK'
  <2>1. PICK d : Sound(d) /\ Decide(c, d)
    BY <1>2, RequestEffect
  <2>2. call' \in [Calls -> Update]
    BY <2>1, CallType DEF Decide, Sound
  <2> QED BY <1>2, <2>2, RequestEffect DEF TypeOK, Unread, thread
<1>3. ASSUME NEW c \in Calls, Fail(c) PROVE TypeOK'
  <2>1. call' \in [Calls -> Update]
    BY <1>3, FailEffect, CallType, IdleSound DEF Sound
  <2> QED BY <1>3, <2>1, FailEffect DEF TypeOK, Unread, thread
<1>4. ASSUME Remove PROVE TypeOK'
  <2>1. budget' \in Budgets
    BY <1>4, SpendType DEF Remove, Limited
  <2> QED BY <1>4, <2>1 DEF TypeOK, Remove, thread
<1>5. CASE UNCHANGED vars
  BY <1>5 DEF TypeOK, vars, thread, noted
<1> QED BY <1>1, <1>2, <1>3, <1>4, <1>5, WriteType DEF Next

(* Every variable keeps to its type. *)
THEOREM TypeCorrect == Spec => []TypeOK
<1> QED BY InitType, NextType, PTL DEF Spec

-----------------------------------------------------------------------------
(* The timeline.                                                           *)

(* A decision keeps legal rows legal until it is written: the rows do not  *)
(* mention the enquiry.                                                    *)
Records ==
    /\ TypeOK
    /\ Legal(timeline)
    /\ \A c \in Calls : Legal(call[c].rows)

LEMMA AppendLegal ==
    ASSUME NEW rows \in Seq(Row), NEW more \in Seq(Row), Legal(rows), Legal(more)
    PROVE  Legal(rows \o more)
<1> SUFFICES ASSUME NEW i \in DOMAIN (rows \o more)
             PROVE  (rows \o more)[i].from # "NONE"
                       => (rows \o more)[i].to \in Transitions[(rows \o more)[i].from]
  BY DEF Legal
<1>1. Len(rows \o more) = Len(rows) + Len(more) /\ rows \o more \in Seq(Row)
  BY ConcatProperties
<1>2. i \in 1 .. Len(rows) + Len(more)
  BY <1>1
<1>3. CASE i <= Len(rows)
  <2>1. i \in DOMAIN rows /\ (rows \o more)[i] = rows[i]
    BY <1>2, <1>3, ConcatProperties
  <2> QED BY <2>1 DEF Legal
<1>4. CASE i > Len(rows)
  <2>1. i - Len(rows) \in DOMAIN more /\ (rows \o more)[i] = more[i - Len(rows)]
    BY <1>2, <1>4, ConcatProperties
  <2> QED BY <2>1 DEF Legal
<1> QED BY <1>2, <1>3, <1>4

LEMMA RecordsStep == Records /\ [Next]_vars => Records'
<1> SUFFICES ASSUME Records, [Next]_vars PROVE Records'
  OBVIOUS
<1> USE DEF Records
<1>1. TypeOK'
  BY NextType
<1>2. ASSUME NEW c \in Calls, Request(c) PROVE Records'
  <2>1. PICK d : Sound(d) /\ Decide(c, d)
    BY <1>2, RequestEffect
  <2>2. timeline' = timeline
    BY <1>2, RequestEffect DEF Unread
  <2>3. \A e \in Calls : Legal(call'[e].rows)
    BY <2>1 DEF Decide, Sound, TypeOK
  <2> QED BY <1>1, <2>2, <2>3 DEF Legal
<1>3. ASSUME NEW c \in Calls, Write(c) PROVE Records'
  <2>1. timeline \in Seq(Row) /\ call[c].rows \in Seq(Row)
    BY DEF TypeOK, Update
  <2>2. timeline' = timeline \o call[c].rows
    BY <1>3 DEF Write
  <2>3. Legal(timeline)'
    BY <2>1, <2>2, AppendLegal DEF Legal
  <2>4. \A e \in Calls : Legal(call'[e].rows)
    BY <1>3, IdleSound DEF Write, Sound, TypeOK
  <2> QED BY <1>1, <2>3, <2>4 DEF Legal
<1>4. ASSUME NEW c \in Calls, Fail(c) PROVE Records'
  <2>1. timeline' = timeline /\ \A e \in Calls : Legal(call'[e].rows)
    BY <1>4, FailEffect, IdleSound DEF Unread, Sound, TypeOK
  <2> QED BY <1>1, <2>1 DEF Legal
<1>5. CASE Remove
  BY <1>1, <1>5, NoRowType DEF Remove, Legal
<1>6. CASE UNCHANGED vars \/ \E u \in Users : Look(u)
  BY <1>1, <1>6 DEF vars, Look, Legal
<1> QED BY <1>2, <1>3, <1>4, <1>5, <1>6 DEF Next

(* However handlers overlap, the timeline only ever tells of steps of the  *)
(* table.                                                                  *)
THEOREM TimelineIsLegal == Spec => []TimelineFollowsTable
<1>1. Init => Records
  <2> SUFFICES ASSUME Init PROVE Records
    OBVIOUS
  <2>1. \A c \in Calls : Legal(call[c].rows)
    BY IdleSound DEF Init, Sound
  <2> QED BY <2>1, InitType, NoRowType DEF Records, Init
<1>2. Records => TimelineFollowsTable
  BY DEF Records, Legal, TimelineFollowsTable
<1> QED BY <1>1, <1>2, RecordsStep, PTL DEF Spec

-----------------------------------------------------------------------------
(* Handlers that do not overlap.                                           *)

(* Nothing has changed since the handler in progress read the row. *)
Undisturbed ==
    /\ TypeOK
    /\ Exists => \A c \in Calls : Sound(call[c])

LEMMA SoundKept ==
    ASSUME NEW u, Sound(u), status' = status, version' = version,
           firstResponse' = firstResponse, tags' = tags
    PROVE  Sound(u)'
BY DEF Sound, Legal, Tells, Quiet, OfNoTag

LEMMA IdleSoundNext == Sound(Idle)'
<1>1. Idle' = Idle
  BY DEF Idle, NoUpdate
<1> QED BY NoUpdateType, NoRowType DEF Sound, Idle, Op, Automatic, Legal, Tells, Quiet, OfNoTag

LEMMA UndisturbedStep ==
    ASSUME \A c, d \in Calls : c = d
    PROVE  Undisturbed /\ [Next]_vars => Undisturbed'
<1> SUFFICES ASSUME Undisturbed, [Next]_vars PROVE Undisturbed'
  OBVIOUS
<1> USE DEF Undisturbed
<1>1. TypeOK'
  BY NextType
<1>2. ASSUME NEW c \in Calls, Request(c) PROVE Undisturbed'
  <2>1. PICK d : Sound(d) /\ Decide(c, d)
    BY <1>2, RequestEffect
  <2>2. Sound(d)'
    BY <1>2, <2>1, RequestEffect, SoundKept DEF Unread, thread
  <2>3. \A e \in Calls : call'[e] = d
    BY <2>1 DEF Decide, TypeOK
  <2> QED BY <1>1, <2>2, <2>3
<1>3. ASSUME NEW c \in Calls, call' = [call EXCEPT ![c] = Idle] PROVE Undisturbed'
  <2>1. \A e \in Calls : call'[e] = Idle
    BY <1>3 DEF TypeOK
  <2> QED BY <1>1, <2>1, IdleSoundNext
<1>4. ASSUME NEW c \in Calls, Write(c) \/ Fail(c) PROVE Undisturbed'
  BY <1>3, <1>4 DEF Write, Fail
<1>5. CASE Remove
  BY <1>1, <1>5 DEF Remove, Exists
<1>6. CASE UNCHANGED vars \/ \E u \in Users : Look(u)
  <2>1. UNCHANGED <<status, version, firstResponse, tags, call>>
    BY <1>6 DEF vars, Look, thread
  <2>2. Exists' => \A c \in Calls : Sound(call[c])'
    BY <2>1, SoundKept DEF Exists
  <2> QED BY <1>1, <2>1, <2>2
<1> QED BY <1>2, <1>4, <1>5, <1>6 DEF Next

(* The row changes by Write and by Remove only. *)
LEMMA RowChanges ==
    ASSUME TypeOK, [Next]_vars
    PROVE  \/ \E c \in Calls : Write(c)
           \/ Remove
           \/ UNCHANGED <<status, firstResponse, timeline>>
<1>1. ASSUME NEW c \in Calls, Request(c) PROVE UNCHANGED <<status, firstResponse, timeline>>
  BY <1>1, RequestEffect DEF Unread, thread
<1>2. ASSUME NEW c \in Calls, Fail(c) PROVE UNCHANGED <<status, firstResponse, timeline>>
  BY <1>2, FailEffect DEF Unread, thread
<1> QED BY <1>1, <1>2 DEF Next, Look, vars, thread

(* While at most one handler is in progress, its decision is still sound   *)
(* when it is written: the status follows the table, a user's change is    *)
(* written on the version its author saw, and firstResponseAt is set once. *)
THEOREM OneHandlerAtATime ==
    ASSUME \A c, d \in Calls : c = d
    PROVE  Spec => FollowsTable /\ WrittenOnSeenVersion /\ FirstResponseOnce
<1>1. Init => Undisturbed
  BY InitType, IdleSound DEF Init, Undisturbed
<1>2. Undisturbed /\ [Next]_vars => [Moves(status, status') => status' \in Transitions[status]]_vars
  <2> SUFFICES ASSUME Undisturbed, [Next]_vars, Moves(status, status')
               PROVE  status' \in Transitions[status]
    OBVIOUS
  <2>1. PICK c \in Calls : Write(c)
    BY RowChanges DEF Undisturbed, Remove, Moves
  <2> QED BY <2>1 DEF Undisturbed, Write, Sound, Moves
<1>3. Undisturbed /\ [Next]_vars => [OnSeenVersion]_vars
  BY DEF Undisturbed, TypeOK, OnSeenVersion, Writes, Sound
<1>4. Undisturbed /\ [Next]_vars => [KeepsFirstResponse]_vars
  <2> SUFFICES ASSUME Undisturbed, [Next]_vars, firstResponse # 0
               PROVE  firstResponse' = firstResponse
    BY DEF KeepsFirstResponse
  <2>1. CASE \E c \in Calls : Write(c)
    BY <2>1 DEF Undisturbed, Write, Sound
  <2> QED BY <2>1, RowChanges DEF Undisturbed, Remove, thread
<1> QED BY <1>1, <1>2, <1>3, <1>4, UndisturbedStep, PTL
        DEF Spec, FollowsTable, WrittenOnSeenVersion, FirstResponseOnce

-----------------------------------------------------------------------------
(* Handlers that move the status by themselves.                            *)

(* They move an enquiry to OPEN, where they leave it, or about within      *)
(* Engaged: what one has decided to write still fits what another wrote.   *)
Opening == {"NEW", "OPEN", "STALE", "CLOSED_LOST"}
Fits(u, s) ==
    /\ u.op # "change"
    /\ u.status \in Automatic
    /\ s # "DELETED" =>
          /\ u.status = "OPEN" => s \in Opening
          /\ u.status \in {"IN_PROGRESS", "AWAITING_CUSTOMER"} => s \in Engaged

Unattended ==
    /\ TypeOK
    /\ budget["changes"] = 0
    /\ \A c \in Calls : Fits(call[c], status)

LEMMA SoundFits ==
    ASSUME NEW u, Sound(u), u.op # "change"
    PROVE  Fits(u, status)
BY LeadingTo DEF Sound, Fits, Automatic, Opening, Engaged

LEMMA UnattendedStep == Unattended /\ [Next]_vars => Unattended'
<1> SUFFICES ASSUME Unattended, [Next]_vars PROVE Unattended'
  OBVIOUS
<1> USE DEF Unattended
<1>1. TypeOK'
  BY NextType
<1>2. Fits(Idle, status')
  BY IdleSound DEF Fits, Automatic
<1>3. ASSUME NEW c \in Calls, Request(c) PROVE Unattended'
  <2>1. PICK d : Sound(d) /\ Decide(c, d) /\ d.op # "change"
    BY <1>3, RequestEffect
  <2>2. status' = status /\ budget'["changes"] = 0
    BY <1>3, RequestEffect DEF Unread
  <2>3. \A e \in Calls : call'[e] = d \/ call'[e] = call[e]
    BY <2>1 DEF Decide, TypeOK
  <2>4. Fits(d, status)
    BY <2>1, SoundFits
  <2> QED BY <1>1, <2>2, <2>3, <2>4
<1>4. ASSUME NEW c \in Calls, Write(c) PROVE Unattended'
  <2>1. budget' = budget
    BY <1>4 DEF Write
  <2>2. \A e \in Calls : call'[e] = Idle \/ call'[e] = call[e]
    BY <1>4 DEF Write, TypeOK
  <2>3. \A e \in Calls : Fits(call[e], status')
    BY <1>4 DEF Fits, Write, Exists, Opening, Engaged, Automatic
  <2> QED BY <1>1, <1>2, <2>1, <2>2, <2>3
<1>5. ASSUME NEW c \in Calls, Fail(c) PROVE Unattended'
  <2>1. status' = status /\ budget'["changes"] = 0
    BY <1>5, FailEffect DEF Unread
  <2>2. \A e \in Calls : call'[e] = Idle \/ call'[e] = call[e]
    BY <1>5, FailEffect DEF TypeOK
  <2> QED BY <1>1, <1>2, <2>1, <2>2
<1>6. CASE Remove
  <2>1. budget'["changes"] = 0 /\ call' = call /\ status' = "DELETED"
    BY <1>6, SpendType DEF Remove, Limited
  <2> QED BY <1>1, <2>1 DEF Fits
<1>7. CASE UNCHANGED vars \/ \E u \in Users : Look(u)
  <2>1. UNCHANGED <<status, budget, call>>
    BY <1>7 DEF vars, Look
  <2> QED BY <1>1, <2>1
<1> QED BY <1>3, <1>4, <1>5, <1>6, <1>7 DEF Next

(* Replies, customer messages, reports of the worker and assignments never *)
(* take the status off the table, however many of them overlap: only a     *)
(* user's own change can, when it overlaps with another handler.           *)
THEOREM AutomaticMovesFollowTable ==
    ASSUME Budget["changes"] = 0
    PROVE  Spec => FollowsTable
<1>1. Init => Unattended
  BY InitType, IdleSound DEF Init, Unattended, Fits, Automatic
<1>2. Unattended /\ [Next]_vars => [Moves(status, status') => status' \in Transitions[status]]_vars
  <2> SUFFICES ASSUME Unattended, [Next]_vars, Moves(status, status')
               PROVE  status' \in Transitions[status]
    OBVIOUS
  <2>1. PICK c \in Calls : Write(c)
    BY RowChanges DEF Unattended, Remove, Moves
  <2>2. status' = call[c].status /\ call[c].status \in Automatic \ {"SAME"} /\ Exists
        /\ status \in Statuses
    BY <2>1 DEF Unattended, Write, Moves, Fits, Exists, TypeOK
  <2>3. Fits(call[c], status)
    BY DEF Unattended
  <2> QED BY <2>2, <2>3, LeadingTo DEF Fits, Exists, Moves, Automatic, Opening, Engaged
<1> QED BY <1>1, <1>2, UnattendedStep, PTL DEF Spec, FollowsTable

-----------------------------------------------------------------------------
(* Notes.                                                                  *)

LEMMA AppendedRows ==
    ASSUME NEW rows \in Seq(Row), NEW more \in Seq(Row)
    PROVE  /\ DOMAIN rows = 1..Len(rows) /\ Len(rows) \in Nat
           /\ DOMAIN (rows \o more) = 1..(Len(rows) + Len(more))
           /\ \A i \in DOMAIN rows : i \in DOMAIN (rows \o more) /\ (rows \o more)[i] = rows[i]
           /\ \A i \in DOMAIN (rows \o more) :
                 i \notin DOMAIN rows => /\ i > Len(rows) /\ i - Len(rows) \in DOMAIN more
                                        /\ (rows \o more)[i] = more[i - Len(rows)]
           /\ \A i \in DOMAIN more : /\ i + Len(rows) \in DOMAIN (rows \o more)
                                     /\ (rows \o more)[i + Len(rows)] = more[i]
<1>1. Len(rows \o more) = Len(rows) + Len(more) /\ rows \o more \in Seq(Row)
  BY ConcatProperties
<1>2. /\ Len(rows) \in Nat /\ Len(more) \in Nat /\ DOMAIN rows = 1..Len(rows)
      /\ DOMAIN more = 1..Len(more) /\ DOMAIN (rows \o more) = 1..(Len(rows) + Len(more))
  BY <1>1
<1>3. \A i \in 1..(Len(rows) + Len(more)) :
         (rows \o more)[i] = IF i <= Len(rows) THEN rows[i] ELSE more[i - Len(rows)]
  BY ConcatProperties
<1>4. \A i \in DOMAIN rows : i \in DOMAIN (rows \o more) /\ (rows \o more)[i] = rows[i]
  BY <1>2, <1>3
<1>5. ASSUME NEW i \in DOMAIN (rows \o more), i \notin DOMAIN rows
      PROVE  /\ i > Len(rows) /\ i - Len(rows) \in DOMAIN more
             /\ (rows \o more)[i] = more[i - Len(rows)]
  BY <1>2, <1>3, <1>5
<1>6. ASSUME NEW i \in DOMAIN more
      PROVE  i + Len(rows) \in DOMAIN (rows \o more) /\ (rows \o more)[i + Len(rows)] = more[i]
  BY <1>2, <1>3
<1> QED BY <1>2, <1>4, <1>5, <1>6

LEMMA TellingFinite ==
    ASSUME NEW rows \in Seq(Row)
    PROVE  IsFiniteSet(Telling(rows)) /\ Cardinality(Telling(rows)) \in Nat
<1>1. Telling(rows) \subseteq 1..Len(rows) /\ Len(rows) \in Nat
  BY DEF Telling
<1>2. IsFiniteSet(1..Len(rows))
  BY <1>1, FS_Interval
<1> QED BY <1>1, <1>2, FS_Subset, FS_CardinalityType

(* Rows without a note leave the count alone, the row of a note adds one.  *)
LEMMA TellingNothing ==
    ASSUME NEW rows \in Seq(Row), NEW more \in Seq(Row),
           \A i \in DOMAIN more : more[i].type # "NOTE_ADDED"
    PROVE  Telling(rows \o more) = Telling(rows)
BY AppendedRows DEF Telling

LEMMA TellingOne ==
    ASSUME NEW rows \in Seq(Row)
    PROVE  Cardinality(Telling(rows \o <<PlainRow("NOTE_ADDED")>>)) = Cardinality(Telling(rows)) + 1
<1> DEFINE more == <<PlainRow("NOTE_ADDED")>>
<1>1. more \in Seq(Row) /\ DOMAIN more = {1} /\ more[1].type = "NOTE_ADDED"
  BY DEF PlainRow, Row, Events
<1> HIDE DEF more
<1>2. Len(rows) + 1 \notin Telling(rows) /\ Len(rows) \in Nat
  BY DEF Telling
<1>3. Telling(rows \o more) = Telling(rows) \cup {Len(rows) + 1}
  <2>1. Len(rows) + 1 \in Telling(rows \o more)
    <3>1. 1 + Len(rows) \in DOMAIN (rows \o more) /\ (rows \o more)[1 + Len(rows)] = more[1]
      BY <1>1, AppendedRows
    <3> QED BY <1>1, <1>2, <3>1 DEF Telling
  <2>2. ASSUME NEW i \in Telling(rows)
        PROVE  i \in Telling(rows \o more)
    BY <1>1, AppendedRows DEF Telling
  <2>3. ASSUME NEW i \in Telling(rows \o more), i \notin Telling(rows)
        PROVE  i = Len(rows) + 1
    <3>1. i \in DOMAIN (rows \o more) /\ i \notin DOMAIN rows
      BY <1>1, <2>3, AppendedRows DEF Telling
    <3>2. i - Len(rows) = 1 /\ i \in Int
      BY <1>1, <3>1, AppendedRows
    <3> QED BY <1>2, <3>2
  <2> QED BY <2>1, <2>2, <2>3
<1>4. Cardinality(Telling(rows) \cup {Len(rows) + 1}) = Cardinality(Telling(rows)) + 1
  BY <1>2, TellingFinite, FS_AddElement
<1> QED BY <1>3, <1>4 DEF more

(* What a handler decided to tell, whatever happens to the row since.      *)
TellsOfNotes(u) ==
    /\ u.op = "note" => u.rows = <<PlainRow("NOTE_ADDED")>>
    /\ u.op # "note" => \A i \in DOMAIN u.rows : u.rows[i].type # "NOTE_ADDED"
NotesInv ==
    /\ TypeOK
    /\ \A c \in Calls : TellsOfNotes(call[c])
    /\ IsFiniteSet(Noting)
    /\ NotesOnTimeline

LEMMA SoundTellsOfNotes ==
    ASSUME NEW u, Sound(u)
    PROVE  TellsOfNotes(u)
<1>1. CASE u.op = "edit"
  <2>1. u.rows = TagRows(tags, u.tags)
    BY <1>1 DEF Sound, Tells
  <2>2. PICK r : r.type = "TAGS" /\ (u.rows = <<>> \/ u.rows = <<r>>)
    <3> DEFINE r == [PlainRow("TAGS") EXCEPT !.added = u.tags \ tags, !.removed = tags \ u.tags]
    <3>1. r.type = "TAGS"
      BY DEF PlainRow
    <3>2. u.rows = <<>> \/ u.rows = <<r>>
      BY <2>1 DEF TagRows
    <3> QED BY <3>1, <3>2
  <2>3. \A i \in DOMAIN u.rows : u.rows[i].type # "NOTE_ADDED"
    BY <2>2
  <2> QED BY <1>1, <2>3 DEF TellsOfNotes
<1>2. CASE u.op = "note"
  BY <1>2 DEF Sound, Tells, TellsOfNotes
<1>3. CASE u.op \notin {"note", "edit"}
  BY <1>3 DEF Sound, Tells, TellsOfNotes, Quiet, OfNoTag
<1> QED BY <1>1, <1>2, <1>3

(* A handler starts to add a note, or stops.                               *)
LEMMA NotingStarts ==
    ASSUME TypeOK, IsFiniteSet(Noting), NEW c \in Calls, NEW d, Decide(c, d)
    PROVE  /\ IsFiniteSet(Noting')
           /\ Cardinality(Noting') = Cardinality(Noting) + (IF d.op = "note" THEN 1 ELSE 0)
           /\ Cardinality(Noting) \in Nat
<1>1. /\ DOMAIN call = Calls /\ DOMAIN call' = Calls /\ c \notin Noting
      /\ \A e \in Calls : call'[e] = IF e = c THEN d ELSE call[e]
  BY IdleSound DEF Decide, TypeOK, Noting
<1>2. CASE d.op = "note"
  <2>1. Noting' = Noting \cup {c}
    BY <1>1, <1>2 DEF Noting
  <2> QED BY <1>1, <1>2, <2>1, FS_AddElement, FS_CardinalityType
<1>3. CASE d.op # "note"
  <2>1. Noting' = Noting
    BY <1>1, <1>3 DEF Noting
  <2> QED BY <1>3, <2>1, FS_CardinalityType
<1> QED BY <1>2, <1>3

LEMMA NotingStops ==
    ASSUME TypeOK, IsFiniteSet(Noting), NEW c \in Calls, call' = [call EXCEPT ![c] = Idle]
    PROVE  /\ IsFiniteSet(Noting')
           /\ Cardinality(Noting) = Cardinality(Noting') + (IF call[c].op = "note" THEN 1 ELSE 0)
           /\ Cardinality(Noting') \in Nat
<1>1. /\ DOMAIN call = Calls /\ DOMAIN call' = Calls
      /\ \A e \in Calls : call'[e] = IF e = c THEN Idle ELSE call[e]
  BY DEF TypeOK
<1>2. c \notin Noting'
  BY <1>1, IdleSound DEF Noting
<1>3. CASE call[c].op = "note"
  <2>1. Noting = Noting' \cup {c}
    BY <1>1, <1>3, IdleSound DEF Noting
  <2>2. IsFiniteSet(Noting')
    BY <2>1, FS_Subset
  <2>3. Cardinality(Noting) = Cardinality(Noting') + 1
    BY <1>2, <2>1, <2>2, FS_AddElement
  <2> QED BY <1>3, <2>2, <2>3, FS_CardinalityType
<1>4. CASE call[c].op # "note"
  <2>1. Noting' = Noting
    BY <1>1, <1>4, IdleSound DEF Noting
  <2> QED BY <1>4, <2>1, FS_CardinalityType
<1> QED BY <1>3, <1>4

LEMMA NotesStep == NotesInv /\ [Next]_vars => NotesInv'
<1> SUFFICES ASSUME NotesInv, [Next]_vars PROVE NotesInv'
  OBVIOUS
<1> USE DEF NotesInv
<1>1. TypeOK'
  BY NextType
<1>2. notes \in Nat /\ untold \in Nat /\ timeline \in Seq(Row)
  BY DEF TypeOK
<1>3. Cardinality(Telling(timeline)) \in Nat
  BY <1>2, TellingFinite
<1>4. ASSUME NEW c \in Calls, Request(c) PROVE NotesInv'
  <2>1. /\ \E d : /\ Sound(d) /\ Decide(c, d)
                 /\ notes' = IF d.op = "note" THEN notes + 1 ELSE notes
        /\ untold' = untold /\ timeline' = timeline /\ status' = status
    BY <1>4, RequestEffect DEF Unread
  <2>2. PICK d : /\ Sound(d) /\ Decide(c, d)
                 /\ notes' = IF d.op = "note" THEN notes + 1 ELSE notes
    BY <2>1
  <2>3. \A e \in Calls : TellsOfNotes(call'[e])
    BY <2>2, SoundTellsOfNotes DEF Decide, TypeOK
  <2>4. /\ IsFiniteSet(Noting') /\ Cardinality(Noting) \in Nat
        /\ Cardinality(Noting') = Cardinality(Noting) + (IF d.op = "note" THEN 1 ELSE 0)
    BY <2>2, NotingStarts
  <2>5. Telling(timeline') = Telling(timeline)
    BY <2>1
  <2>6. NotesOnTimeline'
    BY <1>2, <1>3, <2>1, <2>2, <2>4, <2>5 DEF NotesOnTimeline, Exists
  <2> QED BY <1>1, <2>3, <2>4, <2>6
<1>5. ASSUME NEW c \in Calls, call' = [call EXCEPT ![c] = Idle]
      PROVE  /\ \A e \in Calls : TellsOfNotes(call'[e])
             /\ IsFiniteSet(Noting') /\ Cardinality(Noting') \in Nat
             /\ Cardinality(Noting) = Cardinality(Noting') + (IF call[c].op = "note" THEN 1 ELSE 0)
  BY <1>5, NotingStops, IdleSound, SoundTellsOfNotes DEF TypeOK
<1>6. ASSUME NEW c \in Calls, Write(c) PROVE NotesInv'
  <2>1. /\ call' = [call EXCEPT ![c] = Idle] /\ timeline' = timeline \o call[c].rows
        /\ notes' = notes /\ untold' = untold /\ Exists
    BY <1>6 DEF Write, noted
  <2>2. call[c].rows \in Seq(Row) /\ TellsOfNotes(call[c])
    BY DEF TypeOK, Update
  <2>3. Cardinality(Telling(timeline')) = Cardinality(Telling(timeline)) + (IF call[c].op = "note" THEN 1 ELSE 0)
    <3>1. CASE call[c].op = "note"
      BY <1>2, <2>1, <2>2, <3>1, TellingOne DEF TellsOfNotes
    <3>2. CASE call[c].op # "note"
      <4>1. Telling(timeline') = Telling(timeline)
        BY <1>2, <2>1, <2>2, <3>2, TellingNothing DEF TellsOfNotes
      <4> QED BY <1>3, <3>2, <4>1
    <3> QED BY <3>1, <3>2
  <2>4. NotesOnTimeline'
    <3>1. Cardinality(Noting') \in Nat
          /\ Cardinality(Noting) = Cardinality(Noting') + (IF call[c].op = "note" THEN 1 ELSE 0)
      BY <1>5, <2>1
    <3>2. notes = Cardinality(Telling(timeline)) + Cardinality(Noting) + untold
      BY <2>1 DEF NotesOnTimeline
    <3>3. notes = Cardinality(Telling(timeline')) + Cardinality(Noting') + untold
      <4>1. CASE call[c].op = "note"
        BY <1>2, <1>3, <2>3, <3>1, <3>2, <4>1
      <4>2. CASE call[c].op # "note"
        BY <1>2, <1>3, <2>3, <3>1, <3>2, <4>2
      <4> QED BY <4>1, <4>2
    <3> QED BY <2>1, <3>3 DEF NotesOnTimeline
  <2> QED BY <1>1, <1>5, <2>1, <2>4
<1>7. ASSUME NEW c \in Calls, Fail(c) PROVE NotesInv'
  <2>1. /\ call' = [call EXCEPT ![c] = Idle] /\ timeline' = timeline /\ notes' = notes
        /\ untold' = (IF call[c].op = "note" THEN untold + 1 ELSE untold) /\ status' = status
    BY <1>7, FailEffect DEF Unread
  <2>2. Telling(timeline') = Telling(timeline)
    BY <2>1
  <2>3. NotesOnTimeline'
    <3> SUFFICES ASSUME Exists'
                 PROVE  notes' = Cardinality(Telling(timeline')) + Cardinality(Noting') + untold'
      BY DEF NotesOnTimeline
    <3>1. Cardinality(Noting') \in Nat
          /\ Cardinality(Noting) = Cardinality(Noting') + (IF call[c].op = "note" THEN 1 ELSE 0)
      BY <1>5, <2>1
    <3>2. notes = Cardinality(Telling(timeline)) + Cardinality(Noting) + untold
      BY <2>1 DEF NotesOnTimeline, Exists
    <3>3. CASE call[c].op = "note"
      BY <1>2, <1>3, <2>1, <2>2, <3>1, <3>2, <3>3
    <3>4. CASE call[c].op # "note"
      BY <1>2, <1>3, <2>1, <2>2, <3>1, <3>2, <3>4
    <3> QED BY <3>3, <3>4
  <2> QED BY <1>1, <1>5, <2>1, <2>3
<1>8. CASE Remove
  <2>1. call' = call /\ ~Exists'
    BY <1>8 DEF Remove, Exists
  <2> QED BY <1>1, <2>1 DEF Noting, NotesOnTimeline
<1>9. CASE UNCHANGED vars \/ \E u \in Users : Look(u)
  <2>1. UNCHANGED <<status, notes, untold, timeline, call>>
    BY <1>9 DEF vars, Look, noted
  <2> QED BY <1>1, <2>1 DEF Noting, NotesOnTimeline, Exists, Telling
<1> QED BY <1>4, <1>6, <1>7, <1>8, <1>9 DEF Next

LEMMA NotesInit == Init => NotesInv
<1> SUFFICES ASSUME Init PROVE NotesInv
  OBVIOUS
<1>1. \A c \in Calls : TellsOfNotes(call[c])
  BY IdleSound, SoundTellsOfNotes DEF Init
<1>2. Noting = {} /\ Telling(timeline) = {} /\ notes = 0 /\ untold = 0
  BY IdleSound DEF Init, Noting, Telling
<1>3. IsFiniteSet(Noting) /\ NotesOnTimeline
  BY <1>2, FS_EmptySet DEF NotesOnTimeline
<1> QED BY <1>1, <1>3, InitType DEF NotesInv

(* However handlers overlap and fail, a note is on the timeline unless it  *)
(* is being added or its handler failed between its two writes.            *)
THEOREM NotesAreTold == Spec => []NotesOnTimeline
<1>1. NotesInv => NotesOnTimeline
  BY DEF NotesInv
<1> QED BY <1>1, NotesInit, NotesStep, PTL DEF Spec

-----------------------------------------------------------------------------
(* Tags.                                                                   *)

LEMMA IsReplayed ==
    ASSUME NEW rows, NEW t
    PROVE  t \in Replayed(rows) <=>
              \E i \in DOMAIN rows :
                  /\ t \in rows[i].added
                  /\ \A k \in DOMAIN rows : k > i => t \notin rows[k].removed
BY DEF Replayed

(* Rows that mention no tag replay to nothing; the row that updateTags     *)
(* makes of the tags it read and the tags it was given takes one to the    *)
(* other.                                                                  *)
LEMMA QuietReplay ==
    ASSUME NEW rows \in Seq(Row), NEW more \in Seq(Row), OfNoTag(more)
    PROVE  Replayed(rows \o more) = Replayed(rows)
<1>1. ASSUME NEW t \in Replayed(rows) PROVE t \in Replayed(rows \o more)
  <2>1. PICK i \in DOMAIN rows : /\ t \in rows[i].added
                                /\ \A k \in DOMAIN rows : k > i => t \notin rows[k].removed
    BY IsReplayed
  <2>2. i \in DOMAIN (rows \o more) /\ t \in (rows \o more)[i].added
    BY <2>1, AppendedRows
  <2>3. ASSUME NEW k \in DOMAIN (rows \o more), k > i PROVE t \notin (rows \o more)[k].removed
    BY <2>1, <2>3, AppendedRows DEF OfNoTag
  <2> QED BY <2>2, <2>3, IsReplayed
<1>2. ASSUME NEW t \in Replayed(rows \o more) PROVE t \in Replayed(rows)
  <2>1. PICK i \in DOMAIN (rows \o more) :
           /\ t \in (rows \o more)[i].added
           /\ \A k \in DOMAIN (rows \o more) : k > i => t \notin (rows \o more)[k].removed
    BY IsReplayed
  <2>2. i \in DOMAIN rows /\ t \in rows[i].added
    BY <2>1, AppendedRows DEF OfNoTag
  <2>3. ASSUME NEW k \in DOMAIN rows, k > i PROVE t \notin rows[k].removed
    BY <2>1, <2>3, AppendedRows
  <2> QED BY <2>2, <2>3, IsReplayed
<1> QED BY <1>1, <1>2

LEMMA TagsReplay ==
    ASSUME NEW rows \in Seq(Row), NEW new \in SUBSET Tags, Replayed(rows) \in SUBSET Tags
    PROVE  Replayed(rows \o TagRows(Replayed(rows), new)) = new
<1> DEFINE old == Replayed(rows)
<1>1. CASE old = new
  <2>1. TagRows(old, new) = <<>>
    BY <1>1 DEF TagRows
  <2> QED BY <1>1, <2>1, NoRowType, QuietReplay
<1>2. CASE old # new
  <2> DEFINE r == [PlainRow("TAGS") EXCEPT !.added = new \ old, !.removed = old \ new]
             more == <<r>>
             last == Len(rows) + 1
  <2>1. TagRows(old, new) = more /\ r.added = new \ old /\ r.removed = old \ new
    BY <1>2 DEF TagRows, PlainRow
  <2>2. more \in Seq(Row)
    BY <1>2, <2>1, TagRowsType
  <2>3. DOMAIN more = {1} /\ more[1] = r
    OBVIOUS
  <2> HIDE DEF r, more
  <2>4. /\ DOMAIN rows = 1..Len(rows) /\ Len(rows) \in Nat
        /\ last \in DOMAIN (rows \o more) /\ (rows \o more)[last] = r
        /\ \A i \in DOMAIN rows : i \in DOMAIN (rows \o more) /\ (rows \o more)[i] = rows[i]
        /\ \A i \in DOMAIN (rows \o more) : i \in DOMAIN rows \/ i = last
    <3>1. \A i \in DOMAIN (rows \o more) : i \notin DOMAIN rows => i - Len(rows) = 1 /\ i \in Int
      BY <2>2, <2>3, AppendedRows
    <3>2. 1 + Len(rows) \in DOMAIN (rows \o more) /\ (rows \o more)[1 + Len(rows)] = r
      BY <2>2, <2>3, AppendedRows
    <3>3. /\ DOMAIN rows = 1..Len(rows) /\ Len(rows) \in Nat
          /\ \A i \in DOMAIN rows : i \in DOMAIN (rows \o more) /\ (rows \o more)[i] = rows[i]
      BY <2>2, AppendedRows
    <3> QED BY <3>1, <3>2, <3>3
  <2> HIDE DEF last
  <2>5. \A i \in DOMAIN rows : i < last
    BY <2>4 DEF last
  <2>6. last \in Int
    BY <2>4 DEF last
  <2>7. ASSUME NEW t \in new PROVE t \in Replayed(rows \o more)
    <3>1. CASE t \in old
      <4>1. PICK i \in DOMAIN rows : /\ t \in rows[i].added
                                    /\ \A k \in DOMAIN rows : k > i => t \notin rows[k].removed
        BY <3>1, IsReplayed
      <4>2. ASSUME NEW k \in DOMAIN (rows \o more), k > i PROVE t \notin (rows \o more)[k].removed
        BY <2>1, <2>4, <4>1, <4>2
      <4> QED BY <2>4, <4>1, <4>2, IsReplayed
    <3>2. CASE t \notin old
      <4>1. t \in (rows \o more)[last].added
        BY <2>1, <2>4, <3>2
      <4>2. \A k \in DOMAIN (rows \o more) : ~(k > last)
        BY <2>4, <2>5, <2>6
      <4> QED BY <2>4, <4>1, <4>2, IsReplayed
    <3> QED BY <3>1, <3>2
  <2>8. ASSUME NEW t \in Replayed(rows \o more) PROVE t \in new
    <3>1. PICK i \in DOMAIN (rows \o more) :
             /\ t \in (rows \o more)[i].added
             /\ \A k \in DOMAIN (rows \o more) : k > i => t \notin (rows \o more)[k].removed
      BY IsReplayed
    <3>2. CASE i = last
      BY <2>1, <2>4, <3>1, <3>2
    <3>3. CASE i \in DOMAIN rows
      <4>1. t \in rows[i].added /\ \A k \in DOMAIN rows : k > i => t \notin rows[k].removed
        BY <2>4, <3>1, <3>3
      <4>2. t \in old
        BY <3>3, <4>1, IsReplayed
      <4>3. last > i
        BY <2>4, <2>5, <2>6, <3>3
      <4>4. t \notin r.removed
        BY <2>4, <3>1, <4>3
      <4> QED BY <2>1, <4>2, <4>4
    <3> QED BY <2>4, <3>2, <3>3
  <2> QED BY <2>1, <2>7, <2>8
<1> QED BY <1>1, <1>2

(* One handler at a time: its rows start from the tags the row still has.  *)
Alone == \A c, d \in Calls : c = d
SerialInv ==
    /\ TypeOK
    /\ Alone => Undisturbed /\ TagsMatchTimeline

LEMMA SerialStep == SerialInv /\ [Next]_vars => SerialInv'
<1> SUFFICES ASSUME SerialInv, [Next]_vars PROVE SerialInv'
  OBVIOUS
<1>1. TypeOK /\ TypeOK'
  BY NextType DEF SerialInv
<1> SUFFICES ASSUME Alone PROVE Undisturbed' /\ TagsMatchTimeline'
  BY <1>1 DEF SerialInv, Alone
<1>2. Undisturbed /\ TagsMatchTimeline /\ Undisturbed'
  BY UndisturbedStep DEF SerialInv, Alone
<1>3. ASSUME NEW c \in Calls, Request(c) \/ Fail(c) PROVE UNCHANGED <<status, tags, timeline>>
  BY <1>1, <1>3, RequestEffect, FailEffect DEF Unread
<1>4. ASSUME NEW c \in Calls, Write(c) PROVE TagsMatchTimeline'
  <2> DEFINE u == call[c]
  <2>1. /\ timeline' = timeline \o u.rows /\ tags' = (IF u.op = "edit" THEN u.tags ELSE tags)
        /\ Exists
    BY <1>4 DEF Write
  <2>2. /\ u.rows \in Seq(Row) /\ u.tags \in SUBSET Tags /\ timeline \in Seq(Row)
        /\ tags \in SUBSET Tags /\ tags = Replayed(timeline)
    BY <1>1, <1>2, <2>1 DEF TypeOK, Update, TagsMatchTimeline
  <2>3. Tells(u)
    BY <1>2, <2>1 DEF Undisturbed, Sound
  <2> HIDE DEF u
  <2>4. CASE u.op = "edit"
    <3>1. u.rows = TagRows(Replayed(timeline), u.tags)
      BY <2>2, <2>3, <2>4 DEF Tells
    <3>2. Replayed(timeline \o u.rows) = u.tags
      BY <2>2, <3>1, TagsReplay
    <3>3. Replayed(timeline') = tags'
      BY <2>1, <2>4, <3>2
    <3> QED BY <3>3 DEF TagsMatchTimeline, Replayed
  <2>5. CASE u.op # "edit"
    <3>1. OfNoTag(u.rows)
      <4>1. CASE u.op = "note"
        <5>1. u.rows = <<PlainRow("NOTE_ADDED")>>
          BY <2>3, <4>1 DEF Tells
        <5>2. PlainRow("NOTE_ADDED").added = {} /\ PlainRow("NOTE_ADDED").removed = {}
          BY DEF PlainRow
        <5> QED BY <5>1, <5>2 DEF OfNoTag
      <4> QED BY <2>3, <2>5, <4>1 DEF Tells, Quiet, OfNoTag
    <3>2. Replayed(timeline \o u.rows) = Replayed(timeline)
      BY <2>2, <3>1, QuietReplay
    <3>3. Replayed(timeline') = tags'
      BY <2>1, <2>2, <2>5, <3>2
    <3> QED BY <3>3 DEF TagsMatchTimeline, Replayed
  <2> QED BY <2>4, <2>5
<1>5. CASE UNCHANGED <<status, tags, timeline>>
  BY <1>2, <1>5 DEF TagsMatchTimeline, Exists, Replayed
<1>6. CASE Remove
  BY <1>2, <1>6 DEF Remove, TagsMatchTimeline, Exists
<1>7. CASE UNCHANGED vars \/ \E u \in Users : Look(u)
  BY <1>5, <1>7 DEF vars, Look
<1> QED BY <1>2, <1>3, <1>4, <1>5, <1>6, <1>7 DEF Next

LEMMA SerialInit == Init => SerialInv
<1> SUFFICES ASSUME Init PROVE SerialInv
  OBVIOUS
<1>1. Undisturbed
  BY InitType, IdleSound DEF Init, Undisturbed
<1>2. tags = {} /\ timeline = <<>>
  BY DEF Init
<1>3. Replayed(timeline) = {}
  BY <1>2 DEF Replayed
<1> QED BY <1>1, <1>2, <1>3, InitType DEF SerialInv, TagsMatchTimeline

(* The timeline tells of every note, however handlers overlap, and adds up *)
(* to the tags while they do not.                                          *)
THEOREM TimelineIsComplete == Spec => []TimelineTellsAll
<1>1. NotesInv /\ SerialInv => TimelineTellsAll
  <2> SUFFICES ASSUME SerialInv, OneAtATime PROVE TagsMatchTimeline
    BY DEF NotesInv, TimelineTellsAll
  <2>1. Alone
    BY DEF SerialInv, TypeOK, OneAtATime, Alone
  <2> QED BY <2>1 DEF SerialInv
<1> QED BY <1>1, NotesInit, NotesStep, SerialInit, SerialStep, PTL DEF Spec

(* While handlers do not overlap, a user's change is written on the        *)
(* version its author saw, and firstResponseAt is set once.                *)
THEOREM SerialHandlersAreSafe == Spec => SerialHandlersKeep
<1>1. SerialInv /\ [Next]_vars => [OneAtATime => OnSeenVersion /\ KeepsFirstResponse]_vars
  <2> SUFFICES ASSUME SerialInv, [Next]_vars, OneAtATime
               PROVE  OnSeenVersion /\ KeepsFirstResponse
    OBVIOUS
  <2>1. Undisturbed
    BY DEF SerialInv, TypeOK, OneAtATime, Alone
  <2>2. OnSeenVersion
    BY <2>1 DEF Undisturbed, TypeOK, OnSeenVersion, Writes, Sound
  <2>3. KeepsFirstResponse
    <3> SUFFICES ASSUME firstResponse # 0 PROVE firstResponse' = firstResponse
      BY DEF KeepsFirstResponse
    <3>1. CASE \E c \in Calls : Write(c)
      BY <2>1, <3>1 DEF Undisturbed, Write, Sound
    <3> QED BY <2>1, <3>1, RowChanges DEF Undisturbed, Remove, thread
  <2> QED BY <2>2, <2>3
<1> QED BY <1>1, SerialInit, SerialStep, PTL DEF Spec, SerialHandlersKeep
=============================================================================
