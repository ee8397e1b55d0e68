------------------------------ MODULE Enquiry -------------------------------
(***************************************************************************)
(* One Enquiry row and the handlers that change it: EnquiryService, the    *)
(* ingestion of a customer's reply, and the worker that reports a message  *)
(* sent.  Every handler reads the row, decides what to write from what it  *)
(* read, and writes after one or more awaits by the row's id alone.  So a  *)
(* handler is two steps: an action of its own that reads and decides, and  *)
(* Write, which applies whatever was decided.  In between, handlers of     *)
(* other requests run.                                                     *)
(***************************************************************************)
EXTENDS Integers, Sequences, FiniteSets

CONSTANTS
    Users,     \* staff, both as authors of requests and as assignees
    Nobody,    \* assignedToId is null
    Tags,      \* tags an enquiry may carry
    Calls,     \* slots for handlers in progress
    Starting,  \* statuses the row may have when the process starts
    Budget     \* bounds on the requests that arrive: see Limited

Statuses == {"NEW", "OPEN", "IN_PROGRESS", "AWAITING_CUSTOMER", "QUOTATION_SENT",
             "FOLLOW_UP", "STALE", "CONVERTED", "CLOSED_LOST"}

Limited == {
    "changes",      \* calls of statusChange that pass its checks
    "assignments",  \* calls of assign
    "edits",        \* calls of updateTags
    "notes",        \* calls of addNote
    "replies",      \* calls of sendMessage
    "outbound",     \* calls of addOutboundMessage and addAiReply
    "reports",      \* messages the outbound worker reports sent
    "inbound",      \* customer messages
    "removals",     \* deletions of the enquiry
    "faults"}       \* failures between the read and the write of a handler
Budgets == [Limited -> Nat]

ASSUME EnquiryAssumption ==
    /\ Nobody \notin Users
    /\ Starting \subseteq Statuses
    /\ Budget \in Budgets

VARIABLES
    status,         \* the row's status, "DELETED" when the row is gone
    version,        \* its version, counted from the first one seen here
    assignee,       \* assignedToId
    tags,           \* tags
    firstResponse,  \* which outbound message set firstResponseAt, 0 for null
    outbound,       \* outbound messages stored so far
    lastMessage,    \* direction of the latest message of the thread
    notes,          \* InternalNote rows
    untold,         \* those of them whose addNote failed before its timeline row
    timeline,       \* EnquiryTimeline rows, oldest first
    seen,           \* version and status each user's page shows
    call,           \* handlers in progress and what they will write
    budget          \* what is left of Budget

thread == <<firstResponse, outbound, lastMessage>>
noted == <<notes, untold>>
vars == <<status, version, assignee, tags, thread, noted, timeline, seen, call, budget>>

(* One row per event; the TAG_ADDED and TAG_REMOVED rows that one call     *)
(* creates together are one row here.                                      *)
Events == {"STATUS_CHANGED", "REOPENED", "ASSIGNED", "REASSIGNED", "TAGS",
           "MESSAGE_SENT", "NOTE_ADDED"}
Row == [type: Events, from: Statuses \cup {"NONE"}, to: Statuses \cup {"NONE"},
        added: SUBSET Tags, removed: SUBSET Tags]
PlainRow(type) ==
    [type |-> type, from |-> "NONE", to |-> "NONE", added |-> {}, removed |-> {}]
StatusRow(type, s, t) == [PlainRow(type) EXCEPT !.from = s, !.to = t]

(* What a handler decided to write.  "SAME" and Nobody leave the column    *)
(* alone; tags are written by updateTags only.                             *)
Op == {"idle", "change", "assign", "edit", "note", "send", "report", "inbound"}
Update == [op: Op, by: Users \cup {Nobody}, base: Int,
           status: Statuses \cup {"SAME"}, bump: BOOLEAN,
           assignee: Users \cup {Nobody}, tags: SUBSET Tags,
           responds: BOOLEAN, rows: Seq(Row)]
NoUpdate(op) ==
    [op |-> op, by |-> Nobody, base |-> 0, status |-> "SAME", bump |-> FALSE,
     assignee |-> Nobody, tags |-> {}, responds |-> FALSE, rows |-> <<>>]
Idle == NoUpdate("idle")

TypeOK ==
    /\ status \in Statuses \cup {"DELETED"}
    /\ version \in Nat
    /\ assignee \in Users \cup {Nobody}
    /\ tags \in SUBSET Tags
    /\ firstResponse \in Nat
    /\ outbound \in Nat
    /\ lastMessage \in {"INBOUND", "OUTBOUND"}
    /\ notes \in Nat
    /\ untold \in Nat
    /\ timeline \in Seq(Row)
    /\ seen \in [Users -> [version: Nat, status: Statuses]]
    /\ call \in [Calls -> Update]
    /\ budget \in Budgets

(* An enquiry in one of the statuses, with nobody working on it: it was    *)
(* created by a customer's message, or was left so by an earlier process.  *)
Init ==
    /\ status \in Starting
    /\ version = 1
    /\ assignee = Nobody
    /\ tags = {}
    /\ firstResponse = 0
    /\ outbound = 0
    /\ lastMessage = "INBOUND"
    /\ notes = 0
    /\ untold = 0
    /\ timeline = <<>>
    /\ seen = [u \in Users |-> [version |-> 1, status |-> status]]
    /\ call = [c \in Calls |-> Idle]
    /\ budget = Budget

-----------------------------------------------------------------------------
(* enquiry.state.ts *)

Transitions ==
    [NEW               |-> {"OPEN", "IN_PROGRESS", "CLOSED_LOST"},
     OPEN              |-> {"IN_PROGRESS", "QUOTATION_SENT", "FOLLOW_UP",
                            "CONVERTED", "CLOSED_LOST"},
     IN_PROGRESS       |-> {"AWAITING_CUSTOMER", "QUOTATION_SENT", "FOLLOW_UP",
                            "CONVERTED", "CLOSED_LOST"},
     AWAITING_CUSTOMER |-> {"IN_PROGRESS", "FOLLOW_UP", "STALE",
                            "CONVERTED", "CLOSED_LOST"},
     QUOTATION_SENT    |-> {"IN_PROGRESS", "FOLLOW_UP", "AWAITING_CUSTOMER",
                            "CONVERTED", "CLOSED_LOST"},
     FOLLOW_UP         |-> {"IN_PROGRESS", "AWAITING_CUSTOMER", "STALE",
                            "CONVERTED", "CLOSED_LOST"},
     STALE             |-> {"IN_PROGRESS", "OPEN", "FOLLOW_UP", "CLOSED_LOST"},
     CONVERTED         |-> {},
     CLOSED_LOST       |-> {"OPEN"}]

Closed == {"CONVERTED", "CLOSED_LOST"}
Exists == status # "DELETED"

-----------------------------------------------------------------------------
(* Handlers: read the row, check, decide.                                  *)

Spend(what) ==
    /\ budget[what] > 0
    /\ budget' = [budget EXCEPT ![what] = @ - 1]

Decide(c, u) ==
    /\ call[c] = Idle
    /\ Exists
    /\ call' = [call EXCEPT ![c] = u]

Unread == UNCHANGED <<status, version, assignee, tags, thread, timeline, seen>>

(* A user's page loads the enquiry. *)
Look(u) ==
    /\ Exists
    /\ seen' = [seen EXCEPT ![u] = [version |-> version, status |-> status]]
    /\ UNCHANGED <<status, version, assignee, tags, thread, noted, timeline, call, budget>>

(* Mutant of UpToDate: any version up to the row's passes. *)
NotFromTheFuture(u) == seen[u].version <= version

(* The request carries the version of the page it was made on. *)
UpToDate(u) == seen[u].version = version

(* statusChange: a version conflict and a transition the table does not    *)
(* list are refused and change nothing.                                    *)
StatusChange(c, u, s) ==
    /\ UpToDate(u)
    /\ Exists /\ s \in Transitions[status]
    /\ Decide(c, [NoUpdate("change") EXCEPT
                    !.by = u, !.base = seen[u].version, !.status = s, !.bump = TRUE,
                    !.rows = <<StatusRow("STATUS_CHANGED", status, s)>>])
    /\ Spend("changes")
    /\ UNCHANGED noted /\ Unread

(* assign: opens a NEW enquiry. *)
Assign(c, u, to) ==
    /\ UpToDate(u)
    /\ Decide(c, [NoUpdate("assign") EXCEPT
                    !.by = u, !.base = seen[u].version, !.assignee = to, !.bump = TRUE,
                    !.status = IF status = "NEW" THEN "OPEN" ELSE "SAME",
                    !.rows = <<PlainRow(IF assignee = Nobody THEN "ASSIGNED"
                                                             ELSE "REASSIGNED")>>])
    /\ Spend("assignments")
    /\ UNCHANGED noted /\ Unread

(* Mutant of TagRows: removed tags are not recorded. *)
OnlyAdditions(old, new) == <<[PlainRow("TAGS") EXCEPT !.added = new \ old]>>

(* updateTags: the rows record the difference from the tags just read. *)
TagRows(old, new) ==
    IF old = new THEN <<>>
    ELSE <<[PlainRow("TAGS") EXCEPT !.added = new \ old, !.removed = old \ new]>>

UpdateTags(c, new) ==
    /\ Decide(c, [NoUpdate("edit") EXCEPT !.tags = new, !.rows = TagRows(tags, new)])
    /\ Spend("edits")
    /\ UNCHANGED noted /\ Unread

(* Mutant of AddNote: no timeline row. *)
NoteByItself(c) ==
    /\ Decide(c, NoUpdate("note"))
    /\ notes' = notes + 1 /\ untold' = untold
    /\ Spend("notes")
    /\ Unread

(* addNote: the note is created first, its timeline row in a later write. *)
AddNote(c) ==
    /\ Decide(c, [NoUpdate("note") EXCEPT !.rows = <<PlainRow("NOTE_ADDED")>>])
    /\ notes' = notes + 1 /\ untold' = untold
    /\ Spend("notes")
    /\ Unread

(* Mutant of SendMessage: every reply waits for the customer. *)
WaitAfterAnyReply(c) ==
    /\ Decide(c, [NoUpdate("send") EXCEPT
                    !.status = "AWAITING_CUSTOMER", !.responds = (firstResponse = 0),
                    !.rows = <<PlainRow("MESSAGE_SENT")>>])
    /\ Spend("replies")
    /\ UNCHANGED noted /\ Unread

(* sendMessage: waits for the customer if the enquiry was in progress. *)
SendMessage(c) ==
    /\ Decide(c, [NoUpdate("send") EXCEPT
                    !.status = IF status = "IN_PROGRESS" THEN "AWAITING_CUSTOMER" ELSE "SAME",
                    !.responds = (firstResponse = 0),
                    !.rows = <<PlainRow("MESSAGE_SENT")>>])
    /\ Spend("replies")
    /\ UNCHANGED noted /\ Unread

(* Mutant of AddOutboundMessage: every message is the first response. *)
RespondEachTime(c) ==
    /\ Decide(c, [NoUpdate("send") EXCEPT
                    !.responds = TRUE, !.rows = <<PlainRow("MESSAGE_SENT")>>])
    /\ Spend("outbound")
    /\ UNCHANGED noted /\ Unread

(* addOutboundMessage and addAiReply: leave the status to the worker. *)
AddOutboundMessage(c) ==
    /\ Decide(c, [NoUpdate("send") EXCEPT
                    !.responds = (firstResponse = 0),
                    !.rows = <<PlainRow("MESSAGE_SENT")>>])
    /\ Spend("outbound")
    /\ UNCHANGED noted /\ Unread

(* Mutant of AwaitsReply: every open enquiry starts to wait. *)
AwaitsFromAnywhere(s) == s \notin {"CONVERTED", "CLOSED_LOST", "AWAITING_CUSTOMER"}

(* maybeTransitionOnOutbound: called by the outbound worker for a message  *)
(* the provider accepted; a message with two jobs is reported twice.       *)
AwaitsReply(s) == s \in {"IN_PROGRESS", "FOLLOW_UP"}

MaybeTransitionOnOutbound(c) ==
    /\ outbound > 0
    /\ AwaitsReply(status)
    /\ Decide(c, [NoUpdate("report") EXCEPT
                    !.status = "AWAITING_CUSTOMER", !.bump = TRUE,
                    !.rows = <<StatusRow("STATUS_CHANGED", status, "AWAITING_CUSTOMER")>>])
    /\ Spend("reports")
    /\ UNCHANGED noted /\ Unread

(* getStatusTransition *)
OnCustomerReply(s) ==
    CASE s = "STALE" -> "OPEN"
      [] s \in {"AWAITING_CUSTOMER", "QUOTATION_SENT", "FOLLOW_UP"} -> "IN_PROGRESS"
      [] OTHER -> "SAME"

(* ingest, the contact's enquiry is active: appendToExistingEnquiry. *)
AppendToExistingEnquiry(c) ==
    /\ status \notin Closed
    /\ Decide(c, [NoUpdate("inbound") EXCEPT !.status = OnCustomerReply(status)])
    /\ Spend("inbound")
    /\ UNCHANGED noted /\ Unread

(* Mutant of ReopenClosedEnquiry: a converted enquiry is reopened as well. *)
ReopenAnyClosed(c) ==
    /\ status \in Closed
    /\ Decide(c, [NoUpdate("inbound") EXCEPT
                    !.status = "OPEN", !.bump = TRUE,
                    !.rows = <<StatusRow("REOPENED", "CLOSED_LOST", "OPEN")>>])
    /\ Spend("inbound")
    /\ UNCHANGED noted /\ Unread

(* ingest, the contact's last enquiry was lost at most 30 days ago:        *)
(* reopenClosedEnquiry.                                                    *)
ReopenClosedEnquiry(c) ==
    /\ status = "CLOSED_LOST"
    /\ Decide(c, [NoUpdate("inbound") EXCEPT
                    !.status = "OPEN", !.bump = TRUE,
                    !.rows = <<StatusRow("REOPENED", "CLOSED_LOST", "OPEN")>>])
    /\ Spend("inbound")
    /\ UNCHANGED noted /\ Unread

(* handleQualified, the contact has an active enquiry by now: the message  *)
(* is appended, and the enquiry itself is left alone.                      *)
AppendQualified(c) ==
    /\ status \notin Closed
    /\ Decide(c, NoUpdate("inbound"))
    /\ Spend("inbound")
    /\ UNCHANGED noted /\ Unread

-----------------------------------------------------------------------------
(* The write of a handler: one update, or one transaction, that puts the   *)
(* columns it decided on into the row as the row is now.                   *)
Write(c) ==
    LET u == call[c] IN
    /\ u # Idle
    /\ Exists
    /\ status' = IF u.status = "SAME" THEN status ELSE u.status
    /\ version' = IF u.bump THEN version + 1 ELSE version
    /\ assignee' = IF u.assignee = Nobody THEN assignee ELSE u.assignee
    /\ tags' = IF u.op = "edit" THEN u.tags ELSE tags
    /\ outbound' = IF u.op = "send" THEN outbound + 1 ELSE outbound
    /\ firstResponse' = IF u.responds THEN outbound + 1 ELSE firstResponse
    /\ lastMessage' = CASE u.op = "send" -> "OUTBOUND"
                        [] u.op = "inbound" -> "INBOUND"
                        [] OTHER -> lastMessage
    /\ timeline' = timeline \o u.rows
    /\ call' = [call EXCEPT ![c] = Idle]
    /\ UNCHANGED <<noted, seen, budget>>

(* The write is refused because the row is gone, or the handler fails      *)
(* before it: nothing of what it decided is written.  A note that was      *)
(* being added stays.                                                      *)
Fail(c) ==
    /\ call[c] # Idle
    /\ call' = [call EXCEPT ![c] = Idle]
    /\ \/ Spend("faults")
       \/ ~Exists /\ UNCHANGED budget
    /\ untold' = IF call[c].op = "note" THEN untold + 1 ELSE untold
    /\ notes' = notes /\ Unread

(* remove and bulkDelete: notes and timeline go with the row. *)
Remove ==
    /\ Exists
    /\ Spend("removals")
    /\ status' = "DELETED"
    /\ timeline' = <<>> /\ notes' = 0 /\ untold' = 0
    /\ UNCHANGED <<version, assignee, tags, thread, seen, call>>

-----------------------------------------------------------------------------
Request(c) ==
    \/ \E u \in Users :
          \/ \E s \in Statuses : StatusChange(c, u, s)
          \/ \E to \in Users : Assign(c, u, to)
    \/ \E new \in SUBSET Tags : UpdateTags(c, new)
    \/ AddNote(c) \/ SendMessage(c) \/ AddOutboundMessage(c)
    \/ MaybeTransitionOnOutbound(c)
    \/ AppendToExistingEnquiry(c) \/ ReopenClosedEnquiry(c) \/ AppendQualified(c)

Next ==
    \/ \E u \in Users : Look(u)
    \/ \E c \in Calls : Request(c) \/ Write(c) \/ Fail(c)
    \/ Remove

Spec == Init /\ [][Next]_vars

-----------------------------------------------------------------------------
(* Properties.                                                             *)

(* Whatever mix of handlers writes it, the status moves along the table of *)
(* enquiry.state.ts.  Holds while handlers do not overlap, and for the     *)
(* handlers that move the status by themselves (replies, customer          *)
(* messages, reports of the worker, assignments) however they overlap.     *)
Moves(s, t) == s # t /\ t # "DELETED"
FollowsTable == [][Moves(status, status') => status' \in Transitions[status]]_vars

(* Each row of the timeline that names two statuses names a step of the    *)
(* table, also when the row in the database took another step meanwhile.   *)
TimelineFollowsTable ==
    \A i \in DOMAIN timeline :
        timeline[i].from # "NONE" => timeline[i].to \in Transitions[timeline[i].from]

(* The tags are what replaying the timeline gives: the enquiry has a tag   *)
(* if the last row that mentions it added it.                              *)
Replayed(rows) ==
    {t \in UNION {rows[i].added : i \in DOMAIN rows} :
        \E i \in DOMAIN rows :
            /\ t \in rows[i].added
            /\ \A k \in DOMAIN rows : k > i => t \notin rows[k].removed}
TagsMatchTimeline == Exists => tags = Replayed(timeline)

(* No note is missing from the timeline, except while it is being added,   *)
(* and those whose handler failed between the two writes.                  *)
Telling(rows) == {i \in DOMAIN rows : rows[i].type = "NOTE_ADDED"}
Noting == {c \in DOMAIN call : call[c].op = "note"}
NotesOnTimeline ==
    Exists => notes = Cardinality(Telling(timeline)) + Cardinality(Noting) + untold

(* Handlers run one at a time when there is one slot for them.             *)
OneAtATime == \A c, d \in DOMAIN call : c = d

(* EnquiryService.addNote always, updateTags one handler at a time: the    *)
(* timeline tells of every note, and its rows add up to the tags.          *)
TimelineTellsAll == NotesOnTimeline /\ (OneAtATime => TagsMatchTimeline)

(* A change made by a user is written on the version its author saw. *)
Writes(c, op) == call[c].op = op /\ call'[c] = Idle /\ Exists /\ timeline' # timeline
OnSeenVersion ==
    \A c \in DOMAIN call : Writes(c, "change") \/ Writes(c, "assign") => version = call[c].base
WrittenOnSeenVersion == [][OnSeenVersion]_vars

-----------------------------------------------------------------------------
(* What the repository's comments and documents say of this code.          *)

(* architecture.md: firstResponseAt is set once, on the first outbound     *)
(* message.                                                                *)
KeepsFirstResponse == firstResponse # 0 => firstResponse' = firstResponse
FirstResponseOnce == [][KeepsFirstResponse]_vars

(* EnquiryService.statusChange, assign and addOutboundMessage, one handler *)
(* at a time: a change is written on the version its author saw, and       *)
(* firstResponseAt is set once.                                            *)
SerialHandlersKeep == [][OneAtATime => OnSeenVersion /\ KeepsFirstResponse]_vars
=============================================================================
