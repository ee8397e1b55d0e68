# TLA+ models of BRAVI

BRAVI is a customer-enquiry desk: webhooks bring in e-mail and WhatsApp
messages, an AI service decides which of them are real enquiries, agents answer
from a shared inbox and talk to each other in a team chat, and a queue of jobs
delivers the answers.  This directory holds TLA+ models of the back end
(`src/backend`) and of the parts of the web client (`src/frontend`) that keep
state of their own, the TLC configurations that check them on small instances,
and the theorems TLAPS proves about them.

## The system and its parts

| Component | State it keeps | Operations | What is hard | Modules |
|---|---|---|---|---|
| Outbound pipeline (`modules/outbound`) | message rows (`deliveryStatus`, `queueJobId`, `externalId`, `retryCount`), attachments, dead-letter rows, the BullMQ queue | `send`, `forward`, `handleOutbound`, `enqueue`, the worker, `onJobFailed`, `retryMessage`, `retryFromDlq`, `discard`, receipts | two paths queue one message; listeners, retries and receipts write one column; restarts; lost answers | `Outbound`, `Delivery` |
| Enquiry lifecycle (`modules/enquiry`) | one enquiry with version, owner, timeline, notes, tags | every handler that writes it | checks made on rows read earlier | `Enquiry` |
| Inbound ingestion, qualification, idempotency (`modules/Ingestion`, `webhooks`, `qualification`, `common/Idempotency`) | inbound messages, keys, jobs, threads | webhook, ingest's three paths, job, event | repeated and stale requests, failures, restarts between commit and event | `Inbound`, `Intake` |
| Automatic replies (`modules/automation`) | a delayed job per enquiry | arm, look, ask, reply | racing a human answer; repeated jobs | `AutoReply` |
| Sequence and read state (`conversation-seq`, `messaging`, `websocket`, `events`, inbox lists) | numbers and read mark per contact, each browser's rows | append, mark read, summaries, lists, patches | order of commits, broadcasts and lists | `Inbox` |
| Drafts (`draft.service.ts`) | drafts, attachments, files | save, upload, send, discard, clean up | a cleanup in three steps nobody waits for | `Drafts` |
| Contacts (`modules/contact`, the contacts page) | contacts and channels; cached lists, ticks and a panel in the browser | resolve, create, add, remove, promote, delete; load, filter, tick, open | counts read outside the transaction; lists kept from before a change | `Contacts`, `ContactsPage` |
| Channel connections (`modules/channels`, `ChannelsClient`, `AddChannelModal`) | connections; the rows of the page, its modal | create, update, switch, remove | calls that queue up, are refused or come back to a closed modal | `Inbound`, `Channels` |
| The list of enquiries (`EnquiriesClient`) | filters, a delayed search, the list, selected rows | search, filter, page, select, delete | answers for filters that have changed | `EnquiryList` |
| Team chat (`modules/chat`, `TeamChatRoom`, `ChatShell`) | conversations, members, messages, marks, windows | open, join, remove, send, read, edit, pin, react | joins racing removals; pages, pushes and answers in any order | `ChatRooms`, `ChatWindow`, `ChatMessages`, `ChatReceipts` |
| The tab's socket (`lib/socket.ts`) | one socket, reference counts of rooms | retain, release, connect, reconnect | joins are buffered, leaves are not | `Connections` |
| Templates (`modules/template`, `TemplateList`, `TemplateForm`) | bodies, variable rows, compiled body; the list and the form of a tab | create, update, remove, duplicate; load, filter, edit | two updates at once; an effect that loads again after every toast | `Templates`, `TemplatesPage` |
| Permissions, users (`modules/permission`, `user`, `auth`, `casl`) | grants, roles, tokens | assign, bundle, rename, log in | loops of single writes | `Access` |

The parts meet in three ways.  They call each other directly; they emit
in-process events (`message.outbound`, `enquiry.qualified`, `chat.*`), whose
handlers run up to their first `await` inside the emitter's turn and later on
their own; and they share rows of one database and jobs of one Redis queue,
which survive the process.  Everything runs in a single Node process, so what is
atomic is the stretch between two awaits and, within it, one statement or one
transaction of the database.  Browsers are reached by socket.io, which keeps the
order of what one socket is sent, and by requests whose answers come in any
order.

All modules follow from that.  A request or a handler in progress is a slot (or
a member) of a variable named `call`, `request`, `hand`, `job` or `handling`; it
names the await it resumes from and carries what was read before it.  One action
is one stretch between awaits, and a transaction is one step unless its rows are
locked in between.  What users, providers and faults do is bounded by a budget,
drawn from at the step that needs it; everything else is bounded by those.
Definitions marked "mutant" are plausible wrong versions of the definition below
them; nothing refers to them, and exchanging one for the other shows that a
property notices.

`PROJECT.json` lists every component with its status, every definition with the
lines it stands for, and every hazard at the line where it bites.

## The outbound pipeline: `Outbound`, `Delivery`

`Outbound` models the pipeline from the transaction that stores a PENDING
message to its last receipt.  There is one function per column of the message
row, the sequence `jobs` of all BullMQ jobs ever added (an index is the job id;
the worker's progress is the job's `state`), `deliveries`, the copies the
provider accepted, and `call`.  `SendFromComposer` and `SendByEvent` store the
message and start `handleOutbound`; `CopyAttachments`, `CheckQueued`,
`PrepareJob`, `AddJob`, `RecordJobId` queue it; `StartAttempt`,
`ProviderAccepts`, `ProviderRejects`, `AdapterNotConfigured`,
`MarkUnconfigured`, `RecordSent` are the worker; `MarkFailed` and `Bury` its
'failed' listener; `Retry`, `ResetForRetry`, `RetryFromDlq`, `ResetFromDlq`,
`ResolveDeadLetter`, `Discard` the operators' tools; `Receipt` and
`ApplyReceipt` the delivery webhooks; `CallFails`, `UpdateFails`, `AnswerLost`
and `Crash` the faults.

`Delivery` is what the rest of the system may rely on: a message is unsent,
pending, confirmed or failed, copies only accumulate, and it is confirmed only
after a copy went out.

* `NoPhantomConfirmation`: SENT, DELIVERED or READ implies an accepted copy, and
  `externalId` names one.  `ImplementsLifecycle`: every behaviour is one of
  `Delivery`.  Both under every fault.
* `OneCopyPerJob` (without faults): copies come from jobs, never from attempts.
* `PendingIsOwned` (without faults and dead-letter retries): somebody still has
  to act on every PENDING message.
* `ExhaustedIsBuried`, `ConfirmationsAdvance`, `EventuallySettled`.

The races are between two calls of one message, a call and a job, or two jobs,
so three slots and three jobs show them; two attempts tell a failed attempt from
the last one.  `FairSpec` is weak fairness of each call and each job: the event
loop resumes every call whose await has settled, and BullMQ takes every job
whose delay is over.

## The enquiry: `Enquiry`

One row of `Enquiry` with its timeline, notes and tags.  Its handlers share one
shape: read the row, check, decide, and after one or more awaits update the row
by its id.  So each is an action that reads and decides (`StatusChange`,
`Assign`, `UpdateTags`, `AddNote`, `SendMessage`, `AddOutboundMessage`,
`MaybeTransitionOnOutbound`, `AppendToExistingEnquiry`, `ReopenClosedEnquiry`,
`AppendQualified`), and the shared `Write` applies the decision to the row as it
is by then.  `Fail` drops a decision; `Remove` deletes the row; `Look` is a page
loading the enquiry, so that a request carries the version of that page.

* `FollowsTable`: the status moves along the table of `enquiry.state.ts`, which
  only `statusChange` consults; `TimelineFollowsTable`: so does the timeline,
  under any overlap.
* `TimelineTellsAll`: the timeline tells of every note, whatever overlaps, unless
  `addNote` failed between its two writes (`untold`); and with one handler at a
  time its rows add up to the tags.
* `SerialHandlersKeep`: when handlers do not overlap, a change is written on the
  version its author saw, and `firstResponseAt` is set once.

`MCEnquiryDays` runs two kinds of day side by side (the variable `serial`): one
slot and every kind of request (`HandlersInTurn`), or three slots and the requests that move the
status by themselves.  What can go wrong is one handler's write between
another's read and write, so two slots show it and a third shows that no longer
chain is needed; the automatic days start from all nine statuses, so every
automatic entry of the table is one change away.

## From webhook to thread: `Inbound`, `Intake`

`ReadKey`, `ClaimKey` are the idempotency guard; `CheckEnabled` the channel's
switch; `FindContact`, `CreateContact`, `FindActive`, `FindClosed` choose among
the paths of ingest; `StoreFor...`, `AppendMessage`, `ReopenMessage`, `AddJob`
are the paths; `Stamp` answers 200, `Complete` completes the key without the
answer waiting for it.  `StartQualify`, `Settle`, `Finish`, `Review` are the
worker; `FindOpen`, `AppendQualified`, `CreateQualified` the event's handler,
which runs in memory and nobody waits for.  Staff create, close, reopen and
toggle.  Any await may fail, a key may grow old, the process may restart.

* `ThreadedOnce`: under repetition, expiry, faults and restarts a message is in
  one thread at most, once.  The key alone does not give it; the uniqueness of
  `externalId` does.
* `FilingIsFinal`: a repeated job does not undo a decision.
* `ImplementsIntake`.  `Intake` is what the provider, the customer and the staff
  may rely on: "accepted" is said of stored messages only; a message counts as
  real unseen only if its customer has an enquiry, and is judged once otherwise;
  a real one is placed once, in an enquiry of its own customer; enquiries stay
  with their customers.  The mapping forgets keys, requests, jobs and handlers,
  and takes a row in progress for one that has just been received.
* `OneRequestAdmitted`, `NothingLost`, `EventuallyFiled` (without faults): the
  guard lets one request of a message through, and a stored message has somebody
  who is going to file it and does.

A duplicate needs two requests of one message, a race for the enquiry two
messages of one contact (`calm`); that no message goes to another's enquiry needs
two contacts (`broken`), which share nothing but the worker, which takes one job
at a time.  Fairness: every request, job and handler goes on.

## Numbers, read marks and lists: `Inbox`

A contact's messages take their number inside the transaction that stores them
(`TakeSeq`, `Commit`, `RollBack`; `locked` is the row lock).  A handler then
reads the contact's summary (`ReadContact`, `ReadLatest`) and sends it
(`EmitUpdated`, `EmitNew`, `EmitRead`), and each browser patches the row it
holds (`Patch`).  `TakeMark`, `CheckMark`, `UpdateRead` are the read mark;
`AskList`, `AnswerList`, `ApplyList` a list on its way; `ClickRow`,
`TryMarkRead`, `Hide`, `Show`, `Disconnect`, `Reconnect` the browser.  `crossed`
and `missed` note what the code does nothing about: two handlers holding a
summary of one contact at once, and events a browser could not apply.

* `ThreadIsGapless`, `ReadOnlyAdvances`: on the server, for whatever overlaps.
* `RowsFollow`: what of "every agent's cache converges" is true.
* `OpenChatIsRead`: a chat open in a visible tab ends up read.

Fairness: handlers, deliveries to the server and a browser's effects go on;
clicks, lists and connections are free.  Two browsers and two handlers suffice:
one acts, the other holds the row that is patched.

## Automatic replies: `AutoReply`

`Create`, `CreateByStaff`, `Arm` (the event's handler), `Fire`, `Take`, `Look`,
`AiAnswers`, `AddAiReply`, `Remove`, `EndJob`, `FailJob` are the life of a job
`ai-reply-<id>`; `HumanReplies`, `CustomerWrites`, `CloseLead`, `Restart` happen
at any moment.  `AiRepliesOnce`: at most one AI reply, and first unless a human
answered while the AI was being asked.

## Team chat: `ChatRooms`, `ChatWindow`, `ChatMessages`, `ChatReceipts`

`ChatRooms` is who is in which conversation and whose socket hears it: requests
with their awaits (`Ensure`, `Find`, `Check`, `WriteRemoved`, `Kick`, ...), the
gateway's join as a check and a later join, messages stored, pushed to the room
and told to members.  `DirectRoomsAreShared`, `OutsidersHearNothing`,
`RoomFollowsMembership` (and `KickIsFinal`, which fails), `MembersHear`.  Three
users: one acts, one is acted upon, one is outside.  Fairness: handlers and the
gateway.

`ChatWindow` is the stretch of a thread one browser shows: pages at either end,
jumps, the way back, pushed and optimistic messages, any of them applied while
others are on their way.  A message is its place in the thread, so order is the
order of numbers.  `WindowIsWhole`: what others wrote is shown once, and a window
opened in the middle can go on to the end.

`ChatMessages` is one message after it was sent: each of pin, star, edit, react,
delete and hide is a read, a write, an event and an answer; windows keep copies
in the thread, the pinned banner and the Starred tab.  `GoneStaysGone`: a window
opened after a deletion (or after its user hid the message) shows it nowhere,
whatever is still on its way.

`ChatReceipts` is the two marks of each member and the ticks beside own
messages.  Receipts are computed from the rows at one moment (`ComputeRoomReceipts`,
`MinWatermark`), pushed later and applied by the windows; messages are stamped
before they are committed; members come and go.  `TicksAreEarned`: a message
shown as read or delivered was marked so by everybody who has been a member
since before it was stamped.

## The tab's socket: `Connections`

`RetainRoom`, `ReleaseRoom` count the components that hold a room; `UseSocket`,
`Connect`, `ConnectFails`, `Disconnect`, `ReconnectFails`, `HandleAuthFailure`,
`HandleSocketReconnect` are the connection; `buffer` and `wire` what was emitted;
`HandleContactJoin`, `HandleChatJoin`, `JoinChat`, `HandleLeave` the gateway.
`HeldRoomsAreJoined`: once all is quiet, a connected tab is in every room its
page holds, except rooms whose join was rejected or whose count was cleared.
`ConnectionComesBack` fails; its run assumes that a connection that can be opened
again and again is opened (weak fairness of `Connect`).

## Drafts, contacts, templates, access

* `Drafts`: `FilesKept`, the file of a sent attachment or of a draft being
  written is not deleted, whatever cleanups overlap (drafts that expired or were
  discarded excepted: see below).
* `Contacts`: `KeepsAChannel`, a contact keeps a primary channel unless a removal
  overlapped another change of its channels.
* `Templates`: `PlaceholdersFilled`, rows and compiled body fit the body unless
  two updates overlapped.
* `Access`: `ReportsHold`, what an assignment reports as made the role has.

Each is a set of handlers (`hand`, `job`) whose reads and writes are steps, with
two in progress at a time: all these races are between one handler's read and
its write.  In `Drafts` a file grows old (`Age`) only when no request about it is
in progress: `FilesKept` rests on no request taking a day.

`Records` puts these four and `AutoReply` side by side, `Screens` the parts of the
client; a part is an instance with its own variables there, the properties are
named there once more, and the proofs are about those instances.

## The pages: `Channels`, `EnquiryList`, `ContactsPage`, `TemplatesPage`

These four pages change tables by server actions.  Next.js runs the server
actions of a tab one after the other, so each module has a `queue` whose first
member is in progress (`hand` in `Channels` and `TemplatesPage`, where a call
consists of several steps of the back end), and a step that takes up the answer
with the closure the call was made with.  Others change the table as well
(`Elsewhere`), answers are lost (`Lose`), pages are left.

* `Channels`: the page of connections keeps the rows it was loaded with and
  applies to them what its own calls answer (`AfterToggle`, `AfterDelete`,
  `AfterConnect`, `OnCreated`); the modal can be closed while its connection is
  being checked.  `PageMatchesTable`: at rest the page shows the table, except
  the rows in `unseen`, whose changes it could not be told of.
* `EnquiryList`: `HandleSearchChange` starts a timer whose closure keeps the
  filters of that moment; `HandleFilterChange`, `HandlePageChange` and the
  deletions load the list as well.  `ListMatchesFilters`: at rest the list is the
  answer for the filters shown and holds nothing the page deleted.  `crossed`
  notes the cases the code does nothing about (see below).
* `ContactsPage`: react-query's lists per filter and page (`cache`), which a
  change makes stale (`Invalidated`, `Refreshed`), the table's ticks, the panel.
  `PageIsCurrent`: a list at rest was read after every change the tab was told
  of, and the panel shows the contact chosen, unless a call that loads another was
  on its way at the choice (`strayed`).
* `TemplatesPage`: the effect of `TemplateList` (`FetchAll`), which depends on the
  context of the toasts and so runs at each of them (`Toasted`, `RemoveToast`),
  and the form.  `ListIsTheTable`: when the last toast has gone, the list is the
  table and no row is busy, whatever failed or was overtaken.

A toast fades before it goes, so it has two stages; a list is repeated twice by
the client before it fails.  Two rows on a page and a third beyond it show what
paging does; two calls of one page and one change by others meet in every order.

## Runs

| Run | Instance | Distinct states | Shows |
|---|---|---|---|
| `event` | 2 messages (one unroutable), 3 calls, 2 attempts, 2 receipts, `FairSpec` | 8,884 | types, burial, `ConfirmationsAdvance`, `EventuallySettled` on the event's path |
| `retry` | 1 message, 3 calls, a composer send, a retry by hand | 3.9 million | `OneCopyPerJob`, `PendingIsOwned` with up to three jobs of one message |
| `faults` | 1 message, 3 calls; one event send, dead-letter retry, receipt, fault, restart | 322,258 | `NoPhantomConfirmation`, the refinement of `Delivery` |
| `days` | serial days: 1 slot, 1 user, 1 tag, 2 edits, one of each other request, a failure; automatic days: 3 slots, all statuses | 2.1 million | what holds without locks, and what only without overlap |
| `calm` | 2 messages of one customer, 2 requests at a time, 3 deliveries, staff at work, `FairSpec` | 277,546 | `OneRequestAdmitted`, `NothingLost`, `EventuallyFiled` |
| `broken` | 2 messages of 2 customers, 2 requests at a time, 2 deliveries, an expiry, 2 failures, a restart, an enquiry created and one closed by staff | 1.3 million | `ThreadedOnce`, `FilingIsFinal`, the refinement of `Intake` |
| `desk` | 2 browsers, 1 contact, 2 channels, 2 handlers, five scenarios | 262,059 | the properties of `Inbox` |
| `chat` | 3 users, 2 channels, the common room, all pairs, 2 requests, six scenarios | 161,053 | the properties of `ChatRooms` |
| `office` | thirteen parts, see `MCOffice`; the pages with 3 connection accounts, 3 enquiries (1 per page), 3 contacts (2 per page), 3 templates (up to 5) | 1.5 million | one property of each part |
| `lost`, `kick`, `reconnect` | one message and a restart; `chat`'s instance; one held contact and one broken connection | stop at the counterexample | three disagreements of code and text (`findings`) |

`office` is a sum, not a product: the variable `part` says which part runs, and
the other parts stay at one idle initial state.  Each part has a handful of
starting states ("days", "evenings", "plans") chosen so that the requests that
can disturb each other meet; they are listed with a comment in `MCOffice`.
Two scenarios in one configuration are explored one beside the other.

Deadlock is not checked: in every instance the budget runs out and all handlers
finish, and then nothing is left to do.

Four more configurations are kept without being among the runs; each shows a
disagreement named under "Also seen": `Outbound_double_queue.cfg`,
`Outbound_failed_early.cfg`, `Enquiry_lost_update.cfg`, `Inbound_two_open.cfg`.

## Proofs

Every theorem is proved by TLAPS for any values of the constants, under the
assumptions the modules name.  They say what a starting state may be, and every
run evaluates them: `OutboundAssumption`, `EnquiryAssumption`, `ChatAssumption`,
`InboundAssumption`, `InboxAssumption`, `LimitsAssumption`, `RecordsAssumption`
(the plans, books, shelves and offices the tables start from fit the constraints
of the schema and the DTOs; so does what is asked) and `ScreensAssumption` (the
same for the parts of the client: an evening's members are users, a page holds
at least one row, no window is called `Nothing`, what an opened message, a held
room, the contacts and the table of templates start from).  A theorem that needs more says
so itself, by a budget of zero for what it excludes.

### Back end

`OutboundProofs`
* `TypeCorrect`, and `NothingConfirmedUnsent` under all faults.  The latter is
  not inductive: the worker writes SENT and the provider's id from what its job
  remembers, and a receipt is applied one await after its message was found.
  `Evidence` adds that a recording job names an existing copy and that a receipt
  in progress belongs to a message with a copy.
* `ExhaustedJobsAreBuried`, without faults and restarts, which forget the
  listener in progress (`Burial`).
* `JobsSendOnce` (no faults, no restarts): `Once` adds to `OneCopyPerJob` that a
  job whose copy went out is recording it or over, so that it never sends again.
* `PipelineIsLifecycle`, the refinement of `Delivery`.  `Sound` adds to
  `Evidence` that calls, jobs, copies, queue ids and dead-letter rows are of
  messages that exist.  `StatusMoves` says what any step may write into a status
  and `CopiesStep` that a step either writes it or hands out a copy; each is then
  one step of `Delivery` or none.
* `PendingHasOwner` (no faults, restarts, dead-letter retries).  `Owned`
  strengthens `PendingIsOwned`: when only the handler that has still to look at a
  message holds it, the message must have no job yet, since a job's id would make
  that handler skip it.
* `ReceiptsOnlyAdvance` (`ConfirmationsAdvance`): for messages that go out by the
  event alone, under all faults.  The worker writes SENT whatever the status is,
  so a status can only advance if a message never gets a second job and its one
  job is over when the first receipt finds it; that is `InOrder` (`QueuedOnce`,
  `Confirming`).  A send from the composer, a retry by hand and a retry of a dead
  letter each make a second job, and with any of them TLC finds the status going
  back, so the theorem asks for none of them.

`EnquiryProofs`
* `TypeCorrect`; `TimelineIsLegal` (`Records`: the rows of every decision still to
  be written are legal); `AutomaticMovesFollowTable`, without changes by hand
  (`Unattended`: each decision fits every status the row may have reached
  meanwhile); `OneHandlerAtATime`, with one slot (`Undisturbed`: a decision waiting
  to be written still fits the row).
* `NotesAreTold`: the notes of an enquiry are as many as the rows that tell of
  them, the handlers between the two writes, and those that failed there
  (`NotesInv`).  The code does not put the two writes into one transaction, so
  the property counts the last (`untold`).
* `TimelineIsComplete` (`TimelineTellsAll`) and `SerialHandlersAreSafe`
  (`SerialHandlersKeep`).  `SerialInv` says of one handler at a time that the rows
  replayed give the tags and that what was read is still so.

`InboundProofs`: `InboundTypes`; `MessagesThreadOnce`, `AcceptedMessagesStored`
and `FilingsFinal` under all faults.  `OneHand` says that a message is in at most
one hand (the request that made its row, then the worker, then the handler of
the event) and in no thread while it is in one; a request that meets the row of
another gives up, and a restart leaves the message to the worker alone.
`InProgress`: a message being classified or reviewed has no final status, so that
only an undecided one is ever decided.  `OneAdmitted`, while no key expires
(`Guarded`: who is past the guard has made the key).  `NothingIsLost`, without
faults and restarts (`Whole`: a message has no result before it is classified, so
that no job is skipped by the check for one).  `InboundIsIntake`, the refinement of
`Intake`, under all faults.  `Kept` adds what is carried over an await: a request
or a handler that has found an enquiry has one of its sender, who keeps it
whatever staff do meanwhile; one that is about to thread a message has a real one;
a message in the queue that is filed has its result, so that no later attempt
judges it.  Each step is then one step of `Intake` or none (`StepShows`).

`InboxProofs`: `NoGaps`, `ReadMarkAdvances`.  `NumbersAreHeld`: who is in its
transaction holds the contact's row alone, so its number is still the next one.
`CachedRowsFollow` (`RowsFollow`): `Told` says that, as long as no two handlers
held a summary of a contact at once, the one that holds it holds the truth or
another handler has still to read the contact, and that each copy, in a browser's
list or in a list on its way to it, is the contact as it is or somebody is about
to tell of the difference.  A list is read by its own request, so it may hold
what the event has not yet told; that is why the copies on their way count.

`ChatRoomsProofs`: `ChatTypeCorrect`, `DirectRoomsStayShared`, `NothingLeaks`,
`OnlyLateJoinsStay`.  The invariant says of what a request carries between two
awaits which part is still true (`RequestsOK`, `DirectMembers`, `JoinsAreKnown`).

`RecordsProofs`, a section for each part of `Records`:
* `AutoReplyTypeCorrect`, `OneAiReply`.  `JobsAreFirst`: a job that asks found
  nobody's reply, and what came since is a human's and was noted.
* `ContactsTypeCorrect`, `ContactsKeepAChannel`.  A removal decides on rows it
  counted before.  `CountedStay`: unless another change overlapped, what it
  counted is still there; `OverlapNoted`: two changes past their checks are noted;
  `SeenIsOwn`: an id that was seen never becomes another contact's.
* `AccessTypeCorrect`, `ReportsStayTrue`.  What is reported is written in the
  same step, so `AccessInv` adds to `ReportsHold` only what keeps ids and pairs
  apart: every request still holds permissions and roles that may have gone.
* `DraftsTypeCorrect`, `DraftFilesKept`.  A cleanup lists, compares and deletes in
  three steps.  `CleanSafe`: what it has chosen was discarded, or sent and spared,
  or will never be sent; `ClearedSettled` and `NoSend`: the old rows of a cleared
  draft were sent or nobody is past the look at its status.  `UploadYoung`: a file
  whose upload is in progress is younger than a day.
* `TemplatesStayTyped`, `PlaceholdersStayFilled`.  `ParseIsGapless` proves of the
  engine what a test of it would try: for a body of any length the variables are
  numbered from 1 without a gap, one for each label, and each marker is compiled
  to the number of its label.  It rests on `LeastNumber`, the least-number
  principle (`WellFoundedInduction`), which gives each label its first marker.
  `Current`: an update that overlaps no other has before it the body that is
  stored and has deleted the rows that are; `OneUpdate`: two updates past their
  reading are noted in `torn`.

### Web client

`ChatProofs`, a section for each part of a chat in `Screens`:
* `TicksTypeCorrect`, `TicksStayEarned`.  `Earned`: receipts, once computed, stay
  true of the best marks ever written, as long as a member counts from the moment
  of being added; so neither the order of receipts nor a mark that goes back
  matters.
* `WindowTypeCorrect`, `WindowStaysWhole`.  `PagesOK`: a page around a message is
  not empty, and a page below is asked for from some message, so an anchored
  window always has somewhere to go on from; `SendingOK`: what takes an optimistic
  row's place is a message of one's own.  `TakenOnce` is the lemma about what
  `Fresh` leaves of a page: `EachPositionOnce` shows that counting the positions
  up to each one enumerates them.
* `ConnectionsTypeCorrect`, `HeldRoomsGetJoined`.  `CountsHolders`: a room's count
  is the number of its holders, or less if it was cleared; `JoinIsComing`: for a
  room that is held the last word on the way to the server is a join, wherever
  the packets wait in each state of the socket.
* `ChatMessagesTypeCorrect`, `GoneMessagesStayGone`.  `Carries`: what a pin or a
  star takes along to its event and its answer is a row of the message, and hiding
  a message is told to nobody.  `FlightsOK`: a window opened after the
  message had gone has asked for nothing but its page, the pins and the stars,
  and is answered without it; a closed window has no calls, so an answer never
  reaches a window opened later.

`PagesProofs`, a section for each page:
* `ChannelsTypeCorrect`, `PageIsTheTable`.  `PageFollows` compares the table not
  with the cards but with what they will be when the page has done what it was
  told (`Expected`: an answer not yet taken up, a connection whose modal has yet
  to tell); `ComingOnce`: a connection is announced once.
* `EnquiryListTypeCorrect`, `ListFollowsChoices`.  `ListFollows`: unless a load
  crossed a change of the choices, the last list asked for is of the choices
  shown, what is typed waits for them, and what was deleted is not shown or a list
  is still to come.
* `ContactsPageTypeCorrect`, `ContactsStayCurrent`.  `FreshIsCurrent` is about
  every list kept, not only the one shown, since any of them may be chosen again;
  `PanelLoadsItsOwn`: only the contact of the panel is loaded while it is open.
  A list holds the contacts of its ranks; `EachRankTaken` proves that of n
  contacts one has k of them up to itself, for every k, so that each row is one.
* `TemplatesPageTypeCorrect`, `TemplatesListIsTheTable`.  `ShelfTyped`: an id is
  never twice in the table and never used again, whatever was put in front or
  taken out; `CallsWhole`: what waits to be saved is a whole template.
  `LoadComesLast`: the load that counts comes after the changes of pages that were
  left; `ReadIsTable`; `ListIsCurrent`; `BusyWaits`.

### Model-checked only

* Liveness, which is out of the prover's reach: `EventuallySettled`,
  `EventuallyFiled`, `MembersHear`, `OpenChatIsRead`.
* `TypesOK` as a whole: one formula over the thirteen parts of `MCOffice`, whose
  proofs are in three modules.  Each of its conjuncts is a theorem of its part.

## Also seen

`PROJECT.json` lists the disagreements of code and text that a run shows.  While
the models were written these were seen as well.

Outbound
* Sending from the composer queues a message twice
  (`Outbound_double_queue.cfg`; comment at `outbound-send.service.ts:135`), and a
  message with attempts left is FAILED in the meantime
  (`Outbound_failed_early.cfg`).
* `outbound.processor.ts:172`: a second job of a message writes SENT over
  DELIVERED, although `outbound.service.ts:188` promises no regression.
* `outbound-send.service.ts:99`: the event is emitted before the attachments are
  copied, so a job may be built without them (comment at :213).
* `outbound.service.ts:107`: a `queueJobId` stored late makes the guard skip a
  message that a dead-letter retry has just reset: it stays PENDING.
  `outbound.service.ts:151`: so does one whose `queue.add` fails in
  `retryMessage`; `enquiry.service.ts:575`: and one whose process restarts
  between the transaction and `queue.add`.

Enquiry and inbound
* `enquiry.service.ts:373`: of two overlapping changes one is lost
  (`Enquiry_lost_update.cfg`), and the second can take an enquiry out of
  CONVERTED, which `enquiry.state.ts:57` calls terminal.
* `enquiry.service.ts:564`: two overlapping first replies both set
  `firstResponseAt` (`architecture.md:122`, "once").  `:434` and `:568`:
  assigning and replying move the status with a timeline row that does not name
  it.  `:757`: the report of a sent message can come after the customer's answer.
* `addNote` stores the note and its timeline row in two writes: a note whose
  second write fails is on no timeline.
* `ingestion.service.ts:151`: the fast path moves the status and not the version.
* `enquiry.service.ts:1029`: two qualified messages, or one and staff, open two
  enquiries of one contact (`Inbound_two_open.cfg`).
* A request that fails after its row is stored, and before its transaction or
  its job, leaves a message that every later delivery fails on (P2002).
* Automatic replies: "cancelled instantly if a human replies first"
  (`README.md:14`) is not so while the AI is being asked; an enquiry created by
  hand announces nothing, so no timer is armed.

Inbox and the tab
* Two summaries of one contact that cross leave stale rows until the next; a
  mark lost with its connection is not repeated; a mark that changes nothing
  tells nobody; an e-mail does not patch the WhatsApp list.
* A refused token clears the counts while components stay mounted; a failed
  first connection rejects the join and a later one does not repeat it; nothing
  is fetched again after a reconnect; a join still reading the membership when
  its leave arrives puts the tab in a room nobody holds ("prevents drift between
  React UI state and socket room subscriptions").
* `ChatShell`'s `conversationsVersion` is constant, so
  CHAT_CONVERSATION_UPDATED refreshes no sidebar.

Team chat
* `ChatWindow!ShownAtTheTail` fails: a message pushed while a page loads is
  overwritten by the page.  An own message may show twice.  A message between the
  first page and the room's join is never shown and counts as read.
* An edit can land after a deletion and the author's late answer shows it again;
  toggles and reactions in flight are lost; a page whose cursor was hidden skips
  one; a room whose oldest unread message was hidden fails to open.
* Sending moves `lastReadAt` without `lastDeliveredAt` (and perhaps back) and
  tells nobody, although "reading implies delivery, so both watermarks advance";
  no client emits `chat:delivered`.
* A removed admin who is added again is ADMIN again; the last admin may leave.

Drafts, contacts, templates, access, channels
* The file of a sent message can be deleted when its draft had expired or was
  discarded before the copy; `removeAttachment` drops the row by which the
  cleanup would find the file; two saves create two ACTIVE drafts.
* Overlapping removals leave a contact without a channel; `setPrimary` and
  `addChannel` leave two primary ones; a deletion can take an enquiry opened
  since its count.
* Overlapping updates of a template leave the rows of the other body; a clash is
  reported for the name "undefined"; a type changed without a body keeps the
  compiled body of the old type; `isFrozen` is never true.
* A token keeps its role for 30 days after a demotion; clearing ADMIN's grants
  locks everybody out.
* `email.adapter.ts` sets SendGrid's key, which is global ("Set right before
  send"), before it awaits the attachments, while five jobs run at a time.
* A channel's card says "Connected" for any ACTIVE connection; outbound uses the
  newest one, which may be DISABLED.

Pages
* The list of enquiries ("Fetch enquiries with current filters"): a search still
  waiting when a filter changes loads for the old filters, perhaps last.  It keeps
  selected ids across pages and filters, so a bulk deletion removes rows that are
  not shown; "select all" compares numbers, not rows; deleting the last row of a
  page leaves an empty page.
* Contacts: ticks are row numbers and stay when the page changes or a bulk
  deletion is done; a late answer puts the contact of before into the panel; a
  load in the background overwrites what is being typed; the answer of a deletion
  closes the panel of another contact.
* An answer of a toggle or a deletion that is lost throws in a transition, and no
  error boundary catches it.
* Templates: every toast loads the list, so a back end that fails is asked again
  for ever by the toasts of its own failures; a load whose answer is lost leaves
  the spinner; a page number may lie beyond the last page with the pager hidden
  ("No templates found"); the category chosen on one tab stays on the other;
  "Filtered templates for WhatsApp Review queue" filters no status; a save
  answered after its form was left takes the user to the list.

## Not modelled, and why

* Reads: lists, search, counts, the thread page, health, stored files.  They
  change nothing; where a browser keeps what it read (`Inbox`, `ChatWindow`,
  `ChatMessages`) the read is a step of the model.
* Rendering: most of the front end is JSX, style and form state, and of a page
  that keeps state only the handlers and effects are modelled.  The sidebars, the
  dashboard and the pages of users and permissions render what they read;
  `useDraft.ts`, `useUpload.ts` and `useOutboundSend.ts` are used by no component.
  This is why a large share of the lines has no definition that stands for it.
* Data: texts, formatting, normalisation, encryption of credentials, passwords,
  a webhook key reused with another body, conditions of a grant.
* The Python service is stateless; the administrative endpoint that injects a
  qualified event exists for testing; deletion of enquiries in `Inbound` (it is
  in `Enquiry`).
* The unread divider, search and attachments of team chat; typing and presence.

## What is left

* One specification of an enquiry with its messages: `Enquiry` makes the status
  and version, `AutoReply` and `Outbound` are started by its events and `Inbound`
  appends to it; each models the others by what it needs of them.
* The pages together with the handlers they call: `Channels` and `TemplatesPage`
  have the table and simple handlers of their own, `ContactsPage` and `EnquiryList`
  only what the list shows of `Contacts` and `Enquiry`.
