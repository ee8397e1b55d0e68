------------------------------ MODULE Inbound -------------------------------
(***************************************************************************)
(* From a provider's webhook to a message in a customer's thread: the      *)
(* idempotency guard, the contact, the three paths of ingest (append to    *)
(* the open enquiry, reopen a lost one, queue for qualification), the      *)
(* qualification worker, and handleQualified, which runs in the same       *)
(* process on an event and which nobody waits for.  A provider delivers a  *)
(* message again until it has been answered 200.                           *)
(***************************************************************************)
EXTENDS Integers, Sequences, FiniteSets

CONSTANTS
    Messages,     \* customer messages; each has its own externalId
    Contacts,     \* customers
    From,         \* the sender of each message
    NoMessage,    \* what an idle request handles
    Requests,     \* slots for webhook requests in progress
    MaxAttempts,  \* attempts of a qualification job
    Budget        \* bounds on what the environment does: see Limited

Limited == {
    "deliveries",  \* webhook calls, first ones and repetitions
    "expiries",    \* idempotency keys that get older than two minutes
    "closings",    \* enquiries closed by staff, as lost or converted
    "reopenings",  \* lost enquiries opened again by staff
    "creations",   \* calls of create by staff
    "toggles",     \* the channel switched on or off
    "faults",      \* failures of the database or of Redis
    "crashes"}     \* restarts of the process
Budgets == [Limited -> Nat]

ASSUME InboundAssumption ==
    /\ From \in [Messages -> Contacts]
    /\ NoMessage \notin Messages
    /\ MaxAttempts \in Nat \ {0}
    /\ Budget \in Budgets
    /\ Budget["crashes"] <= 1   \* BullMQ fails a job that stalls twice

VARIABLES
    answer,     \* the last 200 a provider got for the message, if any
    key,        \* the message's IdempotencyKey
    expired,    \* messages whose key is older than two minutes
    enabled,    \* the channel connection is ACTIVE
    known,      \* contacts that have a row
    row,        \* status of the InboundMessage row, "NONE" if there is none
    result,     \* messages with a QualificationResult
    enquiries,  \* Enquiry rows, oldest first
    threads,    \* enquiries the message was put in, one per ConversationMessage
    job,        \* the message's qualification job
    handler,    \* the message's run of handleQualified
    request,    \* webhook requests in progress
    creating,   \* calls of create, per contact, that found no open enquiry
    budget      \* what is left of Budget

web == <<answer, key, request>>
store == <<row, result, enquiries, threads>>
vars == <<answer, key, expired, enabled, known, row, result, enquiries, threads,
          job, handler, request, creating, budget>>

RowStatus == {"NONE", "PENDING", "PROCESSING", "REAL_ENQUIRY", "SPAM", "NEEDS_REVIEW"}
Final == {"REAL_ENQUIRY", "SPAM", "NEEDS_REVIEW"}

(* What the rest of the system makes of a status: see module Enquiry. *)
EnquiryRow == [contact: Contacts, state: {"open", "lost", "converted"}]

JobPc == {"none", "waiting", "classify", "finish", "review", "completed", "failed"}
HandlerPc == {"none", "find", "append", "create"}
RequestPc == {"idle", "guard", "claim", "toggle", "resolve", "contact", "active",
              "closed", "append", "reopen", "thread", "rethread", "queue", "add",
              "stamp", "complete"}

TypeOK ==
    /\ answer \in [Messages -> {"none", "accepted", "skipped"}]
    /\ key \in [Messages -> {"none", "PROCESSING", "COMPLETED"}]
    /\ expired \subseteq Messages
    /\ enabled \in BOOLEAN
    /\ known \subseteq Contacts
    /\ row \in [Messages -> RowStatus]
    /\ result \subseteq Messages
    /\ enquiries \in Seq(EnquiryRow)
    /\ threads \in [Messages -> Seq(Nat)]
    /\ job \in [Messages -> [pc: JobPc, made: Nat]]
    /\ handler \in [Messages -> [pc: HandlerPc, enquiry: Nat]]
    /\ request \in [Requests -> [pc: RequestPc, msg: Messages \cup {NoMessage}, enquiry: Nat]]
    /\ creating \in [Contacts -> Nat]
    /\ budget \in Budgets

Idle == [pc |-> "idle", msg |-> NoMessage, enquiry |-> 0]
NoJob == [pc |-> "none", made |-> 0]
NoHandler == [pc |-> "none", enquiry |-> 0]

Init ==
    /\ answer = [m \in Messages |-> "none"]
    /\ key = [m \in Messages |-> "none"]
    /\ expired = {}
    /\ enabled = TRUE
    /\ known = {}
    /\ row = [m \in Messages |-> "NONE"]
    /\ result = {}
    /\ enquiries = <<>>
    /\ threads = [m \in Messages |-> <<>>]
    /\ job = [m \in Messages |-> NoJob]
    /\ handler = [m \in Messages |-> NoHandler]
    /\ request = [r \in Requests |-> Idle]
    /\ creating = [k \in Contacts |-> 0]
    /\ budget = Budget

-----------------------------------------------------------------------------
Spend(what) ==
    /\ budget[what] > 0
    /\ budget' = [budget EXCEPT ![what] = @ - 1]

At(r, pc) == request[r].pc = pc
Msg(r) == request[r].msg
Goto(r, pc) == request' = [request EXCEPT ![r].pc = pc]
GotoWith(r, pc, e) == request' = [request EXCEPT ![r].pc = pc, ![r].enquiry = e]
Return(r) == request' = [request EXCEPT ![r] = Idle]

Sender(r) == From[Msg(r)]

(* Mutant of EnquiriesOf: the search is not confined to the contact. *)
EnquiriesOfAnyone(k) == DOMAIN enquiries

EnquiriesOf(k) == {e \in DOMAIN enquiries : enquiries[e].contact = k}
Open(k) == {e \in EnquiriesOf(k) : enquiries[e].state = "open"}

(* A ConversationMessage of m in enquiry e. *)
Thread(m, e) == threads' = [threads EXCEPT ![m] = Append(@, e)]

-----------------------------------------------------------------------------
(* The webhook, up to ingest.                                              *)

(* A provider delivers a message it has no 200 for. *)
Deliver(r, m) ==
    /\ At(r, "idle")
    /\ answer[m] = "none"
    /\ Spend("deliveries")
    /\ request' = [request EXCEPT ![r] = [pc |-> "guard", msg |-> m, enquiry |-> 0]]
    /\ UNCHANGED <<answer, key, expired, enabled, known, store, job, handler, creating>>

(* IdempotencyGuard: a key that is COMPLETED, or PROCESSING for less than  *)
(* two minutes, is answered 409.                                           *)
Expire(m) ==
    /\ key[m] = "PROCESSING" /\ m \notin expired
    /\ Spend("expiries")
    /\ expired' = expired \cup {m}
    /\ UNCHANGED <<web, enabled, known, store, job, handler, creating>>

ReadKey(r) ==
    /\ At(r, "guard")
    /\ CASE key[Msg(r)] = "none" -> Goto(r, "claim")
         [] key[Msg(r)] = "PROCESSING" /\ Msg(r) \in expired -> Goto(r, "toggle")
         [] OTHER -> Return(r)
    /\ UNCHANGED <<answer, key, expired, enabled, known, store, job, handler, creating, budget>>

(* Mutant of ClaimKey: the key is upserted. *)
ClaimAnyway(r) ==
    /\ At(r, "claim")
    /\ key' = [key EXCEPT ![Msg(r)] = "PROCESSING"]
    /\ Goto(r, "toggle")
    /\ UNCHANGED <<answer, expired, enabled, known, store, job, handler, creating, budget>>

(* The second of two requests that found no key fails on its uniqueness. *)
ClaimKey(r) ==
    /\ At(r, "claim")
    /\ IF key[Msg(r)] = "none"
       THEN key' = [key EXCEPT ![Msg(r)] = "PROCESSING"] /\ Goto(r, "toggle")
       ELSE key' = key /\ Return(r)
    /\ UNCHANGED <<answer, expired, enabled, known, store, job, handler, creating, budget>>

(* handleEmail, handleMetaWhatsApp: nothing is ingested while the channel  *)
(* is off, and the provider is told 200.                                   *)
CheckEnabled(r) ==
    /\ At(r, "toggle")
    /\ IF enabled
       THEN answer' = answer /\ Goto(r, "resolve")
       ELSE answer' = [answer EXCEPT ![Msg(r)] = "skipped"] /\ Goto(r, "complete")
    /\ UNCHANGED <<key, expired, enabled, known, store, job, handler, creating, budget>>

Toggle ==
    /\ Spend("toggles")
    /\ enabled' = ~enabled
    /\ UNCHANGED <<web, expired, known, store, job, handler, creating>>

-----------------------------------------------------------------------------
(* ContactService.resolve.                                                 *)

FindContact(r) ==
    /\ At(r, "resolve")
    /\ Goto(r, IF Sender(r) \in known THEN "active" ELSE "contact")
    /\ UNCHANGED <<answer, key, expired, enabled, known, store, job, handler, creating, budget>>

(* Of two requests that create the contact, one fails on the uniqueness of *)
(* (channel, identifier) and goes on with the other's: not a new contact.  *)
CreateContact(r) ==
    /\ At(r, "contact")
    /\ known' = known \cup {Sender(r)}
    /\ Goto(r, IF Sender(r) \in known THEN "active" ELSE "queue")
    /\ UNCHANGED <<answer, key, expired, enabled, store, job, handler, creating, budget>>

-----------------------------------------------------------------------------
(* IngestionService.ingest.                                                *)

FindActive(r) ==
    /\ At(r, "active")
    /\ IF Open(Sender(r)) = {}
       THEN Goto(r, "closed")
       ELSE \E e \in Open(Sender(r)) : GotoWith(r, "append", e)
    /\ UNCHANGED <<answer, key, expired, enabled, known, store, job, handler, creating, budget>>

(* A lost enquiry is reopened unless it was closed over 30 days ago.  Of   *)
(* several closed ones the code takes the last to change, here any.        *)
FindClosed(r) ==
    /\ At(r, "closed")
    /\ \/ Goto(r, "queue")
       \/ \E e \in EnquiriesOf(Sender(r)) :
             enquiries[e].state = "lost" /\ GotoWith(r, "reopen", e)
    /\ UNCHANGED <<answer, key, expired, enabled, known, store, job, handler, creating, budget>>

(* Mutant of Insert: the row is upserted. *)
Upsert(r, status, next) ==
    row' = [row EXCEPT ![Msg(r)] = status] /\ Goto(r, next)

(* inboundMessage.create: fails if there is a row with this externalId. *)
Insert(r, status, next) ==
    IF row[Msg(r)] = "NONE"
    THEN row' = [row EXCEPT ![Msg(r)] = status] /\ Goto(r, next)
    ELSE row' = row /\ Return(r)

StoreForAppend(r) ==
    /\ At(r, "append") /\ Insert(r, "REAL_ENQUIRY", "thread")
    /\ UNCHANGED <<answer, key, expired, enabled, known, result, enquiries, threads,
                   job, handler, creating, budget>>

StoreForReopen(r) ==
    /\ At(r, "reopen") /\ Insert(r, "REAL_ENQUIRY", "rethread")
    /\ UNCHANGED <<answer, key, expired, enabled, known, result, enquiries, threads,
                   job, handler, creating, budget>>

StoreForQualification(r) ==
    /\ At(r, "queue") /\ Insert(r, "PENDING", "add")
    /\ UNCHANGED <<answer, key, expired, enabled, known, result, enquiries, threads,
                   job, handler, creating, budget>>

(* The transaction of appendToExistingEnquiry.  A status it moves because  *)
(* of what it read opens an enquiry that was closed since.                 *)
AppendMessage(r) ==
    LET e == request[r].enquiry IN
    /\ At(r, "thread")
    /\ Thread(Msg(r), e)
    /\ \E moves \in BOOLEAN :
          enquiries' = IF moves THEN [enquiries EXCEPT ![e].state = "open"] ELSE enquiries
    /\ Goto(r, "stamp")
    /\ UNCHANGED <<answer, key, expired, enabled, known, row, result, job, handler,
                   creating, budget>>

(* The transaction of reopenClosedEnquiry. *)
ReopenMessage(r) ==
    LET e == request[r].enquiry IN
    /\ At(r, "rethread")
    /\ Thread(Msg(r), e)
    /\ enquiries' = [enquiries EXCEPT ![e].state = "open"]
    /\ Goto(r, "stamp")
    /\ UNCHANGED <<answer, key, expired, enabled, known, row, result, job, handler,
                   creating, budget>>

AddJob(r) ==
    /\ At(r, "add")
    /\ job' = [job EXCEPT ![Msg(r)] = [pc |-> "waiting", made |-> 0]]
    /\ Goto(r, "stamp")
    /\ UNCHANGED <<answer, key, expired, enabled, known, store, handler, creating, budget>>

(* markInboundReceived, and the 200. *)
Stamp(r) ==
    /\ At(r, "stamp")
    /\ answer' = [answer EXCEPT ![Msg(r)] = "accepted"]
    /\ Goto(r, "complete")
    /\ UNCHANGED <<key, expired, enabled, known, store, job, handler, creating, budget>>

(* IdempotencyInterceptor: the answer does not wait for this update. *)
Complete(r) ==
    /\ At(r, "complete")
    /\ key' = [key EXCEPT ![Msg(r)] = "COMPLETED"]
    /\ Return(r)
    /\ UNCHANGED <<answer, expired, enabled, known, store, job, handler, creating, budget>>

-----------------------------------------------------------------------------
(* The qualification worker: one job at a time.                            *)

Working(m) == job[m].pc \in {"classify", "finish", "review"}
GoOn(m, pc) == job' = [job EXCEPT ![m].pc = pc]

(* Mutant of AlreadyFinal: only a real enquiry counts as decided. *)
AlreadyReal(m) == m \in result /\ row[m] = "REAL_ENQUIRY"

(* qualify: skips a message that has its result, otherwise marks it. *)
AlreadyFinal(m) == m \in result /\ row[m] \in Final

StartQualify(m) ==
    /\ job[m].pc = "waiting"
    /\ ~\E n \in Messages : Working(n)
    /\ IF AlreadyFinal(m)
       THEN row' = row /\ GoOn(m, "completed")
       ELSE row' = [row EXCEPT ![m] = "PROCESSING"] /\ GoOn(m, "classify")
    /\ UNCHANGED <<web, expired, enabled, known, result, enquiries, threads, handler,
                   creating, budget>>

(* Mutant of Settle: an undecided message is left in progress. *)
SettleDecided(m) ==
    /\ job[m].pc = "classify"
    /\ \E s \in (Final \ {"NEEDS_REVIEW"}) \cup {"PROCESSING"} : row' = [row EXCEPT ![m] = s]
    /\ result' = result \cup {m}
    /\ GoOn(m, "finish")
    /\ UNCHANGED <<web, expired, enabled, known, enquiries, threads, handler, creating, budget>>

(* The classifier answers (or does not, and counts as undecided), and the  *)
(* transaction stores the result with the row's status.                    *)
Settle(m) ==
    /\ job[m].pc = "classify"
    /\ \E s \in Final : row' = [row EXCEPT ![m] = s]
    /\ result' = result \cup {m}
    /\ GoOn(m, "finish")
    /\ UNCHANGED <<web, expired, enabled, known, enquiries, threads, handler, creating, budget>>

(* enquiry.qualified is emitted and the job is over. *)
Finish(m) ==
    /\ job[m].pc = "finish"
    /\ GoOn(m, "completed")
    /\ handler' = IF row[m] = "REAL_ENQUIRY"
                  THEN [handler EXCEPT ![m] = [pc |-> "find", enquiry |-> 0]]
                  ELSE handler
    /\ UNCHANGED <<web, expired, enabled, known, store, creating, budget>>

(* The catch of qualify. *)
Review(m) ==
    /\ job[m].pc = "review"
    /\ row' = [row EXCEPT ![m] = "NEEDS_REVIEW"]
    /\ result' = result \cup {m}
    /\ GoOn(m, "completed")
    /\ UNCHANGED <<web, expired, enabled, known, enquiries, threads, handler, creating, budget>>

-----------------------------------------------------------------------------
(* EnquiryService.handleQualified.                                         *)

(* Mutant of FindOpen: gives up if there is an open enquiry. *)
FindNone(m) ==
    /\ handler[m].pc = "find"
    /\ handler' = IF Open(From[m]) = {}
                  THEN [handler EXCEPT ![m].pc = "create"]
                  ELSE [handler EXCEPT ![m] = NoHandler]
    /\ UNCHANGED <<web, expired, enabled, known, store, job, creating, budget>>

(* The race guard: looks again for an open enquiry of the contact. *)
FindOpen(m) ==
    /\ handler[m].pc = "find"
    /\ \/ /\ Open(From[m]) = {}
          /\ handler' = [handler EXCEPT ![m].pc = "create"]
       \/ \E e \in Open(From[m]) :
             handler' = [handler EXCEPT ![m] = [pc |-> "append", enquiry |-> e]]
    /\ UNCHANGED <<web, expired, enabled, known, store, job, creating, budget>>

AppendQualified(m) ==
    /\ handler[m].pc = "append"
    /\ Thread(m, handler[m].enquiry)
    /\ handler' = [handler EXCEPT ![m] = NoHandler]
    /\ UNCHANGED <<web, expired, enabled, known, row, result, enquiries, job, creating, budget>>

NewEnquiry(k) == [contact |-> k, state |-> "open"]

CreateQualified(m) ==
    /\ handler[m].pc = "create"
    /\ enquiries' = Append(enquiries, NewEnquiry(From[m]))
    /\ Thread(m, Len(enquiries) + 1)
    /\ handler' = [handler EXCEPT ![m] = NoHandler]
    /\ UNCHANGED <<web, expired, enabled, known, row, result, job, creating, budget>>

-----------------------------------------------------------------------------
(* Staff.                                                                  *)

(* EnquiryService.create, in two steps: the check and the transaction. *)
CheckNoOpenEnquiry(k) ==
    /\ k \in known /\ Open(k) = {}
    /\ Spend("creations")
    /\ creating' = [creating EXCEPT ![k] = @ + 1]
    /\ UNCHANGED <<web, expired, enabled, known, store, job, handler>>

Create(k) ==
    /\ creating[k] > 0
    /\ creating' = [creating EXCEPT ![k] = @ - 1]
    /\ enquiries' = Append(enquiries, NewEnquiry(k))
    /\ UNCHANGED <<web, expired, enabled, known, row, result, threads, job, handler, budget>>

(* statusChange to CLOSED_LOST or CONVERTED, and back from CLOSED_LOST. *)
Close(e, how) ==
    /\ enquiries[e].state = "open"
    /\ Spend("closings")
    /\ enquiries' = [enquiries EXCEPT ![e].state = how]
    /\ UNCHANGED <<web, expired, enabled, known, row, result, threads, job, handler, creating>>

Reopen(e) ==
    /\ enquiries[e].state = "lost"
    /\ Spend("reopenings")
    /\ enquiries' = [enquiries EXCEPT ![e].state = "open"]
    /\ UNCHANGED <<web, expired, enabled, known, row, result, threads, job, handler, creating>>

-----------------------------------------------------------------------------
(* Faults.                                                                 *)

(* An awaited operation of a request fails: the provider gets a 500, or    *)
(* has its 200 already.                                                    *)
RequestFails(r) ==
    /\ ~At(r, "idle")
    /\ Spend("faults")
    /\ Return(r)
    /\ UNCHANGED <<answer, key, expired, enabled, known, store, job, handler, creating>>

(* qualify throws before its try, so that the row is as it was, or in its  *)
(* catch: BullMQ tries the job again while it has attempts.                *)
JobFails(m) ==
    /\ \/ job[m].pc = "waiting" /\ ~\E n \in Messages : Working(n)
       \/ job[m].pc = "review"
    /\ Spend("faults")
    /\ job' = [job EXCEPT ![m] =
                 [pc |-> IF @.made + 1 < MaxAttempts THEN "waiting" ELSE "failed",
                  made |-> @.made + 1]]
    /\ UNCHANGED <<web, expired, enabled, known, store, handler, creating>>

(* The transaction of qualify fails. *)
SettleFails(m) ==
    /\ job[m].pc = "classify"
    /\ Spend("faults")
    /\ GoOn(m, "review")
    /\ UNCHANGED <<web, expired, enabled, known, store, handler, creating>>

(* handleQualified fails: an event's listener has nobody to report to. *)
HandlerFails(m) ==
    /\ handler[m].pc # "none"
    /\ Spend("faults")
    /\ handler' = [handler EXCEPT ![m] = NoHandler]
    /\ UNCHANGED <<web, expired, enabled, known, store, job, creating>>

(* The process restarts: only the database and the queue remain. *)
Crash ==
    /\ Spend("crashes")
    /\ request' = [r \in Requests |-> Idle]
    /\ handler' = [m \in Messages |-> NoHandler]
    /\ creating' = [k \in Contacts |-> 0]
    /\ job' = [m \in Messages |-> IF Working(m) THEN [job[m] EXCEPT !.pc = "waiting"] ELSE job[m]]
    /\ UNCHANGED <<answer, key, expired, enabled, known, store>>

-----------------------------------------------------------------------------
Serve(r) ==
    \/ ReadKey(r) \/ ClaimKey(r) \/ CheckEnabled(r) \/ FindContact(r) \/ CreateContact(r)
    \/ FindActive(r) \/ FindClosed(r) \/ StoreForAppend(r) \/ StoreForReopen(r)
    \/ StoreForQualification(r) \/ AppendMessage(r) \/ ReopenMessage(r) \/ AddJob(r)
    \/ Stamp(r) \/ Complete(r)

Qualify(m) == StartQualify(m) \/ Settle(m) \/ Finish(m) \/ Review(m)
HandleQualified(m) == FindOpen(m) \/ AppendQualified(m) \/ CreateQualified(m)

Staff ==
    \/ \E k \in Contacts : CheckNoOpenEnquiry(k) \/ Create(k)
    \/ \E e \in DOMAIN enquiries :
          Reopen(e) \/ \E how \in {"lost", "converted"} : Close(e, how)
    \/ Toggle

Fault ==
    \/ \E r \in Requests : RequestFails(r)
    \/ \E m \in Messages : JobFails(m) \/ SettleFails(m) \/ HandlerFails(m)
    \/ Crash

Next ==
    \/ \E m \in Messages :
          Qualify(m) \/ HandleQualified(m) \/ Expire(m) \/ \E r \in Requests : Deliver(r, m)
    \/ \E r \in Requests : Serve(r)
    \/ Staff
    \/ Fault

Spec == Init /\ [][Next]_vars

(* The process goes on with the requests, jobs and handlers it has. *)
Fairness ==
    /\ \A r \in Requests : WF_vars(Serve(r))
    /\ \A m \in Messages : WF_vars(Qualify(m)) /\ WF_vars(HandleQualified(m))
FairSpec == Spec /\ Fairness

-----------------------------------------------------------------------------
(* Properties.                                                             *)

(* README.md, "webhook retries never create duplicate messages": however   *)
(* often a message is delivered, at the same time or after a failure, and  *)
(* whatever fails or restarts on the way, it appears in one thread once.   *)
ThreadedOnce == \A m \in Messages : Len(threads[m]) <= 1

(* A 200 is not given away: what the provider was told is accepted, and so *)
(* never delivers again, has a row.                                        *)
AcceptedIsStored == \A m \in Messages : answer[m] = "accepted" => row[m] # "NONE"

(* A stored message has a place to be found, in a thread or among the      *)
(* messages set aside as spam or for review, or somebody is on the way of  *)
(* putting it there: a request, the worker, or the handler of the event.   *)
SetAside(m) == row[m] \in {"SPAM", "NEEDS_REVIEW"}
OnItsWay(m) ==
    \/ \E r \in Requests : Msg(r) = m /\ request[r].pc \in {"thread", "rethread", "add"}
    \/ job[m].pc = "waiting" \/ Working(m)
    \/ handler[m].pc # "none"
NothingLost ==
    \A m \in Messages : row[m] # "NONE" => threads[m] # <<>> \/ SetAside(m) \/ OnItsWay(m)

(* Once a message is filed it stays filed: a later attempt of its job does *)
(* not take a real enquiry for spam, nor put either back in progress.      *)
FilingIsFinal ==
    [][\A m \in Messages : m \in result /\ row[m] \in Final => row'[m] = row[m]]_vars

(* While keys do not expire, at most one request is past the guard with a  *)
(* given message.                                                          *)
Admitted(r) == request[r].pc \notin {"idle", "guard", "claim", "complete"}
OneRequestAdmitted ==
    \A r, s \in Requests : r # s /\ Admitted(r) /\ Admitted(s) => Msg(r) # Msg(s)

(* The path of a message as its provider, its customer and the staff see   *)
(* it.                                                                     *)
StandingOf(status) ==
    CASE status = "NONE" -> "unknown" [] status \in Final -> status [] OTHER -> "received"

Promise == INSTANCE Intake WITH
    told <- answer,
    standing <- [m \in Messages |-> StandingOf(row[m])],
    owners <- [e \in DOMAIN enquiries |-> enquiries[e].contact],
    places <- threads

(* Every run of the inbound path is a run of that one: a provider is told  *)
(* of stored messages only; a message counts as real unseen only if its    *)
(* customer has an enquiry, and is judged once otherwise; it is placed     *)
(* once, if it is real, among the messages of its own customer; and an     *)
(* enquiry stays with its customer.                                        *)
ImplementsIntake == Promise!Spec

(* What a provider was told is accepted is filed in the end. *)
EventuallyFiled ==
    \A m \in Messages :
        (answer[m] = "accepted") ~> (threads[m] # <<>> \/ SetAside(m))

-----------------------------------------------------------------------------
(* What the repository's comments and documents say of this code.          *)

(* qualification.service.ts never loses a message: one it has qualified as *)
(* a real enquiry is in a thread, or its job or the handler of its event   *)
(* is going to put it there.                                               *)
RealEnquiriesThreaded ==
    \A m \in result :
        row[m] = "REAL_ENQUIRY" => threads[m] # <<>> \/ OnItsWay(m)

(* architecture.md: one contact has at most one open enquiry. *)
OneOpenEnquiry == \A k \in Contacts : Cardinality(Open(k)) <= 1
=============================================================================
