------------------------------ MODULE Outbound ------------------------------
(***************************************************************************)
(* The outbound pipeline: a message is stored PENDING, put on the BullMQ   *)
(* queue OUTBOUND_QUEUE, processed by a worker that calls the provider,    *)
(* and settled by the worker, by the worker's 'failed' listener and by the *)
(* provider's delivery receipts.  Failed messages are queued again by hand *)
(* (retryMessage) or from the dead-letter list (retryFromDlq).             *)
(*                                                                         *)
(* Everything runs in one Node process, so what is atomic is the stretch   *)
(* between two awaits.  An asynchronous call in progress occupies one slot *)
(* of Calls, and its "pc" names the await it is resuming from.             *)
(***************************************************************************)
EXTENDS Integers, Sequences

CONSTANTS
    Messages,     \* outbound ConversationMessage rows that may be created
    NoMessage,    \* what an idle slot works on
    Calls,        \* slots for asynchronous calls in progress
    Unroutable,   \* messages with no recipient or on a channel with no queue
    MaxAttempts,  \* JOB_OPTIONS.attempts
    Budget        \* bounds on what the environment does: see Limited

Limited == {
    "composer",   \* sends by OutboundSendService (send, forward)
    "events",     \* sends by sendMessage or addAiReply
    "retries",    \* calls of retryMessage
    "dlq",        \* calls of retryFromDlq
    "receipts",   \* provider receipts that match a message
    "faults",     \* Redis, database or network failures
    "crashes"}    \* process restarts
Budgets == [Limited -> Nat]

ASSUME OutboundAssumption ==
    /\ Unroutable \subseteq Messages
    /\ NoMessage \notin Messages
    /\ MaxAttempts \in Nat \ {0}
    /\ Budget \in Budgets
    /\ Budget["crashes"] <= 1   \* BullMQ fails a job that stalls twice

VARIABLES
    status,      \* deliveryStatus of each message, "NONE" before creation
    queueJobId,  \* queueJobId column, 0 for null
    externalId,  \* externalId column: which accepted copy it names, 0 for null
    retryCount,  \* retryCount column
    files,       \* attachments: "none", still on the draft, or copied
    deadLetter,  \* the message's OutboundDeadLetter row
    jobs,        \* the BullMQ jobs ever added, indexed by job id
    call,        \* asynchronous calls in progress
    deliveries,  \* copies the provider accepted, oldest first
    budget       \* what is left of Budget

vars == <<status, queueJobId, externalId, retryCount, files, deadLetter,
          jobs, call, deliveries, budget>>
row == <<queueJobId, externalId, retryCount, files, deadLetter>>

Status == {"NONE", "PENDING", "SENT", "DELIVERED", "READ", "FAILED"}
Confirmed == {"SENT", "DELIVERED", "READ"}

(* The worker's progress on a job is part of the job's state. *)
Active == {"sending", "recording", "unconfigured"}
Live == {"waiting", "delayed"} \cup Active
JobState == Live \cup {"completed", "failed"}

Job == [msg: Messages, files: BOOLEAN, state: JobState, made: Nat, copy: Nat]
Copy == [job: Nat, files: BOOLEAN]

Op == {"none", "send", "handle", "retry", "dlq", "receipt", "failed"}
Await == {"idle", "copy", "check", "reset", "enqueue", "add", "record",
          "resolve", "apply", "mark", "bury"}
CallRecord == [op: Op, pc: Await, msg: Messages \cup {NoMessage}, job: Nat,
               files: BOOLEAN, news: Status]
CallTable == {t \in [Calls -> CallRecord] :
                 \A c \in Calls : t[c].pc # "idle" => t[c].msg \in Messages}

TypeOK ==
    /\ status \in [Messages -> Status]
    /\ queueJobId \in [Messages -> Nat]
    /\ externalId \in [Messages -> Nat]
    /\ retryCount \in [Messages -> Nat]
    /\ files \in [Messages -> {"none", "draft", "copied"}]
    /\ deadLetter \in [Messages -> {"none", "open", "resolved"}]
    /\ jobs \in Seq(Job)
    /\ call \in CallTable
    /\ deliveries \in [Messages -> Seq(Copy)]
    /\ budget \in Budgets

NewCall(op, pc, m) ==
    [op |-> op, pc |-> pc, msg |-> m, job |-> 0, files |-> FALSE, news |-> "NONE"]
Idle == NewCall("none", "idle", NoMessage)

Init ==
    /\ status = [m \in Messages |-> "NONE"]
    /\ queueJobId = [m \in Messages |-> 0]
    /\ externalId = [m \in Messages |-> 0]
    /\ retryCount = [m \in Messages |-> 0]
    /\ files = [m \in Messages |-> "none"]
    /\ deadLetter = [m \in Messages |-> "none"]
    /\ jobs = <<>>
    /\ call = [c \in Calls |-> Idle]
    /\ deliveries = [m \in Messages |-> <<>>]
    /\ budget = Budget

-----------------------------------------------------------------------------
(* Calls.                                                                  *)

At(c, pc) == call[c].pc = pc

Goto(c, pc) == call' = [call EXCEPT ![c].pc = pc]
Return(c) == call' = [call EXCEPT ![c] = Idle]

(* emitter.emit('message.outbound') runs handleOutbound up to its first    *)
(* await, the read of queueJobId, and goes on with the emitting call.      *)
EventHandler(m) == NewCall("handle", "check", m)

Spend(what) ==
    /\ budget[what] > 0
    /\ budget' = [budget EXCEPT ![what] = @ - 1]

-----------------------------------------------------------------------------
(* Creating a message.                                                     *)

(* OutboundSendService.send and forward, up to and including the           *)
(* transaction of addOutboundMessage and the event it emits.  What is left *)
(* is copying attachments, if there are any, and queueing the message.     *)
SendFromComposer(c, h, m) ==
    /\ At(c, "idle") /\ At(h, "idle") /\ c # h
    /\ status[m] = "NONE"
    /\ Spend("composer")
    /\ status' = [status EXCEPT ![m] = "PENDING"]
    /\ \E attached \in BOOLEAN :
          /\ files' = [files EXCEPT ![m] = IF attached THEN "draft" ELSE "none"]
          /\ call' = [call EXCEPT
                        ![c] = NewCall("send", IF attached THEN "copy" ELSE "enqueue", m),
                        ![h] = EventHandler(m)]
    /\ UNCHANGED <<queueJobId, externalId, retryCount, deadLetter, jobs, deliveries>>

(* EnquiryService.sendMessage and addAiReply queue through the event only. *)
SendByEvent(h, m) ==
    /\ At(h, "idle")
    /\ status[m] = "NONE"
    /\ Spend("events")
    /\ status' = [status EXCEPT ![m] = "PENDING"]
    /\ call' = [call EXCEPT ![h] = EventHandler(m)]
    /\ UNCHANGED <<row, jobs, deliveries>>

(* Draft or source attachments become MessageAttachment rows. *)
CopyAttachments(c) ==
    /\ At(c, "copy")
    /\ files' = [files EXCEPT ![call[c].msg] = "copied"]
    /\ Goto(c, "enqueue")
    /\ UNCHANGED <<status, queueJobId, externalId, retryCount, deadLetter,
                   jobs, deliveries, budget>>

-----------------------------------------------------------------------------
(* Queueing a message.                                                     *)

(* The guard of handleOutbound. *)
AlreadyQueued(m) == queueJobId[m] # 0

CheckQueued(c) ==
    /\ At(c, "check")
    /\ IF AlreadyQueued(call[c].msg) THEN Return(c) ELSE Goto(c, "enqueue")
    /\ UNCHANGED <<status, row, jobs, deliveries, budget>>

(* enqueue: give up on a message that cannot be routed, else read its      *)
(* attachments for the job's payload.                                      *)
PrepareJob(c) ==
    LET m == call[c].msg IN
    /\ At(c, "enqueue")
    /\ \/ /\ m \in Unroutable
          /\ status' = [status EXCEPT ![m] = "FAILED"]
          /\ Return(c)
       \/ /\ m \notin Unroutable
          /\ call' = [call EXCEPT ![c].pc = "add", ![c].files = files[m] = "copied"]
          /\ UNCHANGED status
    /\ UNCHANGED <<row, jobs, deliveries, budget>>

(* outboundQueue.add *)
AddJob(c) ==
    /\ At(c, "add")
    /\ jobs' = Append(jobs, [msg |-> call[c].msg, files |-> call[c].files,
                             state |-> "waiting", made |-> 0, copy |-> 0])
    /\ call' = [call EXCEPT ![c].pc = "record", ![c].job = Len(jobs) + 1,
                            ![c].files = FALSE]
    /\ UNCHANGED <<status, row, deliveries, budget>>

RecordJobId(c) ==
    /\ At(c, "record")
    /\ queueJobId' = [queueJobId EXCEPT ![call[c].msg] = call[c].job]
    /\ Return(c)
    /\ UNCHANGED <<status, externalId, retryCount, files, deadLetter, jobs,
                   deliveries, budget>>

-----------------------------------------------------------------------------
(* Queueing a failed message again.                                        *)

(* The reset shared by retryMessage and retryFromDlq. *)
ResetMessage(m) ==
    /\ status' = [status EXCEPT ![m] = "PENDING"]
    /\ queueJobId' = [queueJobId EXCEPT ![m] = 0]
    /\ retryCount' = [retryCount EXCEPT ![m] = @ + 1]
    /\ UNCHANGED <<externalId, files, deadLetter>>

(* retryMessage reads the message and refuses one that is not FAILED. *)
Retry(c, m) ==
    /\ At(c, "idle")
    /\ status[m] = "FAILED"
    /\ Spend("retries")
    /\ call' = [call EXCEPT ![c] = NewCall("retry", "reset", m)]
    /\ UNCHANGED <<status, row, jobs, deliveries>>

ResetForRetry(c) ==
    /\ At(c, "reset") /\ call[c].op = "retry"
    /\ ResetMessage(call[c].msg)
    /\ Goto(c, "enqueue")
    /\ UNCHANGED <<jobs, deliveries, budget>>

(* retryFromDlq only asks that the dead-letter row exists. *)
RetryFromDlq(c, m) ==
    /\ At(c, "idle")
    /\ deadLetter[m] # "none"
    /\ Spend("dlq")
    /\ call' = [call EXCEPT ![c] = NewCall("dlq", "reset", m)]
    /\ UNCHANGED <<status, row, jobs, deliveries>>

ResetFromDlq(c, h) ==
    /\ At(c, "reset") /\ call[c].op = "dlq"
    /\ At(h, "idle")
    /\ ResetMessage(call[c].msg)
    /\ call' = [call EXCEPT ![c].pc = "resolve", ![h] = EventHandler(call[c].msg)]
    /\ UNCHANGED <<jobs, deliveries, budget>>

ResolveDeadLetter(c) ==
    /\ At(c, "resolve")
    /\ deadLetter' = [deadLetter EXCEPT ![call[c].msg] = "resolved"]
    /\ Return(c)
    /\ UNCHANGED <<status, queueJobId, externalId, retryCount, files, jobs,
                   deliveries, budget>>

(* DlqService.discard *)
Discard(m) ==
    /\ deadLetter[m] # "none"
    /\ deadLetter' = [deadLetter EXCEPT ![m] = "resolved"]
    /\ UNCHANGED <<status, queueJobId, externalId, retryCount, files, jobs,
                   call, deliveries, budget>>

-----------------------------------------------------------------------------
(* The worker.                                                             *)

(* handleEmail, handleWhatsApp: read the message, skip it unless PENDING.  *)
FirstTimeOnly(m) ==                      \* mutant: a message queued again is skipped
    status[m] = "PENDING" /\ retryCount[m] = 0
MayProcess(m) == status[m] = "PENDING"

StartAttempt(j) ==
    /\ jobs[j].state \in {"waiting", "delayed"}
    /\ jobs' = [jobs EXCEPT ![j].state =
                   IF MayProcess(jobs[j].msg) THEN "sending" ELSE "completed"]
    /\ UNCHANGED <<status, row, call, deliveries, budget>>

(* A failed attempt: BullMQ counts it, schedules another one unless        *)
(* attempts are exhausted, and emits 'failed' to onJobFailed either way.   *)
AfterFailure(made) == IF made < MaxAttempts THEN "delayed" ELSE "failed"

FailAttempt(j, h) ==
    /\ At(h, "idle")
    /\ jobs' = [jobs EXCEPT ![j].made = @ + 1, ![j].copy = 0,
                            ![j].state = AfterFailure(jobs[j].made + 1)]
    /\ call' = [call EXCEPT ![h] = NewCall("failed", "mark", jobs[j].msg)]

Deliver(j) ==
    deliveries' = [deliveries EXCEPT ![jobs[j].msg] =
                      Append(@, [job |-> j, files |-> jobs[j].files])]

(* The provider accepts the message and its answer arrives. *)
ProviderAccepts(j) ==
    /\ jobs[j].state = "sending"
    /\ Deliver(j)
    /\ jobs' = [jobs EXCEPT ![j].state = "recording",
                            ![j].copy = Len(deliveries[jobs[j].msg]) + 1]
    /\ UNCHANGED <<status, row, call, budget>>

(* mutant: an error after the provider's answer counts as a refusal *)
RejectsLate(j, h) ==
    /\ jobs[j].state \in {"sending", "recording"}
    /\ FailAttempt(j, h)
    /\ UNCHANGED <<status, row, deliveries, budget>>

(* The provider refuses it, or the channel is off: a transient error. *)
ProviderRejects(j, h) ==
    /\ jobs[j].state = "sending"
    /\ FailAttempt(j, h)
    /\ UNCHANGED <<status, row, deliveries, budget>>

(* The provider accepts it but the answer is lost (a timeout, or a network *)
(* error on a later attachment): the worker sees a transient error.        *)
AnswerLost(j, h) ==
    /\ jobs[j].state = "sending"
    /\ Spend("faults")
    /\ Deliver(j)
    /\ FailAttempt(j, h)
    /\ UNCHANGED <<status, row>>

(* "not configured": no retry; updateAndEmit marks the message FAILED. *)
AdapterNotConfigured(j) ==
    /\ jobs[j].state = "sending"
    /\ jobs' = [jobs EXCEPT ![j].state = "unconfigured"]
    /\ UNCHANGED <<status, row, call, deliveries, budget>>

(* mutant: the result is dropped and the message stays as it is *)
IgnoreUnconfigured(j) ==
    /\ jobs[j].state = "unconfigured"
    /\ jobs' = [jobs EXCEPT ![j].state = "completed"]
    /\ UNCHANGED <<status, row, call, deliveries, budget>>

MarkUnconfigured(j) ==
    /\ jobs[j].state = "unconfigured"
    /\ jobs' = [jobs EXCEPT ![j].state = "completed"]
    /\ status' = [status EXCEPT ![jobs[j].msg] = "FAILED"]
    /\ UNCHANGED <<row, call, deliveries, budget>>

(* mutant: SENT is written before the provider is called *)
RecordFirst(j) ==
    /\ jobs[j].state \in {"sending", "recording"}
    /\ jobs' = [jobs EXCEPT ![j].state = "completed", ![j].copy = 0]
    /\ status' = [status EXCEPT ![jobs[j].msg] = "SENT"]
    /\ externalId' = [externalId EXCEPT ![jobs[j].msg] = jobs[j].copy]
    /\ UNCHANGED <<queueJobId, retryCount, files, deadLetter, call, deliveries, budget>>

(* updateAndEmit on success: an unconditional update. *)
RecordSent(j) ==
    /\ jobs[j].state = "recording"
    /\ jobs' = [jobs EXCEPT ![j].state = "completed", ![j].copy = 0]
    /\ status' = [status EXCEPT ![jobs[j].msg] = "SENT"]
    /\ externalId' = [externalId EXCEPT ![jobs[j].msg] = jobs[j].copy]
    /\ UNCHANGED <<queueJobId, retryCount, files, deadLetter, call, deliveries, budget>>

(* The update after the answer fails: process() throws and BullMQ retries  *)
(* the whole job.                                                          *)
UpdateFails(j, h) ==
    /\ jobs[j].state \in {"recording", "unconfigured"}
    /\ Spend("faults")
    /\ FailAttempt(j, h)
    /\ UNCHANGED <<status, row, deliveries>>

(* mutant: the listener stops after the status *)
MarkAndStop(c) ==
    /\ At(c, "mark")
    /\ status' = [status EXCEPT ![call[c].msg] = "FAILED"]
    /\ Return(c)
    /\ UNCHANGED <<row, jobs, deliveries, budget>>

(* onJobFailed, called on every failed attempt. *)
MarkFailed(c) ==
    /\ At(c, "mark")
    /\ status' = [status EXCEPT ![call[c].msg] = "FAILED"]
    /\ Goto(c, "bury")
    /\ UNCHANGED <<row, jobs, deliveries, budget>>

Bury(c) ==
    /\ At(c, "bury")
    /\ deadLetter' = [deadLetter EXCEPT ![call[c].msg] = "open"]
    /\ Return(c)
    /\ UNCHANGED <<status, queueJobId, externalId, retryCount, files, jobs,
                   deliveries, budget>>

-----------------------------------------------------------------------------
(* Delivery receipts.                                                      *)

(* What DeliveryTrackingService makes of a SendGrid event. *)
RawStatus == {"SENT", "DELIVERED", "bounce"}   \* mutant: passed on unparsed
ReceiptStatus == {"SENT", "DELIVERED", "READ", "FAILED"}

(* STATUS_RANK, and the statuses an incoming one may overwrite.  FAILED    *)
(* has no lower status, and the query then carries no status filter.       *)
Rank(s) ==
    CASE s = "PENDING" -> 0 [] s = "SENT" -> 1 [] s = "DELIVERED" -> 2
      [] s = "READ" -> 3 [] s = "FAILED" -> -1 [] OTHER -> 0
OverwriteAny(s) == Status                \* mutant: no rank check
Overwritable(s) ==
    IF s = "FAILED" THEN Status ELSE {t \in Status : Rank(t) < Rank(s)}

(* updateDeliveryStatusByExternalId finds the message by the provider's    *)
(* id.  A receipt for a copy that externalId does not name is dropped.     *)
AnyMessage(m, copy) == TRUE              \* mutant: the id is not compared
ReceiptFor(m, copy) == copy # 0 /\ externalId[m] = copy

Receipt(c, m, s) ==
    /\ At(c, "idle")
    /\ Spend("receipts")
    /\ \E copy \in 0 .. Len(deliveries[m]) : ReceiptFor(m, copy)
    /\ call' = [call EXCEPT ![c] = [op |-> "receipt", pc |-> "apply", msg |-> m,
                                    job |-> 0, files |-> FALSE, news |-> s]]
    /\ UNCHANGED <<status, row, jobs, deliveries>>

(* updateDeliveryStatus: one conditional update. *)
ApplyReceipt(c) ==
    LET m == call[c].msg IN
    /\ At(c, "apply")
    /\ status' = [status EXCEPT ![m] =
                     IF @ \in Overwritable(call[c].news) THEN call[c].news ELSE @]
    /\ Return(c)
    /\ UNCHANGED <<row, jobs, deliveries, budget>>

-----------------------------------------------------------------------------
(* Faults.                                                                 *)

(* An awaited database or queue operation of a call fails.  handleOutbound *)
(* catches the error, whatever it was, and marks the message FAILED;       *)
(* onJobFailed logs it; the other calls let it propagate.                  *)
StatusAfterError(c) ==
    IF call[c].op = "handle" THEN "FAILED" ELSE status[call[c].msg]

CallFails(c) ==
    /\ ~At(c, "idle")
    /\ Spend("faults")
    /\ status' = [status EXCEPT ![call[c].msg] = StatusAfterError(c)]
    /\ Return(c)
    /\ UNCHANGED <<row, jobs, deliveries>>

(* The process dies and restarts: calls are gone, the database and the     *)
(* queue survive, and BullMQ puts the stalled jobs back.                   *)
Crash ==
    /\ Spend("crashes")
    /\ call' = [c \in Calls |-> Idle]
    /\ jobs' = [j \in DOMAIN jobs |->
                  IF jobs[j].state \in Active
                  THEN [jobs[j] EXCEPT !.state = "waiting", !.copy = 0]
                  ELSE jobs[j]]
    /\ UNCHANGED <<status, row, deliveries>>

-----------------------------------------------------------------------------
Resume(c) ==
    \/ CopyAttachments(c) \/ CheckQueued(c) \/ PrepareJob(c) \/ AddJob(c)
    \/ RecordJobId(c) \/ ResetForRetry(c) \/ ResolveDeadLetter(c)
    \/ MarkFailed(c) \/ Bury(c) \/ ApplyReceipt(c)
    \/ \E h \in Calls : ResetFromDlq(c, h)

Work(j) ==
    \/ StartAttempt(j) \/ ProviderAccepts(j) \/ AdapterNotConfigured(j)
    \/ MarkUnconfigured(j) \/ RecordSent(j)
    \/ \E h \in Calls : ProviderRejects(j, h)

Request ==
    \E m \in Messages, c \in Calls :
        \/ \E h \in Calls : SendFromComposer(c, h, m)
        \/ SendByEvent(c, m)
        \/ Retry(c, m)
        \/ RetryFromDlq(c, m)
        \/ \E s \in ReceiptStatus : Receipt(c, m, s)

Fault ==
    \/ \E c \in Calls : CallFails(c)
    \/ \E j \in DOMAIN jobs, h \in Calls : AnswerLost(j, h) \/ UpdateFails(j, h)
    \/ Crash

Next ==
    \/ Request
    \/ \E c \in Calls : Resume(c)
    \/ \E j \in DOMAIN jobs : Work(j)
    \/ \E m \in Messages : Discard(m)
    \/ Fault

Spec == Init /\ [][Next]_vars

(* A running process resumes its calls, and its worker takes the jobs off  *)
(* the queue one attempt after another; users, providers and faults owe    *)
(* nothing.                                                                *)
JobIds == 1 .. (2 * Budget["composer"] + Budget["events"] + Budget["retries"] + Budget["dlq"])
Fairness ==
    /\ \A c \in Calls : WF_vars(Resume(c))
    /\ \A j \in JobIds : WF_vars(j \in DOMAIN jobs /\ Work(j))
FairSpec == Spec /\ Fairness

-----------------------------------------------------------------------------
(* Properties.                                                             *)

(* A message shows as SENT, DELIVERED or READ only if the provider really  *)
(* accepted a copy of it, and the provider id stored with it names such a  *)
(* copy: whatever the order in which the worker, the 'failed' listener,    *)
(* late receipts, retries, faults and restarts write the row.              *)
NoPhantomConfirmation ==
    \A m \in Messages :
        /\ status[m] \in Confirmed => deliveries[m] # <<>>
        /\ externalId[m] \in 0 .. Len(deliveries[m])

(* As long as answers are not lost and the process does not restart, one   *)
(* job never makes the provider accept two copies, however many of its     *)
(* attempts fail: copies come from jobs, never from attempts.              *)
OneCopyPerJob ==
    \A m \in Messages : \A i, k \in DOMAIN deliveries[m] :
        i # k => deliveries[m][i].job # deliveries[m][k].job

(* Somebody still has to act on every PENDING message: a call about to     *)
(* queue it, a job that is not over, or a failure about to be recorded.    *)
(* Otherwise it would stay PENDING forever, and neither retryMessage       *)
(* (FAILED only) nor the dead-letter list could reach it.                  *)
Queueing(m) ==
    \E c \in Calls : /\ call[c].msg = m
                     /\ \/ call[c].pc \in {"copy", "enqueue", "add", "mark"}
                        \/ call[c].pc = "check" /\ queueJobId[m] = 0
HasLiveJob(m) == \E j \in DOMAIN jobs : jobs[j].msg = m /\ jobs[j].state \in Live
PendingIsOwned ==
    \A m \in Messages : status[m] = "PENDING" => Queueing(m) \/ HasLiveJob(m)

(* A job whose attempts are exhausted leaves a dead-letter row behind, or  *)
(* its 'failed' listener is still about to write one.                      *)
ExhaustedIsBuried ==
    \A j \in DOMAIN jobs :
        jobs[j].state = "failed" =>
            \/ deadLetter[jobs[j].msg] # "none"
            \/ \E c \in Calls : /\ call[c].msg = jobs[j].msg
                                /\ call[c].pc \in {"mark", "bury"}

(* Receipts that arrive out of order do not take a confirmed message back: *)
(* DELIVERED never returns to SENT, nor READ to DELIVERED.                 *)
ConfirmationsAdvance ==
    [][\A m \in Messages :
          status[m] \in Confirmed /\ status'[m] \in Confirmed
              => Rank(status'[m]) >= Rank(status[m])]_vars

(* Nothing stays PENDING: each message is sent or marked FAILED in the end. *)
EventuallySettled ==
    \A m \in Messages : (status[m] = "PENDING") ~> (status[m] # "PENDING")

(* The message lifecycle as the rest of the system may rely on it. *)
Lifecycle == INSTANCE Delivery WITH
    state <- [m \in Messages |->
                CASE status[m] = "NONE" -> "unsent" [] status[m] = "PENDING" -> "pending"
                  [] status[m] = "FAILED" -> "failed" [] OTHER -> "confirmed"],
    copies <- [m \in Messages |-> Len(deliveries[m])]

(* Every run of the pipeline is a run of that lifecycle: copies only go    *)
(* out for created messages and are never taken back, and a message is     *)
(* confirmed only once a copy is out.                                      *)
ImplementsLifecycle == Lifecycle!Spec

-----------------------------------------------------------------------------
(* What the repository's comments and documents say of this code.          *)

(* outbound-send.service.ts: the guard in handleOutbound prevents a send   *)
(* from queueing its message twice.                                        *)
SendQueuesOnce ==
    \A i, k \in DOMAIN jobs :
        i # k /\ jobs[i].msg = jobs[k].msg => retryCount[jobs[i].msg] > 0

(* outbound.processor.ts: a message with attempts left stays PENDING. *)
PendingUntilExhausted ==
    \A j \in DOMAIN jobs : jobs[j].state = "delayed" => status[jobs[j].msg] # "FAILED"
=============================================================================
