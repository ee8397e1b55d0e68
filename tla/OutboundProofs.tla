--------------------------- MODULE OutboundProofs ---------------------------
(* Theorems about Outbound, for any messages, calls and budget. *)
EXTENDS Outbound, SequenceTheorems, TLAPS

-----------------------------------------------------------------------------
(* The values that the actions store.                                      *)

(* The calls that are started, as records. *)
LEMMA NewCallType ==
    ASSUME NEW op \in Op, NEW pc \in Await, NEW m \in Messages
    PROVE  /\ NewCall(op, pc, m) \in CallRecord
           /\ NewCall(op, pc, m).pc = pc
           /\ NewCall(op, pc, m).msg = m
           /\ NewCall(op, pc, m).op = op
           /\ NewCall(op, pc, m).job = 0
  BY DEF NewCall, CallRecord, Status

LEMMA IdleType == /\ Idle \in CallRecord /\ Idle.pc = "idle" /\ Idle.msg = NoMessage
                  /\ Idle.job = 0 /\ Idle.op = "none"
  BY DEF Idle, NewCall, CallRecord, Op, Await, Status

(* A call that changes, and one that ends. *)
LEMMA UpdateCall ==
    ASSUME TypeOK, NEW c \in Calls, NEW r \in CallRecord,
           r.pc # "idle" => r.msg \in Messages
    PROVE  [call EXCEPT ![c] = r] \in CallTable
  BY DEF TypeOK, CallTable

LEMMA EndCall ==
    ASSUME TypeOK, NEW c \in Calls, Return(c)
    PROVE  call' \in CallTable
  BY UpdateCall, IdleType DEF Return

(* A resumed call has a message. *)
LEMMA BusyCall ==
    ASSUME TypeOK, NEW c \in Calls, call[c].pc # "idle"
    PROVE  call[c] \in CallRecord /\ call[c].msg \in Messages
  BY DEF TypeOK, CallTable

(* What it spends leaves a budget behind. *)
LEMMA SpendType ==
    ASSUME TypeOK, NEW what \in Limited, Spend(what)
    PROVE  budget' \in Budgets
  BY DEF TypeOK, Spend, Budgets

(* A job that is replaced by a job leaves a sequence of jobs of the same   *)
(* length behind.                                                          *)
LEMMA UpdateJob ==
    ASSUME TypeOK, NEW j \in DOMAIN jobs, NEW r \in Job
    PROVE  [jobs EXCEPT ![j] = r] \in Seq(Job)
  BY ExceptSeq DEF TypeOK

-----------------------------------------------------------------------------
(* Each action keeps every variable to its type.                           *)

LEMMA SendFromComposerType ==
    ASSUME TypeOK, NEW c \in Calls, NEW h \in Calls, NEW m \in Messages, SendFromComposer(c, h, m)
    PROVE  TypeOK'
<1>1. budget' \in Budgets
  BY SpendType DEF SendFromComposer, Limited
<1>2. PICK attached \in BOOLEAN :
          /\ files' = [files EXCEPT ![m] = IF attached THEN "draft" ELSE "none"]
          /\ call' = [call EXCEPT
                        ![c] = NewCall("send", IF attached THEN "copy" ELSE "enqueue", m),
                        ![h] = EventHandler(m)]
  BY DEF SendFromComposer
<1>3. /\ NewCall("send", IF attached THEN "copy" ELSE "enqueue", m) \in CallRecord
      /\ NewCall("send", IF attached THEN "copy" ELSE "enqueue", m).msg = m
  BY NewCallType DEF Op, Await
<1>4. EventHandler(m) \in CallRecord /\ EventHandler(m).msg = m
  BY NewCallType DEF Op, Await, EventHandler
<1>5. call' \in CallTable
  BY <1>2, <1>3, <1>4 DEF TypeOK, CallTable
<1> QED
  BY <1>1, <1>2, <1>5 DEF SendFromComposer, TypeOK, Status

LEMMA SendByEventType ==
    ASSUME TypeOK, NEW c \in Calls, NEW m \in Messages, SendByEvent(c, m)
    PROVE  TypeOK'
<1>1. budget' \in Budgets
  BY SpendType DEF SendByEvent, Limited
<1>2. EventHandler(m) \in CallRecord /\ EventHandler(m).msg = m
  BY NewCallType DEF Op, Await, EventHandler
<1>3. call' \in CallTable
  BY <1>2, UpdateCall DEF SendByEvent
<1> QED
  BY <1>1, <1>3 DEF SendByEvent, TypeOK, row, Status

LEMMA RetryType ==
    ASSUME TypeOK, NEW c \in Calls, NEW m \in Messages, Retry(c, m)
    PROVE  TypeOK'
<1>1. budget' \in Budgets
  BY SpendType DEF Retry, Limited
<1>2. NewCall("retry", "reset", m) \in CallRecord /\ NewCall("retry", "reset", m).msg = m
  BY NewCallType DEF Op, Await
<1>3. call' \in CallTable
  BY <1>2, UpdateCall DEF Retry
<1> QED
  BY <1>1, <1>3 DEF Retry, TypeOK, row

LEMMA RetryFromDlqType ==
    ASSUME TypeOK, NEW c \in Calls, NEW m \in Messages, RetryFromDlq(c, m)
    PROVE  TypeOK'
<1>1. budget' \in Budgets
  BY SpendType DEF RetryFromDlq, Limited
<1>2. NewCall("dlq", "reset", m) \in CallRecord /\ NewCall("dlq", "reset", m).msg = m
  BY NewCallType DEF Op, Await
<1>3. call' \in CallTable
  BY <1>2, UpdateCall DEF RetryFromDlq
<1> QED
  BY <1>1, <1>3 DEF RetryFromDlq, TypeOK, row

LEMMA ReceiptType ==
    ASSUME TypeOK, NEW c \in Calls, NEW m \in Messages, NEW s \in ReceiptStatus,
           Receipt(c, m, s)
    PROVE  TypeOK'
<1> DEFINE r == [op |-> "receipt", pc |-> "apply", msg |-> m,
                 job |-> 0, files |-> FALSE, news |-> s]
<1>1. budget' \in Budgets
  BY SpendType DEF Receipt, Limited
<1>2. r \in CallRecord /\ r.msg = m
  BY DEF CallRecord, Op, Await, ReceiptStatus, Status
<1>3. call' = [call EXCEPT ![c] = r]
  BY DEF Receipt
<1> HIDE DEF r
<1>4. call' \in CallTable
  BY <1>2, <1>3, UpdateCall
<1> QED
  BY <1>1, <1>4 DEF Receipt, TypeOK, row

(* A call that goes on to its next await. *)
LEMMA GotoType ==
    ASSUME TypeOK, NEW c \in Calls, call[c].pc # "idle", NEW pc \in Await,
           Goto(c, pc)
    PROVE  call' \in CallTable
<1>1. call[c] \in CallRecord /\ call[c].msg \in Messages
  BY BusyCall
<1>2. /\ [call[c] EXCEPT !.pc = pc] \in CallRecord
      /\ [call[c] EXCEPT !.pc = pc].msg \in Messages
  BY <1>1 DEF CallRecord
<1>3. call' = [call EXCEPT ![c] = [call[c] EXCEPT !.pc = pc]]
  BY DEF Goto
<1> QED
  BY <1>2, <1>3 DEF TypeOK, CallTable

LEMMA CopyAttachmentsType ==
    ASSUME TypeOK, NEW c \in Calls, CopyAttachments(c)
    PROVE  TypeOK'
<1>1. call' \in CallTable
  BY GotoType DEF CopyAttachments, At, Await
<1> QED
  BY <1>1 DEF CopyAttachments, TypeOK

LEMMA CheckQueuedType ==
    ASSUME TypeOK, NEW c \in Calls, CheckQueued(c)
    PROVE  TypeOK'
<1>1. call' \in CallTable
  BY GotoType, EndCall DEF CheckQueued, At, Await
<1> QED
  BY <1>1 DEF CheckQueued, TypeOK, row

LEMMA PrepareJobType ==
    ASSUME TypeOK, NEW c \in Calls, PrepareJob(c)
    PROVE  TypeOK'
<1>1. call[c] \in CallRecord /\ call[c].msg \in Messages
  BY BusyCall DEF PrepareJob, At
<1>2. CASE call[c].msg \in Unroutable
  <2>1. call' \in CallTable /\ status' = [status EXCEPT ![call[c].msg] = "FAILED"]
    BY <1>2, EndCall DEF PrepareJob
  <2> QED
    BY <2>1 DEF PrepareJob, TypeOK, row, Status
<1>3. CASE call[c].msg \notin Unroutable
  <2> DEFINE r(b) == [call[c] EXCEPT !.pc = "add", !.files = b]
  <2>1. \A b \in BOOLEAN : r(b) \in CallRecord /\ r(b).msg \in Messages
    BY <1>1 DEF CallRecord, Await
  <2>2. PICK b \in BOOLEAN : call' = [call EXCEPT ![c].pc = "add", ![c].files = b]
    BY <1>3 DEF PrepareJob
  <2>3. call' = [call EXCEPT ![c] = r(b)]
    BY <2>2 DEF TypeOK, CallTable
  <2>4. status' = status
    BY <1>3 DEF PrepareJob
  <2> HIDE DEF r
  <2>5. call' \in CallTable
    BY <2>1, <2>3 DEF TypeOK, CallTable
  <2> QED
    BY <2>4, <2>5 DEF PrepareJob, TypeOK, row
<1> QED
  BY <1>2, <1>3

LEMMA AddJobType ==
    ASSUME TypeOK, NEW c \in Calls, AddJob(c)
    PROVE  TypeOK'
<1>1. call[c] \in CallRecord /\ call[c].msg \in Messages
  BY BusyCall DEF AddJob, At
<1>2. jobs' \in Seq(Job)
  BY <1>1 DEF AddJob, TypeOK, CallRecord, Job, JobState, Live
<1> DEFINE r(n) == [call[c] EXCEPT !.pc = "record", !.job = n, !.files = FALSE]
<1>3. \A n \in Nat : r(n) \in CallRecord /\ r(n).msg \in Messages
  BY <1>1 DEF CallRecord, Await
<1>4. PICK n \in Nat : n = Len(jobs) + 1
  BY DEF TypeOK
<1>5. call' = [call EXCEPT ![c].pc = "record", ![c].job = n, ![c].files = FALSE]
  BY <1>4 DEF AddJob
<1>6. call' = [call EXCEPT ![c] = r(n)]
  BY <1>5 DEF TypeOK, CallTable
<1> HIDE DEF r
<1>7. call' \in CallTable
  BY <1>3, <1>6 DEF TypeOK, CallTable
<1> QED
  BY <1>2, <1>7 DEF AddJob, TypeOK, row

LEMMA RecordJobIdType ==
    ASSUME TypeOK, NEW c \in Calls, RecordJobId(c)
    PROVE  TypeOK'
<1>1. call[c].msg \in Messages /\ call[c].job \in Nat
  BY BusyCall DEF RecordJobId, At, CallRecord
<1>2. call' \in CallTable
  BY EndCall DEF RecordJobId
<1> QED
  BY <1>1, <1>2 DEF RecordJobId, TypeOK

LEMMA ResetForRetryType ==
    ASSUME TypeOK, NEW c \in Calls, ResetForRetry(c)
    PROVE  TypeOK'
<1>1. call[c].msg \in Messages
  BY BusyCall DEF ResetForRetry, At
<1>2. call' \in CallTable
  BY GotoType DEF ResetForRetry, At, Await
<1> QED
  BY <1>1, <1>2 DEF ResetForRetry, ResetMessage, TypeOK, Status

LEMMA ResetFromDlqType ==
    ASSUME TypeOK, NEW c \in Calls, NEW h \in Calls, ResetFromDlq(c, h)
    PROVE  TypeOK'
<1>1. call[c] \in CallRecord /\ call[c].msg \in Messages
  BY BusyCall DEF ResetFromDlq, At
<1> DEFINE r == [call[c] EXCEPT !.pc = "resolve"]
           e == EventHandler(call[c].msg)
<1>2. r \in CallRecord /\ r.msg \in Messages
  BY <1>1 DEF CallRecord, Await
<1>3. e \in CallRecord /\ e.msg \in Messages
  BY <1>1, NewCallType DEF EventHandler, Op, Await
<1>4. call' = [[call EXCEPT ![c] = r] EXCEPT ![h] = e]
  BY DEF ResetFromDlq, TypeOK, CallTable
<1> HIDE DEF r, e
<1>5. call' \in CallTable
  BY <1>2, <1>3, <1>4 DEF TypeOK, CallTable
<1> QED
  BY <1>1, <1>5 DEF ResetFromDlq, ResetMessage, TypeOK, Status

LEMMA ResolveDeadLetterType ==
    ASSUME TypeOK, NEW c \in Calls, ResolveDeadLetter(c)
    PROVE  TypeOK'
<1>1. call' \in CallTable
  BY EndCall DEF ResolveDeadLetter
<1> QED
  BY <1>1 DEF ResolveDeadLetter, TypeOK

LEMMA MarkFailedType ==
    ASSUME TypeOK, NEW c \in Calls, MarkFailed(c)
    PROVE  TypeOK'
<1>1. call' \in CallTable
  BY GotoType DEF MarkFailed, At, Await
<1> QED
  BY <1>1 DEF MarkFailed, TypeOK, row, Status

LEMMA BuryType ==
    ASSUME TypeOK, NEW c \in Calls, Bury(c)
    PROVE  TypeOK'
<1>1. call' \in CallTable
  BY EndCall DEF Bury
<1> QED
  BY <1>1 DEF Bury, TypeOK

LEMMA ApplyReceiptType ==
    ASSUME TypeOK, NEW c \in Calls, ApplyReceipt(c)
    PROVE  TypeOK'
<1>1. call[c].msg \in Messages /\ call[c].news \in Status
  BY BusyCall DEF ApplyReceipt, At, CallRecord
<1>2. call' \in CallTable
  BY EndCall DEF ApplyReceipt
<1> QED
  BY <1>1, <1>2 DEF ApplyReceipt, TypeOK, row

(* Jobs: the parts of a job an attempt changes. *)
LEMMA JobParts ==
    ASSUME TypeOK, NEW j \in DOMAIN jobs
    PROVE  /\ jobs[j] \in Job
           /\ jobs[j].msg \in Messages
           /\ jobs[j].copy \in Nat
           /\ jobs[j].made \in Nat
           /\ jobs[j].files \in BOOLEAN
           /\ j \in Nat
<1>1. j \in 1 .. Len(jobs) /\ jobs[j] \in Job
  BY DEF TypeOK
<1> QED
  BY <1>1 DEF Job

LEMMA StartAttemptType ==
    ASSUME TypeOK, NEW j \in DOMAIN jobs, StartAttempt(j)
    PROVE  TypeOK'
<1> DEFINE r(s) == [jobs[j] EXCEPT !.state = s]
<1>1. \A s \in JobState : r(s) \in Job
  BY JobParts DEF Job
<1>2. PICK s \in JobState : jobs' = [jobs EXCEPT ![j] = r(s)]
  BY DEF StartAttempt, JobState, Live, Active
<1> HIDE DEF r
<1>3. jobs' \in Seq(Job)
  BY <1>1, <1>2, UpdateJob
<1> QED
  BY <1>3 DEF StartAttempt, TypeOK, row

(* A failed attempt: the job is delayed or failed, and onJobFailed starts. *)
LEMMA FailAttemptType ==
    ASSUME TypeOK, NEW j \in DOMAIN jobs, NEW h \in Calls, FailAttempt(j, h)
    PROVE  jobs' \in Seq(Job) /\ call' \in CallTable
<1> DEFINE r(n, s) == [jobs[j] EXCEPT !.made = n, !.copy = 0, !.state = s]
<1>1. \A n \in Nat, s \in JobState : r(n, s) \in Job
  BY JobParts DEF Job
<1>2. jobs[j].made + 1 \in Nat
  BY JobParts
<1>3. PICK s \in JobState : s = AfterFailure(jobs[j].made + 1)
  BY DEF AfterFailure, JobState, Live
<1>4. jobs' = [jobs EXCEPT ![j] = r(jobs[j].made + 1, s)]
  BY <1>3 DEF FailAttempt
<1> HIDE DEF r
<1>5. jobs' \in Seq(Job)
  BY <1>1, <1>2, <1>4, UpdateJob
<1>6. /\ NewCall("failed", "mark", jobs[j].msg) \in CallRecord
      /\ NewCall("failed", "mark", jobs[j].msg).msg \in Messages
  BY NewCallType, JobParts DEF Op, Await
<1>7. call' \in CallTable
  BY <1>6, UpdateCall DEF FailAttempt
<1> QED
  BY <1>5, <1>7

LEMMA DeliverType ==
    ASSUME TypeOK, NEW j \in DOMAIN jobs, Deliver(j)
    PROVE  deliveries' \in [Messages -> Seq(Copy)]
<1>1. [job |-> j, files |-> jobs[j].files] \in Copy
  BY JobParts DEF Copy
<1> QED
  BY <1>1, JobParts DEF Deliver, TypeOK

LEMMA ProviderAcceptsType ==
    ASSUME TypeOK, NEW j \in DOMAIN jobs, ProviderAccepts(j)
    PROVE  TypeOK'
<1> DEFINE r(n) == [jobs[j] EXCEPT !.state = "recording", !.copy = n]
<1>1. \A n \in Nat : r(n) \in Job
  BY JobParts DEF Job, JobState, Live, Active
<1>2. Len(deliveries[jobs[j].msg]) + 1 \in Nat
  BY JobParts DEF TypeOK
<1>3. jobs' = [jobs EXCEPT ![j] = r(Len(deliveries[jobs[j].msg]) + 1)]
  BY DEF ProviderAccepts
<1> HIDE DEF r
<1>4. jobs' \in Seq(Job)
  BY <1>1, <1>2, <1>3, UpdateJob
<1>5. deliveries' \in [Messages -> Seq(Copy)]
  BY DeliverType DEF ProviderAccepts
<1> QED
  BY <1>4, <1>5 DEF ProviderAccepts, TypeOK, row

LEMMA ProviderRejectsType ==
    ASSUME TypeOK, NEW j \in DOMAIN jobs, NEW h \in Calls, ProviderRejects(j, h)
    PROVE  TypeOK'
<1>1. jobs' \in Seq(Job) /\ call' \in CallTable
  BY FailAttemptType DEF ProviderRejects
<1> QED
  BY <1>1 DEF ProviderRejects, TypeOK, row

LEMMA AdapterNotConfiguredType ==
    ASSUME TypeOK, NEW j \in DOMAIN jobs, AdapterNotConfigured(j)
    PROVE  TypeOK'
<1>1. [jobs[j] EXCEPT !.state = "unconfigured"] \in Job
  BY JobParts DEF Job, JobState, Live, Active
<1>2. jobs' \in Seq(Job)
  BY <1>1, UpdateJob DEF AdapterNotConfigured
<1> QED
  BY <1>2 DEF AdapterNotConfigured, TypeOK, row

LEMMA MarkUnconfiguredType ==
    ASSUME TypeOK, NEW j \in DOMAIN jobs, MarkUnconfigured(j)
    PROVE  TypeOK'
<1>1. [jobs[j] EXCEPT !.state = "completed"] \in Job
  BY JobParts DEF Job, JobState
<1>2. jobs' \in Seq(Job)
  BY <1>1, UpdateJob DEF MarkUnconfigured
<1> QED
  BY <1>2, JobParts DEF MarkUnconfigured, TypeOK, row, Status

LEMMA RecordSentType ==
    ASSUME TypeOK, NEW j \in DOMAIN jobs, RecordSent(j)
    PROVE  TypeOK'
<1>1. [jobs[j] EXCEPT !.state = "completed", !.copy = 0] \in Job
  BY JobParts DEF Job, JobState
<1>2. jobs' \in Seq(Job)
  BY <1>1, UpdateJob DEF RecordSent
<1> QED
  BY <1>2, JobParts DEF RecordSent, TypeOK, Status

LEMMA DiscardType ==
    ASSUME TypeOK, NEW m \in Messages, Discard(m)
    PROVE  TypeOK'
  BY DEF Discard, TypeOK

LEMMA CallFailsType ==
    ASSUME TypeOK, NEW c \in Calls, CallFails(c)
    PROVE  TypeOK'
<1>1. budget' \in Budgets
  BY SpendType DEF CallFails, Limited
<1>2. call' \in CallTable
  BY EndCall DEF CallFails
<1>3. call[c].msg \in Messages
  BY BusyCall DEF CallFails, At
<1>4. StatusAfterError(c) \in Status
  BY <1>3 DEF StatusAfterError, Status, TypeOK
<1> QED
  BY <1>1, <1>2, <1>3, <1>4 DEF CallFails, TypeOK, row

LEMMA AnswerLostType ==
    ASSUME TypeOK, NEW j \in DOMAIN jobs, NEW h \in Calls, AnswerLost(j, h)
    PROVE  TypeOK'
<1>1. budget' \in Budgets
  BY SpendType DEF AnswerLost, Limited
<1>2. jobs' \in Seq(Job) /\ call' \in CallTable
  BY FailAttemptType DEF AnswerLost
<1>3. deliveries' \in [Messages -> Seq(Copy)]
  BY DeliverType DEF AnswerLost
<1> QED
  BY <1>1, <1>2, <1>3 DEF AnswerLost, TypeOK, row

LEMMA UpdateFailsType ==
    ASSUME TypeOK, NEW j \in DOMAIN jobs, NEW h \in Calls, UpdateFails(j, h)
    PROVE  TypeOK'
<1>1. budget' \in Budgets
  BY SpendType DEF UpdateFails, Limited
<1>2. jobs' \in Seq(Job) /\ call' \in CallTable
  BY FailAttemptType DEF UpdateFails
<1> QED
  BY <1>1, <1>2 DEF UpdateFails, TypeOK, row

LEMMA CrashType ==
    ASSUME TypeOK, Crash
    PROVE  TypeOK'
<1>1. budget' \in Budgets
  BY SpendType DEF Crash, Limited
<1>2. call' \in CallTable
  BY IdleType DEF Crash, CallTable
<1>3. \A j \in DOMAIN jobs : [jobs[j] EXCEPT !.state = "waiting", !.copy = 0] \in Job
  BY JobParts DEF Job, JobState, Live
<1>4. \A j \in DOMAIN jobs :
          (IF jobs[j].state \in Active
             THEN [jobs[j] EXCEPT !.state = "waiting", !.copy = 0] ELSE jobs[j]) \in Job
  BY <1>3, JobParts
<1>5. Len(jobs) \in Nat /\ DOMAIN jobs = 1 .. Len(jobs)
  BY DEF TypeOK
<1>6. jobs' \in [1 .. Len(jobs) -> Job]
  BY <1>4, <1>5 DEF Crash
<1>7. jobs' \in Seq(Job)
  BY <1>5, <1>6, IsASeq
<1> QED
  BY <1>1, <1>2, <1>7 DEF Crash, TypeOK, row

LEMMA InitType == Init => TypeOK
<1> SUFFICES ASSUME Init PROVE TypeOK
  OBVIOUS
<1>1. call \in CallTable
  BY IdleType DEF Init, CallTable
<1> QED
  BY <1>1, OutboundAssumption DEF Init, TypeOK, Status

LEMMA NextType == TypeOK /\ [Next]_vars => TypeOK'
<1> SUFFICES ASSUME TypeOK, [Next]_vars PROVE TypeOK'
  OBVIOUS
<1>1. CASE Request
  BY <1>1, SendFromComposerType, SendByEventType, RetryType, RetryFromDlqType,
     ReceiptType DEF Request
<1>2. ASSUME NEW c \in Calls, Resume(c) PROVE TypeOK'
  BY <1>2, CopyAttachmentsType, CheckQueuedType, PrepareJobType, AddJobType,
     RecordJobIdType, ResetForRetryType, ResetFromDlqType, ResolveDeadLetterType,
     MarkFailedType, BuryType, ApplyReceiptType DEF Resume
<1>3. ASSUME NEW j \in DOMAIN jobs, Work(j) PROVE TypeOK'
  BY <1>3, StartAttemptType, ProviderAcceptsType, ProviderRejectsType,
     AdapterNotConfiguredType, MarkUnconfiguredType, RecordSentType DEF Work
<1>4. CASE Fault
  BY <1>4, CallFailsType, AnswerLostType, UpdateFailsType, CrashType DEF Fault
<1>5. CASE UNCHANGED vars
  BY <1>5 DEF vars, TypeOK
<1> QED
  BY <1>1, <1>2, <1>3, <1>4, <1>5, DiscardType DEF Next

(* Every variable keeps to its type, whatever the messages, the calls and  *)
(* the number of attempts.                                                 *)
THEOREM TypeCorrect == Spec => []TypeOK
<1>1. TypeOK /\ [Next]_vars => TypeOK'
  BY NextType
<1> QED
  BY InitType, <1>1, PTL DEF Spec

-----------------------------------------------------------------------------
(* What the actions do to a call, read field by field.                     *)

LEMMA GotoEffect ==
    ASSUME TypeOK, NEW c \in Calls, NEW pc \in Await, Goto(c, pc)
    PROVE  /\ call'[c].pc = pc
           /\ call'[c].msg = call[c].msg
           /\ call'[c].op = call[c].op
           /\ call'[c].job = call[c].job
           /\ \A d \in Calls : d # c => call'[d] = call[d]
<1>1. call[c] \in CallRecord
  BY DEF TypeOK, CallTable
<1>2. call' = [call EXCEPT ![c] = [call[c] EXCEPT !.pc = pc]]
  BY DEF Goto
<1>3. /\ [call[c] EXCEPT !.pc = pc].pc = pc
      /\ [call[c] EXCEPT !.pc = pc].msg = call[c].msg
      /\ [call[c] EXCEPT !.pc = pc].op = call[c].op
      /\ [call[c] EXCEPT !.pc = pc].job = call[c].job
  BY <1>1 DEF CallRecord
<1> QED
  BY <1>2, <1>3 DEF TypeOK, CallTable

LEMMA ReturnEffect ==
    ASSUME TypeOK, NEW c \in Calls, Return(c)
    PROVE  /\ call'[c].pc = "idle"
           /\ call'[c].msg = NoMessage
           /\ call'[c].op = "none"
           /\ \A d \in Calls : d # c => call'[d] = call[d]
  BY IdleType DEF Return, TypeOK, CallTable

LEMMA StartEffect ==
    ASSUME TypeOK, NEW c \in Calls, NEW op \in Op, NEW pc \in Await, NEW m \in Messages,
           call' = [call EXCEPT ![c] = NewCall(op, pc, m)]
    PROVE  /\ call'[c].pc = pc
           /\ call'[c].msg = m
           /\ call'[c].op = op
           /\ \A d \in Calls : d # c => call'[d] = call[d]
  BY NewCallType DEF TypeOK, CallTable

LEMMA PrepareEffect ==
    ASSUME TypeOK, NEW c \in Calls, PrepareJob(c), call[c].msg \notin Unroutable
    PROVE  /\ call'[c].pc = "add"
           /\ call'[c].msg = call[c].msg
           /\ call'[c].op = call[c].op
           /\ \A d \in Calls : d # c => call'[d] = call[d]
<1>1. call[c] \in CallRecord
  BY DEF TypeOK, CallTable
<1>2. PICK b \in BOOLEAN : call' = [call EXCEPT ![c].pc = "add", ![c].files = b]
  BY DEF PrepareJob
<1>3. call' = [call EXCEPT ![c] = [call[c] EXCEPT !.pc = "add", !.files = b]]
  BY <1>2 DEF TypeOK, CallTable
<1>4. /\ [call[c] EXCEPT !.pc = "add", !.files = b].pc = "add"
      /\ [call[c] EXCEPT !.pc = "add", !.files = b].msg = call[c].msg
      /\ [call[c] EXCEPT !.pc = "add", !.files = b].op = call[c].op
  BY <1>1 DEF CallRecord
<1> QED
  BY <1>3, <1>4 DEF TypeOK, CallTable

LEMMA AddEffect ==
    ASSUME TypeOK, NEW c \in Calls, AddJob(c)
    PROVE  /\ call'[c].pc = "record"
           /\ call'[c].msg = call[c].msg
           /\ call'[c].op = call[c].op
           /\ call'[c].job = Len(jobs) + 1
           /\ \A d \in Calls : d # c => call'[d] = call[d]
           /\ DOMAIN jobs' = DOMAIN jobs \cup {Len(jobs) + 1}
           /\ \A j \in DOMAIN jobs : jobs'[j] = jobs[j]
           /\ jobs'[Len(jobs) + 1].msg = call[c].msg
           /\ jobs'[Len(jobs) + 1].state = "waiting"
<1>1. call[c] \in CallRecord
  BY DEF TypeOK, CallTable
<1>2. PICK n \in Nat : n = Len(jobs) + 1
  BY DEF TypeOK
<1>3. call' = [call EXCEPT ![c].pc = "record", ![c].job = n, ![c].files = FALSE]
  BY <1>2 DEF AddJob
<1>4. call' = [call EXCEPT ![c] = [call[c] EXCEPT !.pc = "record", !.job = n, !.files = FALSE]]
  BY <1>3 DEF TypeOK, CallTable
<1>5. /\ [call[c] EXCEPT !.pc = "record", !.job = n, !.files = FALSE].pc = "record"
      /\ [call[c] EXCEPT !.pc = "record", !.job = n, !.files = FALSE].msg = call[c].msg
      /\ [call[c] EXCEPT !.pc = "record", !.job = n, !.files = FALSE].op = call[c].op
      /\ [call[c] EXCEPT !.pc = "record", !.job = n, !.files = FALSE].job = n
  BY <1>1 DEF CallRecord
<1>6. /\ call'[c].pc = "record" /\ call'[c].msg = call[c].msg
      /\ call'[c].op = call[c].op /\ call'[c].job = n
      /\ \A d \in Calls : d # c => call'[d] = call[d]
  BY <1>4, <1>5 DEF TypeOK, CallTable
<1>7. /\ DOMAIN jobs' = DOMAIN jobs \cup {n}
      /\ \A j \in DOMAIN jobs : jobs'[j] = jobs[j]
      /\ jobs'[n].msg = call[c].msg
      /\ jobs'[n].state = "waiting"
  BY <1>2 DEF AddJob, TypeOK
<1> QED
  BY <1>2, <1>6, <1>7

LEMMA ComposerEffect ==
    ASSUME TypeOK, NEW c \in Calls, NEW h \in Calls, NEW m \in Messages,
           SendFromComposer(c, h, m)
    PROVE  /\ call'[c].pc \in {"copy", "enqueue"} /\ call'[c].msg = m /\ call'[c].op = "send"
           /\ call'[h].pc = "check" /\ call'[h].msg = m /\ call'[h].op = "handle"
           /\ \A d \in Calls : d # c /\ d # h => call'[d] = call[d]
<1>1. PICK attached \in BOOLEAN :
          call' = [call EXCEPT
                     ![c] = NewCall("send", IF attached THEN "copy" ELSE "enqueue", m),
                     ![h] = EventHandler(m)]
  BY DEF SendFromComposer
<1>2. PICK pc \in {"copy", "enqueue"} : pc = IF attached THEN "copy" ELSE "enqueue"
  OBVIOUS
<1>3. NewCall("send", pc, m).pc = pc /\ NewCall("send", pc, m).msg = m /\ NewCall("send", pc, m).op = "send"
  BY <1>2, NewCallType DEF Op, Await
<1>4. EventHandler(m).pc = "check" /\ EventHandler(m).msg = m /\ EventHandler(m).op = "handle"
  BY NewCallType DEF Op, Await, EventHandler
<1> QED
  BY <1>1, <1>2, <1>3, <1>4 DEF SendFromComposer, TypeOK, CallTable

LEMMA ResetFromDlqEffect ==
    ASSUME TypeOK, NEW c \in Calls, NEW h \in Calls, ResetFromDlq(c, h)
    PROVE  /\ c # h /\ call[c].msg \in Messages
           /\ call'[c].pc = "resolve" /\ call'[c].msg = call[c].msg /\ call'[c].op = "dlq"
           /\ call'[h].pc = "check" /\ call'[h].msg = call[c].msg /\ call'[h].op = "handle"
           /\ \A d \in Calls : d # c /\ d # h => call'[d] = call[d]
<1>1. call[c] \in CallRecord /\ call[c].msg \in Messages /\ c # h /\ call[c].op = "dlq"
  BY BusyCall DEF ResetFromDlq, At
<1>2. /\ [call[c] EXCEPT !.pc = "resolve"].pc = "resolve"
      /\ [call[c] EXCEPT !.pc = "resolve"].msg = call[c].msg
      /\ [call[c] EXCEPT !.pc = "resolve"].op = "dlq"
  BY <1>1 DEF CallRecord
<1>3. /\ EventHandler(call[c].msg).pc = "check"
      /\ EventHandler(call[c].msg).msg = call[c].msg
      /\ EventHandler(call[c].msg).op = "handle"
  BY <1>1, NewCallType DEF Op, Await, EventHandler
<1>4. call' = [[call EXCEPT ![c] = [call[c] EXCEPT !.pc = "resolve"]]
                    EXCEPT ![h] = EventHandler(call[c].msg)]
  BY DEF ResetFromDlq, TypeOK, CallTable
<1> QED
  BY <1>1, <1>2, <1>3, <1>4 DEF TypeOK, CallTable

LEMMA ReceiptEffect ==
    ASSUME TypeOK, NEW c \in Calls, NEW m \in Messages, NEW s \in ReceiptStatus,
           Receipt(c, m, s)
    PROVE  /\ call'[c].pc = "apply" /\ call'[c].msg = m
           /\ call'[c].op = "receipt" /\ call'[c].news = s
           /\ \A d \in Calls : d # c => call'[d] = call[d]
  BY DEF Receipt, TypeOK, CallTable

(* What the worker does to its job: the other jobs, and the message of     *)
(* this one, stay as they are.                                             *)
JobStep(j) ==
    /\ DOMAIN jobs' = DOMAIN jobs
    /\ jobs'[j].msg = jobs[j].msg
    /\ \A k \in DOMAIN jobs : k # j => jobs'[k] = jobs[k]

LEMMA ChangeState ==
    ASSUME TypeOK, NEW j \in DOMAIN jobs, NEW s, jobs' = [jobs EXCEPT ![j].state = s]
    PROVE  JobStep(j) /\ jobs'[j].state = s
<1>1. [jobs[j] EXCEPT !.state = s].msg = jobs[j].msg /\ [jobs[j] EXCEPT !.state = s].state = s
  BY JobParts DEF Job
<1>2. jobs' = [jobs EXCEPT ![j] = [jobs[j] EXCEPT !.state = s]]
  OBVIOUS
<1> QED
  BY <1>1, <1>2 DEF TypeOK, JobStep

LEMMA StartAttemptEffect ==
    ASSUME TypeOK, NEW j \in DOMAIN jobs, StartAttempt(j)
    PROVE  /\ JobStep(j)
           /\ jobs'[j].state = IF status[jobs[j].msg] = "PENDING" THEN "sending" ELSE "completed"
  BY ChangeState DEF StartAttempt, MayProcess

LEMMA AcceptEffect ==
    ASSUME TypeOK, NEW j \in DOMAIN jobs, ProviderAccepts(j)
    PROVE  /\ JobStep(j)
           /\ jobs'[j].state = "recording"
           /\ jobs'[j].copy = Len(deliveries[jobs[j].msg]) + 1
<1>1. PICK n : n = Len(deliveries[jobs[j].msg]) + 1
  OBVIOUS
<1>2. jobs' = [jobs EXCEPT ![j] = [jobs[j] EXCEPT !.state = "recording", !.copy = n]]
  BY <1>1 DEF ProviderAccepts
<1>3. /\ [jobs[j] EXCEPT !.state = "recording", !.copy = n].msg = jobs[j].msg
      /\ [jobs[j] EXCEPT !.state = "recording", !.copy = n].state = "recording"
      /\ [jobs[j] EXCEPT !.state = "recording", !.copy = n].copy = n
  BY JobParts DEF Job
<1> QED
  BY <1>1, <1>2, <1>3 DEF TypeOK, JobStep

LEMMA SentEffect ==
    ASSUME TypeOK, NEW j \in DOMAIN jobs, RecordSent(j)
    PROVE  JobStep(j) /\ jobs'[j].state = "completed"
<1>1. jobs' = [jobs EXCEPT ![j] = [jobs[j] EXCEPT !.state = "completed", !.copy = 0]]
  BY DEF RecordSent
<1>2. /\ [jobs[j] EXCEPT !.state = "completed", !.copy = 0].msg = jobs[j].msg
      /\ [jobs[j] EXCEPT !.state = "completed", !.copy = 0].state = "completed"
  BY JobParts DEF Job
<1> QED
  BY <1>1, <1>2 DEF TypeOK, JobStep

LEMMA FailEffect ==
    ASSUME TypeOK, NEW j \in DOMAIN jobs, NEW h \in Calls, FailAttempt(j, h)
    PROVE  /\ JobStep(j)
           /\ jobs'[j].state \in {"delayed", "failed"}
           /\ call'[h].pc = "mark" /\ call'[h].msg = jobs[j].msg /\ call'[h].op = "failed"
           /\ \A d \in Calls : d # h => call'[d] = call[d]
<1>1. jobs[j] \in Job /\ jobs[j].msg \in Messages
  BY JobParts
<1>2. PICK n, s : /\ n = jobs[j].made + 1
                  /\ s = AfterFailure(jobs[j].made + 1)
                  /\ s \in {"delayed", "failed"}
  BY DEF AfterFailure
<1>3. jobs' = [jobs EXCEPT ![j] = [jobs[j] EXCEPT !.made = n, !.copy = 0, !.state = s]]
  BY <1>2 DEF FailAttempt
<1>4. /\ [jobs[j] EXCEPT !.made = n, !.copy = 0, !.state = s].msg = jobs[j].msg
      /\ [jobs[j] EXCEPT !.made = n, !.copy = 0, !.state = s].state = s
  BY <1>1 DEF Job
<1>5. call' = [call EXCEPT ![h] = NewCall("failed", "mark", jobs[j].msg)]
  BY DEF FailAttempt
<1>6. /\ NewCall("failed", "mark", jobs[j].msg).pc = "mark"
      /\ NewCall("failed", "mark", jobs[j].msg).msg = jobs[j].msg
      /\ NewCall("failed", "mark", jobs[j].msg).op = "failed"
  BY <1>1, NewCallType DEF Op, Await
<1>7. /\ call'[h].pc = "mark" /\ call'[h].msg = jobs[j].msg /\ call'[h].op = "failed"
      /\ \A d \in Calls : d # h => call'[d] = call[d]
  BY <1>5, <1>6 DEF TypeOK, CallTable
<1> QED
  BY <1>2, <1>3, <1>4, <1>7 DEF TypeOK, JobStep

-----------------------------------------------------------------------------
(* ExhaustedIsBuried.  It is inductive by itself once what forgets the      *)
(* 'failed' listener in progress, a restart or an error in it, is excluded. *)

NoFault == budget["crashes"] = 0 /\ budget["faults"] = 0
Burial == TypeOK /\ NoFault /\ ExhaustedIsBuried

(* A budget never grows. *)
LEMMA BudgetShrinks ==
    ASSUME TypeOK, [Next]_vars, NEW w \in Limited
    PROVE  budget'[w] <= budget[w]
<1>1. CASE budget' = budget
  BY <1>1 DEF TypeOK, Budgets
<1>2. ASSUME NEW what \in Limited, Spend(what) PROVE budget'[w] <= budget[w]
  BY <1>2 DEF Spend, TypeOK, Budgets
<1>3. CASE Request
  BY <1>2, <1>3 DEF Request, SendFromComposer, SendByEvent, Retry, RetryFromDlq, Receipt, Limited
<1>4. CASE Fault
  BY <1>2, <1>4 DEF Fault, CallFails, AnswerLost, UpdateFails, Crash, Limited
<1>5. ASSUME NEW c \in Calls, Resume(c) PROVE budget' = budget
  BY <1>5 DEF Resume, CopyAttachments, CheckQueued, PrepareJob, AddJob, RecordJobId,
     ResetForRetry, ResolveDeadLetter, MarkFailed, Bury, ApplyReceipt, ResetFromDlq
<1>6. ASSUME NEW j \in DOMAIN jobs, Work(j) PROVE budget' = budget
  BY <1>6 DEF Work, StartAttempt, ProviderAccepts, AdapterNotConfigured, MarkUnconfigured,
     RecordSent, ProviderRejects
<1> QED
  BY <1>1, <1>3, <1>4, <1>5, <1>6 DEF Next, Discard, vars

(* The dead-letter rows stay, the failed jobs stay failed and the          *)
(* listeners other than the one that buries stay.                          *)
LEMMA BurialKept ==
    ASSUME Burial, TypeOK',
           \A m \in Messages : deadLetter[m] # "none" => deadLetter'[m] # "none",
           \A j \in DOMAIN jobs' : jobs'[j].state = "failed" =>
               \/ j \in DOMAIN jobs /\ jobs[j].state = "failed" /\ jobs'[j].msg = jobs[j].msg
               \/ \E c \in Calls : call'[c].msg = jobs'[j].msg /\ call'[c].pc = "mark",
           \A c \in Calls : call[c].pc \in {"mark", "bury"} =>
               \/ call'[c].pc \in {"mark", "bury"} /\ call'[c].msg = call[c].msg
               \/ deadLetter'[call[c].msg] # "none"
    PROVE  ExhaustedIsBuried'
  BY JobParts DEF Burial, ExhaustedIsBuried

(* A job that changes to anything but failed. *)
LEMMA WorkKeepsBurial ==
    ASSUME Burial, TypeOK', NEW j \in DOMAIN jobs, JobStep(j), jobs'[j].state # "failed",
           UNCHANGED <<call, deadLetter>>
    PROVE  ExhaustedIsBuried'
  BY BurialKept DEF JobStep

LEMMA FailKeepsBurial ==
    ASSUME Burial, TypeOK', NEW j \in DOMAIN jobs, NEW h \in Calls, FailAttempt(j, h),
           UNCHANGED deadLetter
    PROVE  ExhaustedIsBuried'
<1>1. TypeOK
  BY DEF Burial
<1>2. At(h, "idle")
  BY DEF FailAttempt
<1> QED
  BY <1>1, <1>2, FailEffect, BurialKept DEF JobStep, At

(* An action on one call that is not recording a failure. *)
LEMMA CallKeepsBurial ==
    ASSUME Burial, TypeOK', NEW c \in Calls, call[c].pc \notin {"mark", "bury"},
           \A d \in Calls : d # c => call'[d] = call[d],
           UNCHANGED jobs,
           \A m \in Messages : deadLetter[m] # "none" => deadLetter'[m] # "none"
    PROVE  ExhaustedIsBuried'
  BY BurialKept

LEMMA BurialStep ==
    ASSUME Burial, [Next]_vars PROVE Burial'
<1> USE DEF At
<1>1. TypeOK /\ TypeOK'
  BY NextType DEF Burial
<1>2. NoFault /\ NoFault'
  BY <1>1, BudgetShrinks DEF Burial, NoFault, Limited, TypeOK, Budgets
<1>3. ASSUME NEW c \in Calls, NEW h \in Calls, NEW m \in Messages, SendFromComposer(c, h, m)
      PROVE  ExhaustedIsBuried'
  <2>1. call[c].pc = "idle" /\ call[h].pc = "idle" /\ UNCHANGED <<jobs, deadLetter>>
    BY <1>3 DEF SendFromComposer
  <2> QED
    BY <1>1, <1>3, <2>1, ComposerEffect, BurialKept
<1>4. ASSUME Request PROVE ExhaustedIsBuried'
  <2>1. ASSUME NEW c \in Calls, call[c].pc = "idle", UNCHANGED <<jobs, deadLetter>>,
               \A d \in Calls : d # c => call'[d] = call[d]
        PROVE  ExhaustedIsBuried'
    BY <1>1, <2>1, CallKeepsBurial
  <2>2. ASSUME NEW c \in Calls, NEW m \in Messages, SendByEvent(c, m)
        PROVE  ExhaustedIsBuried'
    BY <1>1, <2>1, <2>2 DEF SendByEvent, row, TypeOK, CallTable
  <2>3. ASSUME NEW c \in Calls, NEW m \in Messages, Retry(c, m)
        PROVE  ExhaustedIsBuried'
    BY <1>1, <2>1, <2>3 DEF Retry, row, TypeOK, CallTable
  <2>4. ASSUME NEW c \in Calls, NEW m \in Messages, RetryFromDlq(c, m)
        PROVE  ExhaustedIsBuried'
    BY <1>1, <2>1, <2>4 DEF RetryFromDlq, row, TypeOK, CallTable
  <2>5. ASSUME NEW c \in Calls, NEW m \in Messages, NEW s \in ReceiptStatus, Receipt(c, m, s)
        PROVE  ExhaustedIsBuried'
    BY <1>1, <2>1, <2>5, ReceiptEffect DEF Receipt, row
  <2> QED
    BY <1>3, <1>4, <2>2, <2>3, <2>4, <2>5 DEF Request
<1>5. ASSUME NEW c \in Calls, Resume(c) PROVE ExhaustedIsBuried'
  <2>1. CASE CopyAttachments(c) \/ CheckQueued(c) \/ PrepareJob(c) \/ RecordJobId(c)
             \/ ResetForRetry(c) \/ ResolveDeadLetter(c) \/ ApplyReceipt(c)
    <3>1. /\ call[c].pc \notin {"mark", "bury"}
          /\ \A d \in Calls : d # c => call'[d] = call[d]
          /\ UNCHANGED jobs
      BY <1>1, <2>1 DEF CopyAttachments, CheckQueued, PrepareJob, RecordJobId, ResetForRetry,
         ResolveDeadLetter, ApplyReceipt, Goto, Return, TypeOK, CallTable
    <3>2. \A m \in Messages : deadLetter[m] # "none" => deadLetter'[m] # "none"
      BY <1>1, <2>1 DEF CopyAttachments, CheckQueued, PrepareJob, RecordJobId, ResetForRetry,
         ResetMessage, ResolveDeadLetter, ApplyReceipt, row, TypeOK
    <3> QED
      BY <1>1, <3>1, <3>2, CallKeepsBurial
  <2>2. CASE AddJob(c)
    <3>1. UNCHANGED deadLetter /\ call[c].pc = "add"
      BY <2>2 DEF AddJob, row
    <3>2. \A j \in DOMAIN jobs' : jobs'[j].state = "failed" =>
              j \in DOMAIN jobs /\ jobs[j].state = "failed" /\ jobs'[j].msg = jobs[j].msg
      BY <1>1, <2>2, AddEffect
    <3> QED
      BY <1>1, <2>2, <3>1, <3>2, AddEffect, BurialKept
  <2>3. CASE MarkFailed(c)
    <3>1. UNCHANGED <<jobs, deadLetter>>
      BY <2>3 DEF MarkFailed, row
    <3>2. /\ call'[c].pc = "bury" /\ call'[c].msg = call[c].msg
          /\ \A d \in Calls : d # c => call'[d] = call[d]
      BY <1>1, <2>3, GotoEffect DEF MarkFailed, Await
    <3> QED
      BY <1>1, <3>1, <3>2, BurialKept
  <2>4. CASE Bury(c)
    <3>1. /\ call[c].msg \in Messages
          /\ deadLetter' = [deadLetter EXCEPT ![call[c].msg] = "open"]
          /\ UNCHANGED jobs
          /\ \A d \in Calls : d # c => call'[d] = call[d]
      BY <1>1, <2>4, BusyCall, ReturnEffect DEF Bury
    <3>2. /\ deadLetter'[call[c].msg] # "none"
          /\ \A m \in Messages : deadLetter[m] # "none" => deadLetter'[m] # "none"
      BY <1>1, <3>1 DEF TypeOK
    <3> QED
      BY <1>1, <3>1, <3>2, BurialKept
  <2>5. ASSUME NEW h \in Calls, ResetFromDlq(c, h) PROVE ExhaustedIsBuried'
    <3>1. /\ call[c].pc = "reset" /\ call[h].pc = "idle" /\ UNCHANGED <<jobs, deadLetter>>
      BY <2>5 DEF ResetFromDlq, ResetMessage
    <3> QED
      BY <1>1, <2>5, <3>1, ResetFromDlqEffect, BurialKept
  <2> QED
    BY <1>5, <2>1, <2>2, <2>3, <2>4, <2>5 DEF Resume
<1>6. ASSUME NEW j \in DOMAIN jobs, Work(j) PROVE ExhaustedIsBuried'
  <2>1. CASE StartAttempt(j)
    <3>1. JobStep(j) /\ jobs'[j].state # "failed"
      BY <1>1, <2>1, StartAttemptEffect
    <3> QED
      BY <1>1, <2>1, <3>1, WorkKeepsBurial DEF StartAttempt, row
  <2>2. CASE ProviderAccepts(j)
    BY <1>1, <2>2, AcceptEffect, WorkKeepsBurial DEF ProviderAccepts, row
  <2>3. CASE AdapterNotConfigured(j) \/ MarkUnconfigured(j)
    BY <1>1, <2>3, ChangeState, WorkKeepsBurial DEF AdapterNotConfigured, MarkUnconfigured, row
  <2>4. CASE RecordSent(j)
    BY <1>1, <2>4, SentEffect, WorkKeepsBurial DEF RecordSent
  <2>5. ASSUME NEW h \in Calls, ProviderRejects(j, h) PROVE ExhaustedIsBuried'
    BY <1>1, <2>5, FailKeepsBurial DEF ProviderRejects, row
  <2> QED
    BY <1>6, <2>1, <2>2, <2>3, <2>4, <2>5 DEF Work
<1>7. ASSUME NEW m \in Messages, Discard(m) PROVE ExhaustedIsBuried'
  BY <1>1, <1>7, BurialKept DEF Discard, TypeOK
<1>8. ASSUME Fault PROVE ExhaustedIsBuried'
  <2>1. ~Spend("faults") /\ ~Spend("crashes")
    BY <1>2 DEF Spend, NoFault
  <2> QED
    BY <1>8, <2>1 DEF Fault, CallFails, AnswerLost, UpdateFails, Crash
<1>9. ASSUME UNCHANGED vars PROVE ExhaustedIsBuried'
  BY <1>9 DEF vars, Burial, ExhaustedIsBuried
<1>10. ExhaustedIsBuried'
  BY <1>4, <1>5, <1>6, <1>7, <1>8, <1>9 DEF Next
<1> QED
  BY <1>1, <1>2, <1>10 DEF Burial

(* Without faults and restarts, a job that exhausted its attempts leaves a *)
(* dead-letter row, or the listener that writes it is still at work.       *)
THEOREM ExhaustedJobsAreBuried ==
    ASSUME Budget["crashes"] = 0, Budget["faults"] = 0
    PROVE  Spec => []ExhaustedIsBuried
<1>1. Init => Burial
  BY InitType DEF Init, Burial, NoFault, ExhaustedIsBuried
<1>2. Burial /\ [Next]_vars => Burial'
  BY BurialStep
<1>3. Burial => ExhaustedIsBuried
  BY DEF Burial
<1> QED
  BY <1>1, <1>2, <1>3, PTL DEF Spec

-----------------------------------------------------------------------------
(* NoPhantomConfirmation.  It is not inductive: the worker writes SENT and *)
(* the provider's id from what its job remembers, a receipt is applied an  *)
(* await after its message was found.  Evidence adds that both remember a  *)
(* copy that exists.                                                       *)

Copies(m) == Len(deliveries[m])
Evidence ==
    /\ TypeOK
    /\ \A m \in Messages : status[m] \in Confirmed => Copies(m) > 0
    /\ \A m \in Messages : externalId[m] \in 0 .. Copies(m)
    /\ \A j \in DOMAIN jobs :
          jobs[j].state = "recording" => jobs[j].copy \in 1 .. Copies(jobs[j].msg)
    /\ \A c \in Calls : call[c].pc = "apply" => Copies(call[c].msg) > 0

(* What a step has to respect. *)
LEMMA EvidenceKept ==
    ASSUME Evidence, TypeOK',
           \A m \in Messages : Copies(m) <= Copies(m)',
           \A m \in Messages :
               status'[m] \in Confirmed => status[m] \in Confirmed \/ Copies(m)' > 0,
           \A m \in Messages :
               externalId'[m] = externalId[m] \/ externalId'[m] \in 0 .. Copies(m)',
           \A j \in DOMAIN jobs' : jobs'[j].state = "recording" =>
               \/ j \in DOMAIN jobs /\ jobs'[j] = jobs[j]
               \/ jobs'[j].copy \in 1 .. Len(deliveries'[jobs'[j].msg]),
           \A c \in Calls : call'[c].pc = "apply" =>
               call'[c] = call[c] \/ Len(deliveries'[call'[c].msg]) > 0
    PROVE  Evidence'
<1>1. \A m \in Messages : Copies(m) \in Nat /\ Copies(m)' \in Nat
  BY DEF Evidence, TypeOK, Copies
<1>2. \A m \in Messages : status'[m] \in Confirmed => Copies(m)' > 0
  BY <1>1 DEF Evidence
<1>3. \A m \in Messages : externalId'[m] \in 0 .. Copies(m)'
  BY <1>1 DEF Evidence
<1>4. ASSUME NEW j \in DOMAIN jobs', jobs'[j].state = "recording"
      PROVE  jobs'[j].copy \in 1 .. Len(deliveries'[jobs'[j].msg])
  <2>1. CASE j \in DOMAIN jobs /\ jobs'[j] = jobs[j]
    <3>1. jobs[j].msg \in Messages /\ jobs[j].copy \in 1 .. Copies(jobs[j].msg)
      BY <1>4, <2>1, JobParts DEF Evidence
    <3> QED
      BY <1>1, <2>1, <3>1 DEF Copies
  <2> QED
    BY <1>4, <2>1
<1>5. ASSUME NEW c \in Calls, call'[c].pc = "apply"
      PROVE  Len(deliveries'[call'[c].msg]) > 0
  <2>1. CASE call'[c] = call[c]
    <3>1. call[c].msg \in Messages /\ Copies(call[c].msg) > 0
      BY <1>5, <2>1, BusyCall DEF Evidence
    <3> QED
      BY <1>1, <2>1, <3>1 DEF Copies
  <2> QED
    BY <1>5, <2>1
<1> QED
  BY <1>2, <1>3, <1>4, <1>5 DEF Evidence, Copies

(* A step that neither delivers, nor confirms, nor changes a job. *)
LEMMA QuietStep ==
    ASSUME Evidence, TypeOK', UNCHANGED <<jobs, externalId, deliveries>>,
           \A m \in Messages : status'[m] \in Confirmed => status[m] \in Confirmed,
           \A c \in Calls : call'[c].pc = "apply" => call'[c] = call[c]
    PROVE  Evidence'
<1>1. \A m \in Messages : Copies(m)' = Copies(m) /\ Copies(m) \in Nat
  BY DEF Copies, Evidence, TypeOK
<1> QED
  BY <1>1, EvidenceKept

(* A copy goes out. *)
LEMMA DeliverEffect ==
    ASSUME TypeOK, NEW j \in DOMAIN jobs, Deliver(j)
    PROVE  /\ \A m \in Messages : m # jobs[j].msg => deliveries'[m] = deliveries[m]
           /\ \A m \in Messages : Copies(m) <= Copies(m)'
           /\ Copies(jobs[j].msg) \in Nat
           /\ Len(deliveries'[jobs[j].msg]) = Copies(jobs[j].msg) + 1
<1>1. PICK cp : cp = [job |-> j, files |-> jobs[j].files]
  OBVIOUS
<1>2. cp \in Copy
  BY <1>1, JobParts DEF Copy
<1>3. deliveries' = [deliveries EXCEPT ![jobs[j].msg] = Append(@, cp)]
  BY <1>1 DEF Deliver
<1>4. deliveries[jobs[j].msg] \in Seq(Copy)
  BY JobParts DEF TypeOK
<1>5. /\ Len(Append(deliveries[jobs[j].msg], cp)) = Len(deliveries[jobs[j].msg]) + 1
      /\ Len(deliveries[jobs[j].msg]) \in Nat
  BY <1>2, <1>4
<1>6. deliveries'[jobs[j].msg] = Append(deliveries[jobs[j].msg], cp)
  BY <1>3, JobParts DEF TypeOK
<1>7. \A m \in Messages : m # jobs[j].msg => deliveries'[m] = deliveries[m]
  BY <1>3 DEF TypeOK
<1>8. \A m \in Messages : Copies(m) \in Nat
  BY DEF TypeOK, Copies
<1> QED
  BY <1>5, <1>6, <1>7, <1>8 DEF Copies

(* A failed attempt, whether or not a copy went out. *)
LEMMA FailKeepsEvidence ==
    ASSUME Evidence, TypeOK', NEW j \in DOMAIN jobs, NEW h \in Calls, FailAttempt(j, h),
           UNCHANGED <<status, externalId>>,
           \A m \in Messages : Copies(m) <= Copies(m)'
    PROVE  Evidence'
<1>1. TypeOK
  BY DEF Evidence
<1>2. \A k \in DOMAIN jobs' : jobs'[k].state = "recording" =>
          k \in DOMAIN jobs /\ jobs'[k] = jobs[k]
  BY <1>1, FailEffect DEF JobStep
<1>3. \A c \in Calls : call'[c].pc = "apply" => call'[c] = call[c]
  BY <1>1, FailEffect
<1> QED
  BY <1>2, <1>3, EvidenceKept

(* A change of the state of a job that does not record a delivery. *)
LEMMA WorkKeepsEvidence ==
    ASSUME Evidence, TypeOK', NEW j \in DOMAIN jobs, JobStep(j),
           jobs'[j].state # "recording", UNCHANGED <<call, deliveries>>,
           \A m \in Messages : status'[m] \in Confirmed => status[m] \in Confirmed \/ Copies(m) > 0,
           \A m \in Messages : externalId'[m] = externalId[m] \/ externalId'[m] \in 0 .. Copies(m)
    PROVE  Evidence'
<1>1. \A m \in Messages : Copies(m)' = Copies(m) /\ Copies(m) \in Nat
  BY DEF Copies, Evidence, TypeOK
<1>2. \A k \in DOMAIN jobs' : jobs'[k].state = "recording" =>
          k \in DOMAIN jobs /\ jobs'[k] = jobs[k]
  BY DEF JobStep
<1> QED
  BY <1>1, <1>2, EvidenceKept

LEMMA EvidenceStep ==
    ASSUME Evidence, [Next]_vars PROVE Evidence'
<1> USE DEF At
<1>1. TypeOK /\ TypeOK'
  BY NextType DEF Evidence
<1>2. \A m \in Messages : Copies(m) \in Nat
  BY <1>1 DEF TypeOK, Copies
<1>3. CASE Request
  <2>1. ASSUME NEW c \in Calls, NEW h \in Calls, NEW m \in Messages, SendFromComposer(c, h, m)
        PROVE  Evidence'
    <3>1. \A d \in Calls : call'[d].pc = "apply" => call'[d] = call[d]
      BY <1>1, <2>1, ComposerEffect
    <3> QED
      BY <1>1, <2>1, <3>1, QuietStep DEF SendFromComposer, TypeOK, Confirmed
  <2>2. ASSUME NEW c \in Calls, NEW m \in Messages, SendByEvent(c, m) PROVE Evidence'
    <3>1. call' = [call EXCEPT ![c] = NewCall("handle", "check", m)]
      BY <2>2 DEF SendByEvent, EventHandler
    <3>2. \A d \in Calls : call'[d].pc = "apply" => call'[d] = call[d]
      BY <1>1, <3>1, StartEffect DEF Op, Await
    <3> QED
      BY <1>1, <2>2, <3>2, QuietStep DEF SendByEvent, TypeOK, Confirmed, row
  <2>3. ASSUME NEW c \in Calls, NEW m \in Messages, Retry(c, m) PROVE Evidence'
    <3>1. \A d \in Calls : call'[d].pc = "apply" => call'[d] = call[d]
      BY <1>1, <2>3, StartEffect DEF Retry, Op, Await
    <3> QED
      BY <1>1, <2>3, <3>1, QuietStep DEF Retry, row
  <2>4. ASSUME NEW c \in Calls, NEW m \in Messages, RetryFromDlq(c, m) PROVE Evidence'
    <3>1. \A d \in Calls : call'[d].pc = "apply" => call'[d] = call[d]
      BY <1>1, <2>4, StartEffect DEF RetryFromDlq, Op, Await
    <3> QED
      BY <1>1, <2>4, <3>1, QuietStep DEF RetryFromDlq, row
  <2>5. ASSUME NEW c \in Calls, NEW m \in Messages, NEW s \in ReceiptStatus, Receipt(c, m, s)
        PROVE  Evidence'
    <3>1. UNCHANGED <<status, externalId, jobs, deliveries>>
      BY <2>5 DEF Receipt, row
    <3>2. Copies(m) > 0
      BY <1>2, <2>5 DEF Receipt, ReceiptFor, Copies
    <3>3. \A n \in Messages : Copies(n)' = Copies(n)
      BY <3>1 DEF Copies
    <3>4. \A d \in Calls : call'[d].pc = "apply" =>
              call'[d] = call[d] \/ Len(deliveries'[call'[d].msg]) > 0
      BY <1>1, <2>5, <3>1, <3>2, ReceiptEffect DEF Copies
    <3> QED
      BY <1>1, <1>2, <3>1, <3>3, <3>4, EvidenceKept DEF Evidence
  <2> QED
    BY <1>3, <2>1, <2>2, <2>3, <2>4, <2>5 DEF Request
<1>4. ASSUME NEW c \in Calls, Resume(c) PROVE Evidence'
  <2>1. CASE CopyAttachments(c)
    <3>1. \A d \in Calls : call'[d].pc = "apply" => call'[d] = call[d]
      BY <1>1, <2>1, GotoEffect DEF CopyAttachments, Await
    <3> QED
      BY <1>1, <2>1, <3>1, QuietStep DEF CopyAttachments
  <2>2. CASE CheckQueued(c)
    <3>1. \A d \in Calls : call'[d].pc = "apply" => call'[d] = call[d]
      BY <1>1, <2>2, GotoEffect, ReturnEffect DEF CheckQueued, Await
    <3> QED
      BY <1>1, <2>2, <3>1, QuietStep DEF CheckQueued, row
  <2>3. CASE PrepareJob(c)
    <3>1. \A d \in Calls : call'[d].pc = "apply" => call'[d] = call[d]
      <4>1. CASE call[c].msg \in Unroutable
        BY <1>1, <2>3, <4>1, ReturnEffect DEF PrepareJob
      <4> QED
        BY <1>1, <2>3, <4>1, PrepareEffect
    <3>2. \A m \in Messages : status'[m] \in Confirmed => status[m] \in Confirmed
      BY <1>1, <2>3 DEF PrepareJob, TypeOK, Confirmed
    <3> QED
      BY <1>1, <2>3, <3>1, <3>2, QuietStep DEF PrepareJob, row
  <2>4. CASE AddJob(c)
    <3>1. UNCHANGED <<status, externalId, deliveries>>
      BY <2>4 DEF AddJob, row
    <3>2. \A m \in Messages : Copies(m)' = Copies(m)
      BY <3>1 DEF Copies
    <3>3. \A d \in Calls : call'[d].pc = "apply" => call'[d] = call[d]
      BY <1>1, <2>4, AddEffect
    <3>4. \A k \in DOMAIN jobs' : jobs'[k].state = "recording" =>
              k \in DOMAIN jobs /\ jobs'[k] = jobs[k]
      BY <1>1, <2>4, AddEffect
    <3> QED
      BY <1>1, <1>2, <3>1, <3>2, <3>3, <3>4, EvidenceKept
  <2>5. CASE RecordJobId(c) \/ ResolveDeadLetter(c) \/ Bury(c)
    <3>1. \A d \in Calls : call'[d].pc = "apply" => call'[d] = call[d]
      BY <1>1, <2>5, ReturnEffect DEF RecordJobId, ResolveDeadLetter, Bury
    <3> QED
      BY <1>1, <2>5, <3>1, QuietStep DEF RecordJobId, ResolveDeadLetter, Bury
  <2>6. CASE ResetForRetry(c)
    <3>1. \A d \in Calls : call'[d].pc = "apply" => call'[d] = call[d]
      BY <1>1, <2>6, GotoEffect DEF ResetForRetry, Await
    <3> QED
      BY <1>1, <2>6, <3>1, QuietStep DEF ResetForRetry, ResetMessage, TypeOK, Confirmed
  <2>7. CASE MarkFailed(c)
    <3>1. \A d \in Calls : call'[d].pc = "apply" => call'[d] = call[d]
      BY <1>1, <2>7, GotoEffect DEF MarkFailed, Await
    <3> QED
      BY <1>1, <2>7, <3>1, QuietStep DEF MarkFailed, row, TypeOK, Confirmed
  <2>8. CASE ApplyReceipt(c)
    <3>1. UNCHANGED <<externalId, jobs, deliveries>> /\ call[c].msg \in Messages
      BY <1>1, <2>8, BusyCall DEF ApplyReceipt, row
    <3>2. \A m \in Messages : Copies(m)' = Copies(m)
      BY <3>1 DEF Copies
    <3>3. Copies(call[c].msg) > 0
      BY <2>8 DEF ApplyReceipt, Evidence
    <3>4. \A d \in Calls : call'[d].pc = "apply" => call'[d] = call[d]
      BY <1>1, <2>8, ReturnEffect DEF ApplyReceipt
    <3>5. \A m \in Messages : m # call[c].msg => status'[m] = status[m]
      BY <1>1, <2>8 DEF ApplyReceipt, TypeOK
    <3> QED
      BY <1>1, <1>2, <3>1, <3>2, <3>3, <3>4, <3>5, EvidenceKept
  <2>9. ASSUME NEW h \in Calls, ResetFromDlq(c, h) PROVE Evidence'
    <3>1. \A d \in Calls : call'[d].pc = "apply" => call'[d] = call[d]
      BY <1>1, <2>9, ResetFromDlqEffect
    <3>2. \A m \in Messages : status'[m] \in Confirmed => status[m] \in Confirmed
      BY <1>1, <2>9 DEF ResetFromDlq, ResetMessage, TypeOK, Confirmed
    <3> QED
      BY <1>1, <2>9, <3>1, <3>2, QuietStep DEF ResetFromDlq, ResetMessage
  <2> QED
    BY <1>4, <2>1, <2>2, <2>3, <2>4, <2>5, <2>6, <2>7, <2>8, <2>9 DEF Resume
<1>5. ASSUME NEW j \in DOMAIN jobs, Work(j) PROVE Evidence'
  <2>1. CASE StartAttempt(j)
    <3>1. JobStep(j) /\ jobs'[j].state # "recording"
      BY <1>1, <2>1, StartAttemptEffect
    <3> QED
      BY <1>1, <2>1, <3>1, WorkKeepsEvidence DEF StartAttempt, row
  <2>2. CASE ProviderAccepts(j)
    <3>1. Deliver(j) /\ UNCHANGED <<status, externalId, call>>
      BY <2>2 DEF ProviderAccepts, row
    <3>2. /\ Copies(jobs[j].msg) \in Nat
          /\ Len(deliveries'[jobs[j].msg]) = Copies(jobs[j].msg) + 1
          /\ \A m \in Messages : Copies(m) <= Copies(m)'
      BY <1>1, <3>1, DeliverEffect
    <3>3. /\ JobStep(j)
          /\ jobs'[j].copy = Copies(jobs[j].msg) + 1
      BY <1>1, <2>2, AcceptEffect DEF Copies
    <3>4. jobs'[j].copy \in 1 .. Len(deliveries'[jobs'[j].msg])
      BY <3>2, <3>3 DEF JobStep
    <3> QED
      BY <1>1, <3>1, <3>2, <3>3, <3>4, EvidenceKept DEF JobStep
  <2>3. CASE AdapterNotConfigured(j)
    <3>1. JobStep(j) /\ jobs'[j].state # "recording"
      BY <1>1, <2>3, ChangeState DEF AdapterNotConfigured
    <3> QED
      BY <1>1, <2>3, <3>1, WorkKeepsEvidence DEF AdapterNotConfigured, row
  <2>4. CASE MarkUnconfigured(j)
    <3>1. JobStep(j) /\ jobs'[j].state # "recording"
      BY <1>1, <2>4, ChangeState DEF MarkUnconfigured
    <3> QED
      BY <1>1, <2>4, <3>1, WorkKeepsEvidence DEF MarkUnconfigured, row, TypeOK, Confirmed
  <2>5. CASE RecordSent(j)
    <3>1. JobStep(j) /\ jobs'[j].state # "recording"
      BY <1>1, <2>5, SentEffect
    <3>2. /\ jobs[j].copy \in 1 .. Copies(jobs[j].msg)
          /\ jobs[j].msg \in Messages
      BY <1>1, <2>5, JobParts DEF RecordSent, Evidence
    <3>3. \A m \in Messages : m # jobs[j].msg =>
              status'[m] = status[m] /\ externalId'[m] = externalId[m]
      BY <1>1, <2>5 DEF RecordSent, TypeOK
    <3>4. externalId'[jobs[j].msg] = jobs[j].copy
      BY <1>1, <2>5, <3>2 DEF RecordSent, TypeOK
    <3>5. Copies(jobs[j].msg) > 0 /\ externalId'[jobs[j].msg] \in 0 .. Copies(jobs[j].msg)
      BY <1>2, <3>2, <3>4
    <3> QED
      BY <1>1, <2>5, <3>1, <3>3, <3>5, WorkKeepsEvidence DEF RecordSent
  <2>6. ASSUME NEW h \in Calls, ProviderRejects(j, h) PROVE Evidence'
    <3>1. \A m \in Messages : Copies(m) <= Copies(m)'
      BY <1>2, <2>6 DEF ProviderRejects, Copies
    <3> QED
      BY <1>1, <2>6, <3>1, FailKeepsEvidence DEF ProviderRejects, row
  <2> QED
    BY <1>5, <2>1, <2>2, <2>3, <2>4, <2>5, <2>6 DEF Work
<1>6. ASSUME NEW m \in Messages, Discard(m) PROVE Evidence'
  BY <1>1, <1>6, QuietStep DEF Discard
<1>7. CASE Fault
  <2>1. ASSUME NEW c \in Calls, CallFails(c) PROVE Evidence'
    <3>1. \A d \in Calls : call'[d].pc = "apply" => call'[d] = call[d]
      BY <1>1, <2>1, ReturnEffect DEF CallFails
    <3>2. \A m \in Messages : status'[m] \in Confirmed => status[m] \in Confirmed
      BY <1>1, <2>1 DEF CallFails, StatusAfterError, TypeOK, Confirmed
    <3> QED
      BY <1>1, <2>1, <3>1, <3>2, QuietStep DEF CallFails, row
  <2>2. ASSUME NEW j \in DOMAIN jobs, NEW h \in Calls, AnswerLost(j, h) PROVE Evidence'
    BY <1>1, <2>2, DeliverEffect, FailKeepsEvidence DEF AnswerLost, row
  <2>3. ASSUME NEW j \in DOMAIN jobs, NEW h \in Calls, UpdateFails(j, h) PROVE Evidence'
    <3>1. \A m \in Messages : Copies(m) <= Copies(m)'
      BY <1>2, <2>3 DEF UpdateFails, Copies
    <3> QED
      BY <1>1, <2>3, <3>1, FailKeepsEvidence DEF UpdateFails, row
  <2>4. CASE Crash
    <3>1. UNCHANGED <<status, externalId, deliveries>> /\ DOMAIN jobs' = DOMAIN jobs
      BY <2>4 DEF Crash, row
    <3>2. \A m \in Messages : Copies(m) <= Copies(m)'
      BY <1>2, <3>1 DEF Copies
    <3>3. \A c \in Calls : call'[c].pc # "apply"
      BY <2>4, IdleType DEF Crash
    <3>4. \A k \in DOMAIN jobs' : jobs'[k].state = "recording" => jobs'[k] = jobs[k]
      BY <1>1, <2>4, JobParts DEF Crash, Active, Job
    <3> QED
      BY <1>1, <3>1, <3>2, <3>3, <3>4, EvidenceKept
  <2> QED
    BY <1>7, <2>1, <2>2, <2>3, <2>4 DEF Fault
<1>8. CASE UNCHANGED vars
  BY <1>1, <1>8, QuietStep DEF vars
<1> QED
  BY <1>3, <1>4, <1>5, <1>6, <1>7, <1>8 DEF Next

(* A message shows as sent, delivered or read only if the provider         *)
(* accepted a copy of it, and the id stored with it names an accepted      *)
(* copy: under every fault and restart of the model.                       *)
THEOREM NothingConfirmedUnsent == Spec => []NoPhantomConfirmation
<1>1. Init => Evidence
  <2> SUFFICES ASSUME Init PROVE Evidence
    OBVIOUS
  <2>1. \A m \in Messages : Copies(m) = 0
    BY DEF Init, Copies
  <2> QED
    BY <2>1, InitType, IdleType DEF Init, Evidence, Confirmed
<1>2. Evidence /\ [Next]_vars => Evidence'
  BY EvidenceStep
<1>3. Evidence => NoPhantomConfirmation
  <2> SUFFICES ASSUME Evidence, NEW m \in Messages, status[m] \in Confirmed
      PROVE  deliveries[m] # <<>>
    BY DEF Evidence, Copies, NoPhantomConfirmation
  <2>1. Len(deliveries[m]) > 0
    BY DEF Evidence, Copies
  <2> QED
    BY <2>1
<1> QED
  BY <1>1, <1>2, <1>3, PTL DEF Spec

-----------------------------------------------------------------------------
(***************************************************************************)
(* Copies of messages: that the pipeline implements Delivery under every   *)
(* fault, that without faults copies come from jobs and never from         *)
(* attempts, and that somebody still acts on every PENDING message.        *)
(***************************************************************************)
-----------------------------------------------------------------------------
(* OneCopyPerJob.  A job whose copy went out is recording it or over.      *)

Over == {"recording", "completed"}
CopiesAreFinal ==
    \A m \in Messages : \A i \in DOMAIN deliveries[m] :
        /\ deliveries[m][i].job \in DOMAIN jobs
        /\ jobs[deliveries[m][i].job].state \in Over
Once == TypeOK /\ NoFault /\ CopiesAreFinal /\ OneCopyPerJob

(* Jobs that are over stay so while nothing is delivered.                  *)
LEMMA OnceKept ==
    ASSUME Once, UNCHANGED deliveries,
           \A j \in DOMAIN jobs : jobs[j].state \in Over =>
               j \in DOMAIN jobs' /\ jobs'[j].state \in Over
    PROVE  CopiesAreFinal' /\ OneCopyPerJob'
BY DEF Once, CopiesAreFinal, OneCopyPerJob

LEMMA SameJobsOnce ==
    ASSUME Once, UNCHANGED <<deliveries, jobs>>
    PROVE  CopiesAreFinal' /\ OneCopyPerJob'
BY OnceKept

LEMMA OtherJobOnce ==
    ASSUME Once, NEW j \in DOMAIN jobs, UNCHANGED deliveries, JobStep(j),
           jobs[j].state \in Over => jobs'[j].state \in Over
    PROVE  CopiesAreFinal' /\ OneCopyPerJob'
BY OnceKept DEF JobStep

LEMMA AcceptOnce ==
    ASSUME Once, NEW j \in DOMAIN jobs, ProviderAccepts(j)
    PROVE  CopiesAreFinal' /\ OneCopyPerJob'
<1>1. TypeOK /\ jobs[j].msg \in Messages /\ jobs[j].state = "sending"
  BY JobParts DEF Once, ProviderAccepts
<1>2. JobStep(j) /\ jobs'[j].state = "recording"
  BY <1>1, AcceptEffect
<1>3. PICK cp \in Copy : /\ cp.job = j
                         /\ deliveries' = [deliveries EXCEPT ![jobs[j].msg] = Append(@, cp)]
  <2>1. [job |-> j, files |-> jobs[j].files] \in Copy
    BY <1>1, JobParts DEF Copy
  <2> QED BY <2>1 DEF ProviderAccepts, Deliver
<1>4. PICK s \in Seq(Copy) : s = deliveries[jobs[j].msg]
  BY <1>1 DEF TypeOK
<1>5. /\ DOMAIN Append(s, cp) = DOMAIN s \cup {Len(s) + 1} /\ Len(s) + 1 \notin DOMAIN s
      /\ Append(s, cp)[Len(s) + 1] = cp
      /\ \A i \in DOMAIN s : Append(s, cp)[i] = s[i]
  OBVIOUS
<1>6. /\ deliveries'[jobs[j].msg] = Append(s, cp)
      /\ \A m \in Messages : m # jobs[j].msg => deliveries'[m] = deliveries[m]
  BY <1>1, <1>3, <1>4 DEF TypeOK
<1>7. \A m \in Messages : \A i \in DOMAIN deliveries[m] : deliveries[m][i].job # j
  BY <1>1 DEF Once, CopiesAreFinal, Over
<1>8. ASSUME NEW m \in Messages, NEW i \in DOMAIN deliveries'[m]
      PROVE  /\ deliveries'[m][i].job \in DOMAIN jobs'
             /\ jobs'[deliveries'[m][i].job].state \in Over
  <2>1. CASE i \in DOMAIN deliveries[m] /\ deliveries'[m][i] = deliveries[m][i]
    BY <1>2, <1>7, <2>1 DEF Once, CopiesAreFinal, JobStep
  <2>2. CASE deliveries'[m][i] = cp
    BY <1>2, <1>3, <2>2 DEF JobStep, Over
  <2> QED BY <1>4, <1>5, <1>6, <2>1, <2>2
<1>9. ASSUME NEW m \in Messages, NEW i \in DOMAIN deliveries'[m], NEW k \in DOMAIN deliveries'[m],
             i # k
      PROVE  deliveries'[m][i].job # deliveries'[m][k].job
  <2>1. CASE m # jobs[j].msg
    BY <1>6, <1>9, <2>1 DEF Once, OneCopyPerJob
  <2>2. CASE m = jobs[j].msg
    <3>1. \A a, b \in DOMAIN s : a # b => s[a].job # s[b].job
      BY <1>1, <1>4 DEF Once, OneCopyPerJob
    <3>2. \A a \in DOMAIN s : s[a].job # cp.job
      BY <1>1, <1>3, <1>4, <1>7
    <3> QED BY <1>5, <1>6, <1>9, <2>2, <3>1, <3>2
  <2> QED BY <2>1, <2>2
<1> QED BY <1>8, <1>9 DEF CopiesAreFinal, OneCopyPerJob

LEMMA OnceStep == ASSUME Once, [Next]_vars PROVE Once'
<1>1. TypeOK /\ TypeOK'
  BY NextType DEF Once
<1>2. NoFault /\ NoFault'
  BY <1>1, BudgetShrinks DEF Once, NoFault, Limited, TypeOK, Budgets
<1>3. CASE Request
  <2>1. UNCHANGED <<deliveries, jobs>>
    BY <1>3 DEF Request, SendFromComposer, SendByEvent, Retry, RetryFromDlq, Receipt
  <2> QED BY <1>1, <1>2, <2>1, SameJobsOnce DEF Once
<1>4. ASSUME NEW c \in Calls, Resume(c) PROVE Once'
  <2>1. CASE AddJob(c)
    <3>1. UNCHANGED deliveries
      BY <2>1 DEF AddJob
    <3> QED BY <1>1, <1>2, <2>1, <3>1, AddEffect, OnceKept DEF Once
  <2>2. CASE ~AddJob(c)
    <3>1. UNCHANGED <<deliveries, jobs>>
      BY <1>4, <2>2 DEF Resume, CopyAttachments, CheckQueued, PrepareJob, RecordJobId,
         ResetForRetry, ResolveDeadLetter, MarkFailed, Bury, ApplyReceipt, ResetFromDlq
    <3> QED BY <1>1, <1>2, <3>1, SameJobsOnce DEF Once
  <2> QED BY <2>1, <2>2
<1>5. ASSUME NEW j \in DOMAIN jobs, Work(j) PROVE Once'
  <2>1. CASE StartAttempt(j)
    <3>1. JobStep(j) /\ jobs[j].state \notin Over /\ UNCHANGED deliveries
      BY <1>1, <2>1, StartAttemptEffect DEF StartAttempt, Over
    <3> QED BY <1>1, <1>2, <3>1, OtherJobOnce DEF Once
  <2>2. CASE ProviderAccepts(j)
    BY <1>1, <1>2, <2>2, AcceptOnce DEF Once
  <2>3. CASE AdapterNotConfigured(j) \/ MarkUnconfigured(j)
    <3>1. JobStep(j) /\ jobs[j].state \notin Over /\ UNCHANGED deliveries
      BY <1>1, <2>3, ChangeState DEF AdapterNotConfigured, MarkUnconfigured, Over
    <3> QED BY <1>1, <1>2, <3>1, OtherJobOnce DEF Once
  <2>4. CASE RecordSent(j)
    <3>1. JobStep(j) /\ jobs'[j].state \in Over /\ UNCHANGED deliveries
      BY <1>1, <2>4, SentEffect DEF RecordSent, Over
    <3> QED BY <1>1, <1>2, <3>1, OtherJobOnce DEF Once
  <2>5. ASSUME NEW h \in Calls, ProviderRejects(j, h) PROVE Once'
    <3>1. JobStep(j) /\ jobs[j].state \notin Over /\ UNCHANGED deliveries
      BY <1>1, <2>5, FailEffect DEF ProviderRejects, Over
    <3> QED BY <1>1, <1>2, <3>1, OtherJobOnce DEF Once
  <2> QED BY <1>5, <2>1, <2>2, <2>3, <2>4, <2>5 DEF Work
<1>6. ASSUME NEW m \in Messages, Discard(m) PROVE Once'
  BY <1>1, <1>2, <1>6, SameJobsOnce DEF Once, Discard
<1>7. ~Fault
  BY <1>2 DEF NoFault, Fault, Spend, CallFails, AnswerLost, UpdateFails, Crash
<1>8. CASE UNCHANGED vars
  BY <1>1, <1>2, <1>8, SameJobsOnce DEF Once, vars
<1> QED BY <1>3, <1>4, <1>5, <1>6, <1>7, <1>8 DEF Next

(* OutboundProcessor: while answers are not lost and the process does not  *)
(* restart, no job makes the provider accept two copies, for any number of *)
(* attempts, retries by hand and jobs of one message.                      *)
THEOREM JobsSendOnce ==
    ASSUME Budget["crashes"] = 0, Budget["faults"] = 0
    PROVE  Spec => []OneCopyPerJob
<1>1. Init => Once
  BY InitType DEF Init, Once, NoFault, CopiesAreFinal, OneCopyPerJob
<1>2. Once /\ [Next]_vars => Once'
  BY OnceStep
<1>3. Once => OneCopyPerJob
  BY DEF Once
<1> QED BY <1>1, <1>2, <1>3, PTL DEF Spec

-----------------------------------------------------------------------------
(* Calls, jobs, dead-letter rows, queue ids and copies are of messages     *)
(* that exist, and a receipt brings one of the statuses it may bring.      *)
Exists(m) == status[m] # "NONE"
Existing ==
    /\ \A c \in Calls : call[c].pc # "idle" => Exists(call[c].msg)
    /\ \A j \in DOMAIN jobs : Exists(jobs[j].msg)
    /\ \A m \in Messages :
          queueJobId[m] # 0 \/ deadLetter[m] # "none" \/ Copies(m) # 0 => Exists(m)
    /\ \A c \in Calls : call[c].pc = "apply" => call[c].news \in ReceiptStatus
Sound == Evidence /\ Existing

(* What a step may write into the status of a message.                     *)
Moves(m, s) ==
    \/ ~Exists(m) /\ s = "PENDING"
    \/ Exists(m) /\ s \in {"PENDING", "FAILED", status[m]}
    \/ Exists(m) /\ s \in Confirmed /\ Copies(m) > 0
StatusStep ==
    \/ UNCHANGED status
    \/ /\ UNCHANGED deliveries
       /\ \E m \in Messages, s \in Status : Moves(m, s) /\ status' = [status EXCEPT ![m] = s]

LEMMA StatusMoves == ASSUME Sound, [Next]_vars PROVE StatusStep
<1> USE DEF At
<1>1. TypeOK /\ Existing /\ \A m \in Messages : Copies(m) \in Nat
  BY DEF Sound, Evidence, TypeOK, Copies
<1>2. ASSUME NEW c \in Calls, call[c].pc # "idle"
      PROVE  call[c].msg \in Messages /\ Exists(call[c].msg)
  BY <1>1, <1>2, BusyCall DEF Existing
<1>3. ASSUME NEW j \in DOMAIN jobs PROVE jobs[j].msg \in Messages /\ Exists(jobs[j].msg)
  BY <1>1, JobParts DEF Existing
<1>4. ASSUME NEW m \in Messages, status[m] = "NONE", status' = [status EXCEPT ![m] = "PENDING"],
             UNCHANGED deliveries
      PROVE  StatusStep
  BY <1>4 DEF StatusStep, Moves, Exists, Status
<1>5. ASSUME NEW m \in Messages, Exists(m), NEW s \in {"PENDING", "FAILED"},
             status' = [status EXCEPT ![m] = s], UNCHANGED deliveries
      PROVE  StatusStep
  BY <1>5 DEF StatusStep, Moves, Status
<1>6. CASE Request
  BY <1>4, <1>6 DEF Request, SendFromComposer, SendByEvent, Retry, RetryFromDlq, Receipt, StatusStep
<1>7. ASSUME NEW c \in Calls, Resume(c) PROVE StatusStep
  <2>1. CASE CopyAttachments(c) \/ CheckQueued(c) \/ AddJob(c) \/ RecordJobId(c)
             \/ ResolveDeadLetter(c) \/ Bury(c)
    BY <2>1 DEF CopyAttachments, CheckQueued, AddJob, RecordJobId, ResolveDeadLetter, Bury, StatusStep
  <2>2. CASE PrepareJob(c) \/ MarkFailed(c)
    BY <1>2, <1>5, <2>2 DEF PrepareJob, MarkFailed, StatusStep
  <2>3. CASE ResetForRetry(c) \/ \E h \in Calls : ResetFromDlq(c, h)
    BY <1>2, <1>5, <2>3 DEF ResetForRetry, ResetFromDlq, ResetMessage
  <2>4. CASE ApplyReceipt(c)
    <3>1. call[c].pc = "apply" /\ call[c].msg \in Messages /\ Exists(call[c].msg)
          /\ UNCHANGED deliveries
      BY <1>2, <2>4 DEF ApplyReceipt
    <3>2. call[c].news \in ReceiptStatus /\ Copies(call[c].msg) > 0
      BY <1>1, <3>1 DEF Existing, Sound, Evidence
    <3>3. PICK s \in Status : /\ s = call[c].news \/ s = status[call[c].msg]
                              /\ status' = [status EXCEPT ![call[c].msg] = s]
      <4>1. status[call[c].msg] \in Status
        BY <1>1, <3>1 DEF TypeOK
      <4>2. call[c].news \in Status
        BY <3>2 DEF ReceiptStatus, Status
      <4> QED BY <2>4, <4>1, <4>2 DEF ApplyReceipt
    <3>4. Moves(call[c].msg, s)
      BY <3>1, <3>2, <3>3 DEF Moves, ReceiptStatus, Confirmed
    <3> QED BY <3>1, <3>3, <3>4 DEF StatusStep
  <2> QED BY <1>7, <2>1, <2>2, <2>3, <2>4 DEF Resume
<1>8. ASSUME NEW j \in DOMAIN jobs, Work(j) PROVE StatusStep
  <2>1. CASE MarkUnconfigured(j)
    BY <1>3, <1>5, <2>1 DEF MarkUnconfigured
  <2>2. CASE RecordSent(j)
    <3>1. Copies(jobs[j].msg) > 0
      BY <1>1, <1>3, <2>2 DEF RecordSent, Sound, Evidence
    <3>2. Moves(jobs[j].msg, "SENT") /\ "SENT" \in Status
      BY <1>3, <3>1 DEF Moves, Confirmed, Status
    <3> QED BY <1>3, <2>2, <3>2 DEF RecordSent, StatusStep
  <2>3. CASE ~MarkUnconfigured(j) /\ ~RecordSent(j)
    BY <1>8, <2>3 DEF Work, StartAttempt, ProviderAccepts, AdapterNotConfigured, ProviderRejects, StatusStep
  <2> QED BY <2>1, <2>2, <2>3
<1>9. CASE Fault
  <2>1. ASSUME NEW c \in Calls, CallFails(c) PROVE StatusStep
    <3>1. call[c].pc # "idle" /\ UNCHANGED deliveries
      BY <2>1 DEF CallFails
    <3>2. call[c].msg \in Messages /\ Exists(call[c].msg) /\ status[call[c].msg] \in Status
      BY <1>1, <1>2, <3>1 DEF TypeOK
    <3>3. PICK s \in Status : /\ s = "FAILED" \/ s = status[call[c].msg]
                              /\ status' = [status EXCEPT ![call[c].msg] = s]
      BY <2>1, <3>2 DEF CallFails, StatusAfterError, Status
    <3> QED BY <3>1, <3>2, <3>3 DEF StatusStep, Moves
  <2> QED BY <1>9, <2>1 DEF Fault, AnswerLost, UpdateFails, Crash, StatusStep
<1>10. CASE UNCHANGED vars \/ \E m \in Messages : Discard(m)
  BY <1>10 DEF vars, Discard, StatusStep
<1> QED BY <1>6, <1>7, <1>8, <1>9, <1>10 DEF Next

LEMMA ExistenceStays ==
    ASSUME Sound, [Next]_vars, NEW m \in Messages, Exists(m)
    PROVE  Exists(m)'
<1>1. status \in [Messages -> Status] /\ StatusStep
  BY StatusMoves DEF Sound, Evidence, TypeOK
<1> QED BY <1>1 DEF StatusStep, Moves, Exists, Confirmed

(* What a step has to respect so that everything is of messages that exist. *)
LEMMA ExistingKept ==
    ASSUME Sound, [Next]_vars,
           \A c \in Calls : call'[c].pc # "idle" =>
               \/ call[c].pc # "idle" /\ call'[c].msg = call[c].msg
               \/ call'[c].msg \in Messages /\ Exists(call'[c].msg)
               \/ call'[c].msg \in Messages /\ status'[call'[c].msg] # "NONE",
           \A j \in DOMAIN jobs' :
               \/ j \in DOMAIN jobs /\ jobs'[j].msg = jobs[j].msg
               \/ jobs'[j].msg \in Messages /\ Exists(jobs'[j].msg),
           \A m \in Messages :
               \/ queueJobId'[m] = queueJobId[m] /\ deadLetter'[m] = deadLetter[m] /\ Copies(m)' = Copies(m)
               \/ Exists(m),
           \A c \in Calls : call'[c].pc = "apply" => call'[c] = call[c] \/ call'[c].news \in ReceiptStatus
    PROVE  Existing'
<1>1. TypeOK /\ Existing
  BY DEF Sound, Evidence
<1>2. ASSUME NEW c \in Calls, call'[c].pc # "idle" PROVE status'[call'[c].msg] # "NONE"
  <2>1. CASE call[c].pc # "idle" /\ call'[c].msg = call[c].msg
    <3>1. call[c].msg \in Messages /\ Exists(call[c].msg)
      BY <1>1, <2>1, BusyCall DEF Existing
    <3> QED BY <2>1, <3>1, ExistenceStays DEF Exists
  <2> QED BY <1>2, <2>1, ExistenceStays DEF Exists
<1>3. ASSUME NEW j \in DOMAIN jobs' PROVE status'[jobs'[j].msg] # "NONE"
  <2>1. CASE j \in DOMAIN jobs /\ jobs'[j].msg = jobs[j].msg
    <3>1. jobs[j].msg \in Messages /\ Exists(jobs[j].msg)
      BY <1>1, <2>1, JobParts DEF Existing
    <3> QED BY <2>1, <3>1, ExistenceStays DEF Exists
  <2> QED BY <2>1, ExistenceStays DEF Exists
<1>4. ASSUME NEW m \in Messages,
             queueJobId'[m] # 0 \/ deadLetter'[m] # "none" \/ Copies(m)' # 0
      PROVE  status'[m] # "NONE"
  <2>1. Exists(m)
    BY <1>1, <1>4 DEF Existing
  <2> QED BY <2>1, ExistenceStays DEF Exists
<1>5. \A c \in Calls : call'[c].pc = "apply" => call'[c].news \in ReceiptStatus
  BY <1>1 DEF Existing
<1> QED BY <1>2, <1>3, <1>4, <1>5 DEF Existing, Exists

LEMMA CallExists ==
    ASSUME Sound, NEW c \in Calls, call[c].pc # "idle"
    PROVE  call[c].msg \in Messages /\ Exists(call[c].msg)
BY BusyCall DEF Sound, Evidence, Existing

LEMMA JobExists ==
    ASSUME Sound, NEW j \in DOMAIN jobs
    PROVE  jobs[j].msg \in Messages /\ Exists(jobs[j].msg)
BY JobParts DEF Sound, Evidence, Existing

(* One call goes on with its message, or ends, and no job changes.         *)
LEMMA OneCallExists ==
    ASSUME Sound, [Next]_vars, NEW c \in Calls, call[c].pc # "idle",
           \A d \in Calls : d # c => call'[d] = call[d],
           call'[c].pc # "apply", call'[c].pc = "idle" \/ call'[c].msg = call[c].msg,
           UNCHANGED <<jobs, deliveries>>,
           \A m \in Messages :
               \/ queueJobId'[m] = queueJobId[m] /\ deadLetter'[m] = deadLetter[m]
               \/ Exists(m)
    PROVE  Existing'
<1>1. \A m \in Messages : Copies(m)' = Copies(m)
  BY DEF Copies
<1> QED BY <1>1, ExistingKept

(* One call starts for a message that exists, or exists from now on.       *)
LEMMA NewCallExists ==
    ASSUME Sound, [Next]_vars, NEW c \in Calls, NEW m \in Messages,
           \A d \in Calls : d # c => call'[d] = call[d],
           call'[c].msg = m, Exists(m) \/ status'[m] # "NONE",
           call'[c].pc = "apply" => call'[c].news \in ReceiptStatus,
           UNCHANGED <<jobs, deliveries, queueJobId, deadLetter>>
    PROVE  Existing'
<1>1. \A n \in Messages : Copies(n)' = Copies(n)
  BY DEF Copies
<1> QED BY <1>1, ExistingKept

LEMMA RequestExists == ASSUME Sound, Request PROVE Existing'
<1> USE DEF At
<1>0. TypeOK /\ Existing /\ [Next]_vars
  BY DEF Sound, Evidence, Next
<1>1. ASSUME NEW c \in Calls, NEW h \in Calls, NEW m \in Messages, SendFromComposer(c, h, m)
      PROVE  Existing'
  <2>1. status'[m] # "NONE" /\ UNCHANGED <<jobs, deliveries, queueJobId, deadLetter>>
    BY <1>0, <1>1 DEF SendFromComposer, TypeOK
  <2>2. /\ call'[c].pc \in {"copy", "enqueue"} /\ call'[c].msg = m
        /\ call'[h].pc = "check" /\ call'[h].msg = m
        /\ \A d \in Calls : d # c /\ d # h => call'[d] = call[d]
    BY <1>0, <1>1, ComposerEffect
  <2>3. \A n \in Messages : Copies(n)' = Copies(n)
    BY <2>1 DEF Copies
  <2> QED BY <1>0, <2>1, <2>2, <2>3, ExistingKept
<1>2. ASSUME NEW h \in Calls, NEW m \in Messages, SendByEvent(h, m) PROVE Existing'
  <2>1. status'[m] # "NONE" /\ UNCHANGED <<jobs, deliveries, queueJobId, deadLetter>>
    BY <1>0, <1>2 DEF SendByEvent, TypeOK, row
  <2>2. call'[h].pc = "check" /\ call'[h].msg = m /\ \A d \in Calls : d # h => call'[d] = call[d]
    BY <1>0, <1>2, StartEffect DEF SendByEvent, EventHandler, Op, Await
  <2> QED BY <1>0, <2>1, <2>2, NewCallExists
<1>3. ASSUME NEW h \in Calls, NEW m \in Messages, Retry(h, m) PROVE Existing'
  <2>1. Exists(m) /\ UNCHANGED <<jobs, deliveries, queueJobId, deadLetter>>
    BY <1>3 DEF Retry, row, Exists
  <2>2. call'[h].pc = "reset" /\ call'[h].msg = m /\ \A d \in Calls : d # h => call'[d] = call[d]
    <3>1. PICK r : r = NewCall("retry", "reset", m)
      OBVIOUS
    <3>2. r.pc = "reset" /\ r.msg = m
      BY <3>1, NewCallType DEF Op, Await
    <3>3. call' = [call EXCEPT ![h] = r] /\ DOMAIN call = Calls
      BY <1>0, <1>3, <3>1 DEF Retry, TypeOK, CallTable
    <3> QED BY <3>2, <3>3
  <2> QED BY <1>0, <2>1, <2>2, NewCallExists
<1>4. ASSUME NEW h \in Calls, NEW m \in Messages, RetryFromDlq(h, m) PROVE Existing'
  <2>1. Exists(m) /\ UNCHANGED <<jobs, deliveries, queueJobId, deadLetter>>
    BY <1>0, <1>4 DEF RetryFromDlq, row, Existing
  <2>2. call'[h].pc = "reset" /\ call'[h].msg = m /\ \A d \in Calls : d # h => call'[d] = call[d]
    <3>1. PICK r : r = NewCall("dlq", "reset", m)
      OBVIOUS
    <3>2. r.pc = "reset" /\ r.msg = m
      BY <3>1, NewCallType DEF Op, Await
    <3>3. call' = [call EXCEPT ![h] = r] /\ DOMAIN call = Calls
      BY <1>0, <1>4, <3>1 DEF RetryFromDlq, TypeOK, CallTable
    <3> QED BY <3>2, <3>3
  <2> QED BY <1>0, <2>1, <2>2, NewCallExists
<1>5. ASSUME NEW c \in Calls, NEW m \in Messages, NEW s \in ReceiptStatus, Receipt(c, m, s)
      PROVE  Existing'
  <2>1. UNCHANGED <<jobs, deliveries, queueJobId, deadLetter>> /\ Copies(m) # 0
    <3>1. deliveries[m] \in Seq(Copy)
      BY <1>0 DEF TypeOK
    <3> QED BY <1>5, <3>1 DEF Receipt, row, Copies, ReceiptFor
  <2>2. Exists(m)
    BY <1>0, <2>1 DEF Existing
  <2> QED BY <1>0, <1>5, <2>1, <2>2, ReceiptEffect, NewCallExists
<1> QED BY <1>1, <1>2, <1>3, <1>4, <1>5 DEF Request

LEMMA ResumeExists == ASSUME Sound, NEW c \in Calls, Resume(c) PROVE Existing'
<1> USE DEF At
<1>0. TypeOK /\ Existing /\ [Next]_vars
  BY DEF Sound, Evidence, Next
<1>1. CASE CopyAttachments(c) \/ ResetForRetry(c) \/ MarkFailed(c)
  <2>1. \E pc \in Await : Goto(c, pc) /\ pc # "apply"
    BY <1>1 DEF CopyAttachments, ResetForRetry, MarkFailed, Await
  <2>2. call[c].pc # "idle" /\ UNCHANGED <<jobs, deliveries, deadLetter>>
    BY <1>1 DEF CopyAttachments, ResetForRetry, ResetMessage, MarkFailed, row
  <2>3. call[c].msg \in Messages /\ Exists(call[c].msg)
    BY <2>2, CallExists
  <2>4. \A m \in Messages : queueJobId'[m] = queueJobId[m] \/ Exists(m)
    BY <1>0, <1>1, <2>3 DEF CopyAttachments, ResetForRetry, ResetMessage, MarkFailed, row, TypeOK
  <2> QED BY <1>0, <2>1, <2>2, <2>4, GotoEffect, OneCallExists
<1>2. CASE CheckQueued(c)
  <2>1. Return(c) \/ Goto(c, "enqueue")
    BY <1>2 DEF CheckQueued
  <2>2. call[c].pc # "idle" /\ UNCHANGED <<jobs, deliveries, deadLetter, queueJobId>>
    BY <1>2 DEF CheckQueued, row
  <2> QED BY <1>0, <2>1, <2>2, GotoEffect, ReturnEffect, OneCallExists DEF Await
<1>3. CASE PrepareJob(c)
  <2>1. call[c].pc # "idle" /\ UNCHANGED <<jobs, deliveries, deadLetter, queueJobId>>
    BY <1>3 DEF PrepareJob, row
  <2>2. CASE call[c].msg \in Unroutable
    BY <1>0, <1>3, <2>1, <2>2, ReturnEffect, OneCallExists DEF PrepareJob
  <2>3. CASE call[c].msg \notin Unroutable
    BY <1>0, <1>3, <2>1, <2>3, PrepareEffect, OneCallExists
  <2> QED BY <2>2, <2>3
<1>4. CASE AddJob(c)
  <2>1. call[c].pc # "idle" /\ UNCHANGED <<deliveries, deadLetter, queueJobId>>
    BY <1>4 DEF AddJob, row
  <2>2. call[c].msg \in Messages /\ Exists(call[c].msg)
    BY <2>1, CallExists
  <2>3. \A m \in Messages : Copies(m)' = Copies(m)
    BY <2>1 DEF Copies
  <2> QED BY <1>0, <1>4, <2>1, <2>2, <2>3, AddEffect, ExistingKept
<1>5. CASE RecordJobId(c) \/ ResolveDeadLetter(c) \/ Bury(c) \/ ApplyReceipt(c)
  <2>1. Return(c) /\ call[c].pc # "idle" /\ UNCHANGED <<jobs, deliveries>>
    BY <1>5 DEF RecordJobId, ResolveDeadLetter, Bury, ApplyReceipt
  <2>2. call[c].msg \in Messages /\ Exists(call[c].msg)
    BY <2>1, CallExists
  <2>3. \A m \in Messages : \/ queueJobId'[m] = queueJobId[m] /\ deadLetter'[m] = deadLetter[m]
                            \/ Exists(m)
    BY <1>0, <1>5, <2>2 DEF RecordJobId, ResolveDeadLetter, Bury, ApplyReceipt, row, TypeOK
  <2> QED BY <1>0, <2>1, <2>3, ReturnEffect, OneCallExists
<1>6. ASSUME NEW h \in Calls, ResetFromDlq(c, h) PROVE Existing'
  <2>1. call[c].pc # "idle" /\ UNCHANGED <<jobs, deliveries, deadLetter>>
    BY <1>6 DEF ResetFromDlq, ResetMessage
  <2>2. call[c].msg \in Messages /\ Exists(call[c].msg)
    BY <2>1, CallExists
  <2>3. \A m \in Messages : queueJobId'[m] = queueJobId[m] \/ Exists(m)
    BY <1>0, <1>6, <2>2 DEF ResetFromDlq, ResetMessage, TypeOK
  <2>4. \A m \in Messages : Copies(m)' = Copies(m)
    BY <2>1 DEF Copies
  <2> QED BY <1>0, <1>6, <2>1, <2>2, <2>3, <2>4, ResetFromDlqEffect, ExistingKept
<1> QED BY <1>1, <1>2, <1>3, <1>4, <1>5, <1>6 DEF Resume

(* The worker works for a message that exists, and calls at most           *)
(* onJobFailed for it.                                                     *)
LEMMA WorkExists ==
    ASSUME Sound, [Next]_vars, NEW j \in DOMAIN jobs, JobStep(j),
           UNCHANGED <<queueJobId, deadLetter>>,
           \A m \in Messages : m # jobs[j].msg => deliveries'[m] = deliveries[m],
           \A c \in Calls : \/ call'[c] = call[c]
                            \/ call'[c].pc = "mark" /\ call'[c].msg = jobs[j].msg
    PROVE  Existing'
<1>1. jobs[j].msg \in Messages /\ Exists(jobs[j].msg)
  BY JobExists
<1>2. \A m \in Messages : Copies(m)' = Copies(m) \/ Exists(m)
  BY <1>1 DEF Copies
<1>3. \A k \in DOMAIN jobs' : k \in DOMAIN jobs /\ jobs'[k].msg = jobs[k].msg
  BY DEF JobStep
<1> QED BY <1>1, <1>2, <1>3, ExistingKept

LEMMA SoundStep == ASSUME Sound, [Next]_vars PROVE Sound'
<1> USE DEF At
<1>0. TypeOK /\ Existing /\ Evidence'
  BY EvidenceStep DEF Sound, Evidence
<1>1. ASSUME NEW j \in DOMAIN jobs, Work(j) PROVE Existing'
  <2>1. CASE StartAttempt(j) \/ AdapterNotConfigured(j) \/ MarkUnconfigured(j)
    BY <1>0, <2>1, StartAttemptEffect, ChangeState, WorkExists
       DEF StartAttempt, AdapterNotConfigured, MarkUnconfigured, row
  <2>2. CASE ProviderAccepts(j)
    BY <1>0, <2>2, AcceptEffect, DeliverEffect, WorkExists DEF ProviderAccepts, row
  <2>3. CASE RecordSent(j)
    BY <1>0, <2>3, SentEffect, WorkExists DEF RecordSent
  <2>4. ASSUME NEW h \in Calls, ProviderRejects(j, h) PROVE Existing'
    BY <1>0, <2>4, FailEffect, WorkExists DEF ProviderRejects, row
  <2> QED BY <1>1, <2>1, <2>2, <2>3, <2>4 DEF Work
<1>2. ASSUME NEW m \in Messages, Discard(m) PROVE Existing'
  <2>1. Exists(m) /\ UNCHANGED <<jobs, call, deliveries, queueJobId>>
    BY <1>0, <1>2 DEF Discard, Existing
  <2>2. \A n \in Messages : deadLetter'[n] = deadLetter[n] \/ Exists(n)
    BY <1>0, <1>2, <2>1 DEF Discard, TypeOK
  <2>3. \A n \in Messages : Copies(n)' = Copies(n)
    BY <2>1 DEF Copies
  <2> QED BY <2>1, <2>2, <2>3, ExistingKept
<1>3. ASSUME Fault PROVE Existing'
  <2>1. ASSUME NEW c \in Calls, CallFails(c) PROVE Existing'
    BY <1>0, <2>1, ReturnEffect, OneCallExists DEF CallFails, row
  <2>2. ASSUME NEW j \in DOMAIN jobs, NEW h \in Calls, AnswerLost(j, h) \/ UpdateFails(j, h)
        PROVE  Existing'
    <3>1. FailAttempt(j, h) /\ UNCHANGED <<queueJobId, deadLetter>>
      BY <2>2 DEF AnswerLost, UpdateFails, row
    <3>2. \A m \in Messages : m # jobs[j].msg => deliveries'[m] = deliveries[m]
      BY <1>0, <2>2, DeliverEffect DEF AnswerLost, UpdateFails
    <3> QED BY <1>0, <3>1, <3>2, FailEffect, WorkExists
  <2>3. ASSUME Crash PROVE Existing'
    <3>1. UNCHANGED <<deliveries, queueJobId, deadLetter>> /\ DOMAIN jobs' = DOMAIN jobs
      BY <2>3 DEF Crash, row
    <3>2. \A c \in Calls : call'[c].pc = "idle"
      BY <2>3, IdleType DEF Crash
    <3>3. \A j \in DOMAIN jobs : jobs'[j].msg = jobs[j].msg
      BY <1>0, <2>3, JobParts DEF Crash, Job
    <3>4. \A m \in Messages : Copies(m)' = Copies(m)
      BY <3>1 DEF Copies
    <3> QED BY <3>1, <3>2, <3>3, <3>4, ExistingKept
  <2> QED BY <1>3, <2>1, <2>2, <2>3 DEF Fault
<1>4. ASSUME UNCHANGED vars PROVE Existing'
  BY <1>0, <1>4 DEF vars, Existing, Exists, Copies
<1>5. Existing'
  BY <1>1, <1>2, <1>3, <1>4, RequestExists, ResumeExists DEF Next
<1> QED BY <1>0, <1>5 DEF Sound

-----------------------------------------------------------------------------
(* The pipeline runs the lifecycle of Delivery.                            *)

StateOf(s) ==
    CASE s = "NONE" -> "unsent" [] s = "PENDING" -> "pending"
      [] s = "FAILED" -> "failed" [] OTHER -> "confirmed"
Shown == [m \in Messages |-> StateOf(status[m])]
Out == [m \in Messages |-> Copies(m)]

LEMMA ShownSets ==
    ASSUME TypeOK, NEW m \in Messages, NEW s \in Status, status' = [status EXCEPT ![m] = s]
    PROVE  Shown' = [Shown EXCEPT ![m] = StateOf(s)]
<1>1. /\ status'[m] = s
      /\ \A n \in Messages : n # m => status'[n] = status[n]
  BY DEF TypeOK
<1>2. PICK w : w = StateOf(s)
  OBVIOUS
<1>3. \A n \in Messages : StateOf(status'[n]) = IF n = m THEN w ELSE StateOf(status[n])
  BY <1>1, <1>2
<1>4. Shown' = [n \in Messages |-> IF n = m THEN w ELSE StateOf(status[n])]
  BY <1>3 DEF Shown
<1>5. [Shown EXCEPT ![m] = w] = [n \in Messages |-> IF n = m THEN w ELSE StateOf(status[n])]
  BY DEF Shown
<1> QED BY <1>2, <1>4, <1>5

(* A status write is a step of the lifecycle, or does not show.            *)
LEMMA StatusShows ==
    ASSUME TypeOK, NEW m \in Messages, NEW s \in Status, Moves(m, s),
           status' = [status EXCEPT ![m] = s], UNCHANGED deliveries
    PROVE  Lifecycle!Next \/ UNCHANGED <<Shown, Out>>
<1>1. Shown' = [Shown EXCEPT ![m] = StateOf(s)]
  BY ShownSets
<1>2. UNCHANGED Out /\ Out[m] = Copies(m) /\ Shown[m] = StateOf(status[m])
  BY DEF Out, Copies, Shown
<1>3. /\ Lifecycle!Submit(m) <=> Shown[m] = "unsent" /\ Shown' = [Shown EXCEPT ![m] = "pending"] /\ UNCHANGED Out
      /\ Lifecycle!Confirm(m) <=> Out[m] > 0 /\ Shown[m] # "unsent" /\ Shown' = [Shown EXCEPT ![m] = "confirmed"] /\ UNCHANGED Out
      /\ Lifecycle!Fail(m) <=> Shown[m] # "unsent" /\ Shown' = [Shown EXCEPT ![m] = "failed"] /\ UNCHANGED Out
      /\ Lifecycle!Reopen(m) <=> Shown[m] # "unsent" /\ Shown' = [Shown EXCEPT ![m] = "pending"] /\ UNCHANGED Out
  BY DEF Lifecycle!Submit, Lifecycle!Confirm, Lifecycle!Fail, Lifecycle!Reopen, Lifecycle!Settle,
         Shown, Out, Copies, StateOf
<1>4. CASE ~Exists(m) /\ s = "PENDING"
  <2>1. Shown[m] = "unsent" /\ StateOf(s) = "pending"
    BY <1>2, <1>4 DEF Exists, StateOf
  <2> QED BY <1>1, <1>2, <1>3, <2>1 DEF Lifecycle!Next
<1>5. CASE Exists(m) /\ s \in {"PENDING", "FAILED"}
  <2>1. Shown[m] # "unsent" /\ StateOf(s) \in {"pending", "failed"}
    BY <1>2, <1>5 DEF Exists, StateOf
  <2> QED BY <1>1, <1>2, <1>3, <2>1 DEF Lifecycle!Next
<1>6. CASE s = status[m]
  <2>1. Shown' = [Shown EXCEPT ![m] = Shown[m]]
    BY <1>1, <1>2, <1>6
  <2>2. [Shown EXCEPT ![m] = Shown[m]] = Shown
    BY DEF Shown
  <2>3. UNCHANGED <<Shown, Out>>
    BY ONLY <1>2, <2>1, <2>2, Zenon
  <2> QED BY ONLY <2>3
<1>7. CASE Exists(m) /\ s \in Confirmed /\ Copies(m) > 0
  <2>1. Shown[m] # "unsent" /\ StateOf(s) = "confirmed"
    BY <1>2, <1>7 DEF Exists, StateOf, Confirmed
  <2> QED BY <1>1, <1>2, <1>3, <1>7, <2>1 DEF Lifecycle!Next
<1> QED BY <1>4, <1>5, <1>6, <1>7 DEF Moves

(* So is a copy the provider takes.                                        *)
LEMMA DeliverShows ==
    ASSUME Sound, NEW j \in DOMAIN jobs, Deliver(j), UNCHANGED status
    PROVE  Lifecycle!Next
<1>1. TypeOK /\ \A m \in Messages : Copies(m) \in Nat
  BY DEF Sound, Evidence, TypeOK, Copies
<1>2. PICK m \in Messages : m = jobs[j].msg /\ Exists(m)
  BY JobExists
<1>3. Copies(m)' = Copies(m) + 1 /\ \A n \in Messages : n # m => Copies(n)' = Copies(n)
  BY <1>1, <1>2, DeliverEffect DEF Copies
<1>4. Out' = [Out EXCEPT ![m] = @ + 1]
  BY <1>3 DEF Out
<1>5. UNCHANGED Shown /\ Shown[m] # "unsent"
  BY <1>2 DEF Shown, StateOf, Exists
<1>6. Lifecycle!Emit(m) <=> Shown[m] # "unsent" /\ Out' = [Out EXCEPT ![m] = @ + 1] /\ UNCHANGED Shown
  BY DEF Lifecycle!Emit, Shown, Out, Copies, StateOf
<1> QED BY <1>2, <1>4, <1>5, <1>6 DEF Lifecycle!Next

(* A step gives the provider a copy or leaves the copies alone.            *)
LEMMA CopiesStep ==
    ASSUME [Next]_vars
    PROVE  \/ UNCHANGED deliveries
           \/ UNCHANGED status /\ \E j \in DOMAIN jobs : Deliver(j)
<1>1. CASE Request
  BY <1>1 DEF Request, SendFromComposer, SendByEvent, Retry, RetryFromDlq, Receipt
<1>2. CASE \E c \in Calls : Resume(c)
  BY <1>2 DEF Resume, CopyAttachments, CheckQueued, PrepareJob, AddJob, RecordJobId,
     ResetForRetry, ResetFromDlq, ResolveDeadLetter, MarkFailed, Bury, ApplyReceipt
<1>3. CASE \E j \in DOMAIN jobs : Work(j)
  BY <1>3 DEF Work, StartAttempt, ProviderAccepts, AdapterNotConfigured, MarkUnconfigured,
     RecordSent, ProviderRejects
<1>4. CASE Fault
  BY <1>4 DEF Fault, CallFails, AnswerLost, UpdateFails, Crash
<1>5. CASE UNCHANGED vars \/ \E m \in Messages : Discard(m)
  BY <1>5 DEF vars, Discard
<1> QED BY <1>1, <1>2, <1>3, <1>4, <1>5 DEF Next

LEMMA InitSound == ASSUME Init PROVE Sound
<1>1. TypeOK
  BY InitType
<1>2. \A m \in Messages : Copies(m) = 0
  BY DEF Init, Copies
<1>3. \A c \in Calls : call[c].pc = "idle"
  BY IdleType DEF Init
<1>4. Existing
  BY <1>2, <1>3 DEF Init, Existing, Exists
<1>5. Evidence
  BY <1>1, <1>2, <1>3 DEF Init, Evidence, Confirmed
<1> QED BY <1>4, <1>5 DEF Sound

(* The pipeline, with its calls, jobs, faults and restarts, implements     *)
(* Delivery: OutboundSendService, OutboundService, OutboundProcessor and   *)
(* DeliveryTrackingService write deliveryStatus in no other way.           *)
THEOREM PipelineIsLifecycle == Spec => ImplementsLifecycle
<1>1. Init => Sound
  BY InitSound
<1>2. Sound /\ [Next]_vars => Sound'
  BY SoundStep
<1>3. Init => Lifecycle!Init
  <2> SUFFICES ASSUME Init PROVE Lifecycle!Init
    OBVIOUS
  <2>1. Shown = [m \in Messages |-> "unsent"] /\ Out = [m \in Messages |-> 0]
    BY DEF Init, Shown, Out, StateOf, Copies
  <2> QED BY <2>1 DEF Lifecycle!Init, Shown, Out, StateOf, Copies
<1>4. Sound /\ [Next]_vars => Lifecycle!Next \/ UNCHANGED <<Shown, Out>>
  <2> SUFFICES ASSUME Sound, [Next]_vars PROVE Lifecycle!Next \/ UNCHANGED <<Shown, Out>>
    OBVIOUS
  <2>1. CASE UNCHANGED status /\ \E j \in DOMAIN jobs : Deliver(j)
    BY <2>1, DeliverShows
  <2>2. CASE UNCHANGED <<deliveries, status>>
    BY <2>2 DEF Shown, Out, Copies
  <2>3. CASE UNCHANGED deliveries /\ \E m \in Messages, s \in Status :
                                        Moves(m, s) /\ status' = [status EXCEPT ![m] = s]
    BY <2>3, StatusShows DEF Sound, Evidence
  <2> QED BY <2>1, <2>2, <2>3, CopiesStep, StatusMoves DEF StatusStep
<1> QED
  BY <1>1, <1>2, <1>3, <1>4, PTL
     DEF Spec, ImplementsLifecycle, Lifecycle!Spec, Shown, Out, StateOf, Copies

-----------------------------------------------------------------------------
(* PendingIsOwned.  A message whose handler has still to look at it must   *)
(* not have been queued by anybody else yet; and the two calls of a retry  *)
(* from the dead-letter list break that, so they are excluded.             *)
Acts == {"copy", "enqueue", "add", "mark"}
Acting(m) == \E c \in Calls : call[c].msg = m /\ call[c].pc \in Acts
HasJob(m) == \E j \in DOMAIN jobs : jobs[j].msg = m
Fresh(m) == /\ queueJobId[m] = 0 /\ ~HasJob(m)
            /\ \E c \in Calls : call[c].msg = m /\ call[c].pc = "check"
Held(m) == Acting(m) \/ HasLiveJob(m) \/ Fresh(m)

Calm == NoFault /\ budget["dlq"] = 0
CallsOK == \A c \in Calls : /\ call[c].op # "dlq"
                            /\ (call[c].pc = "record" => HasJob(call[c].msg))
PendingHeld == \A m \in Messages : status[m] = "PENDING" => Held(m)
Owned == Sound /\ Calm /\ CallsOK /\ PendingHeld

(* A step that leaves alone whatever holds n.                              *)
Holding == Acts \cup {"check"}
SameFor(n) ==
    /\ queueJobId'[n] = queueJobId[n]
    /\ \A d \in Calls : call[d].msg = n /\ call[d].pc \in Holding =>
                            call'[d].msg = n /\ call'[d].pc = call[d].pc
    /\ \A j \in DOMAIN jobs : jobs[j].msg = n =>
          j \in DOMAIN jobs' /\ jobs'[j].msg = n /\ jobs'[j].state = jobs[j].state
    /\ \A j \in DOMAIN jobs' : jobs'[j].msg = n => j \in DOMAIN jobs /\ jobs[j].msg = n

LEMMA HeldStays == ASSUME NEW n \in Messages, Held(n), SameFor(n) PROVE Held(n)'
<1>1. CASE Acting(n)
  BY <1>1 DEF Acting, SameFor, Held, Holding
<1>2. CASE HasLiveJob(n)
  BY <1>2 DEF HasLiveJob, SameFor, Held
<1>3. CASE Fresh(n)
  BY <1>3 DEF Fresh, HasJob, SameFor, Held, Holding
<1> QED BY <1>1, <1>2, <1>3 DEF Held

(* Jobs stay, so a call that has recorded one keeps it.                    *)
LEMMA CallsKept ==
    ASSUME CallsOK,
           \A j \in DOMAIN jobs : j \in DOMAIN jobs' /\ jobs'[j].msg = jobs[j].msg,
           \A c \in Calls : call'[c].op = call[c].op \/ call'[c].op # "dlq",
           \A c \in Calls : call'[c].pc = "record" =>
               \/ call[c].pc = "record" /\ call'[c].msg = call[c].msg
               \/ \E j \in DOMAIN jobs' : jobs'[j].msg = call'[c].msg
    PROVE  CallsOK'
BY DEF CallsOK, HasJob

(* A call that was idle starts; no job changes.                            *)
LEMMA StartKeeps ==
    ASSUME CallsOK, PendingHeld, NEW h \in Calls, call[h].pc = "idle",
           call'[h].pc # "record", call'[h].op # "dlq",
           \A d \in Calls : d # h => call'[d] = call[d],
           UNCHANGED <<jobs, queueJobId>>
    PROVE  CallsOK' /\ \A n \in Messages : status[n] = "PENDING" => Held(n)'
<1>1. CallsOK'
  BY CallsKept
<1>2. \A n \in Messages : SameFor(n)
  BY DEF SameFor, Holding, Acts
<1> QED BY <1>1, <1>2, HeldStays DEF PendingHeld

LEMMA RequestKeeps == ASSUME Owned, Request PROVE CallsOK' /\ PendingHeld'
<1> USE DEF At
<1>0. TypeOK /\ Sound /\ Existing /\ CallsOK /\ PendingHeld
  BY DEF Owned, Sound, Evidence
<1>1. ASSUME NEW c \in Calls, NEW h \in Calls, NEW m \in Messages, SendFromComposer(c, h, m)
      PROVE  CallsOK' /\ PendingHeld'
  <2>1. UNCHANGED <<jobs, queueJobId>> /\ call[c].pc = "idle" /\ call[h].pc = "idle"
        /\ \A n \in Messages : n # m => status'[n] = status[n]
    BY <1>0, <1>1 DEF SendFromComposer, TypeOK
  <2>2. /\ call'[c].pc \in {"copy", "enqueue"} /\ call'[c].msg = m /\ call'[c].op = "send"
        /\ call'[h].pc = "check" /\ call'[h].msg = m /\ call'[h].op = "handle"
        /\ \A d \in Calls : d # c /\ d # h => call'[d] = call[d]
    BY <1>0, <1>1, ComposerEffect
  <2>3. CallsOK'
    BY <1>0, <2>1, <2>2, CallsKept
  <2>4. \A n \in Messages : n # m => SameFor(n)
    BY <2>1, <2>2 DEF SameFor, Holding, Acts
  <2>5. Held(m)'
    BY <2>2 DEF Held, Acting, Acts
  <2> QED BY <1>0, <2>1, <2>3, <2>4, <2>5, HeldStays DEF PendingHeld
<1>2. ASSUME NEW h \in Calls, NEW m \in Messages, SendByEvent(h, m)
      PROVE  CallsOK' /\ PendingHeld'
  <2>1. UNCHANGED <<jobs, queueJobId>> /\ call[h].pc = "idle" /\ ~Exists(m)
        /\ \A n \in Messages : n # m => status'[n] = status[n]
    BY <1>0, <1>2 DEF SendByEvent, TypeOK, row, Exists
  <2>2. /\ call'[h].pc = "check" /\ call'[h].msg = m /\ call'[h].op = "handle"
        /\ \A d \in Calls : d # h => call'[d] = call[d]
    BY <1>0, <1>2, StartEffect DEF SendByEvent, EventHandler, Op, Await
  <2>3. CallsOK' /\ \A n \in Messages : status[n] = "PENDING" => Held(n)'
    BY <1>0, <2>1, <2>2, StartKeeps
  <2>4. Held(m)'
    <3>1. queueJobId[m] = 0 /\ \A j \in DOMAIN jobs : jobs[j].msg # m
      BY <1>0, <2>1 DEF Existing
    <3> QED BY <2>1, <2>2, <3>1 DEF Held, Fresh, HasJob
  <2> QED BY <2>1, <2>3, <2>4 DEF PendingHeld
<1>3. ASSUME NEW h \in Calls, NEW m \in Messages, Retry(h, m) PROVE CallsOK' /\ PendingHeld'
  <2>1. UNCHANGED <<jobs, queueJobId, status>> /\ call[h].pc = "idle"
    BY <1>3 DEF Retry, row
  <2>2. /\ call'[h].pc = "reset" /\ call'[h].op = "retry"
        /\ \A d \in Calls : d # h => call'[d] = call[d]
    <3>1. PICK r : r = NewCall("retry", "reset", m)
      OBVIOUS
    <3>2. r.pc = "reset" /\ r.op = "retry"
      BY <3>1, NewCallType DEF Op, Await
    <3>3. call' = [call EXCEPT ![h] = r] /\ DOMAIN call = Calls
      BY <1>0, <1>3, <3>1 DEF Retry, TypeOK, CallTable
    <3> QED BY <3>2, <3>3
  <2>3. CallsOK' /\ \A n \in Messages : status[n] = "PENDING" => Held(n)'
    BY <1>0, <2>1, <2>2, StartKeeps
  <2> QED BY <2>1, <2>3 DEF PendingHeld
<1>4. ASSUME NEW h \in Calls, NEW m \in Messages, NEW s \in ReceiptStatus, Receipt(h, m, s)
      PROVE  CallsOK' /\ PendingHeld'
  <2>1. UNCHANGED <<jobs, queueJobId, status>> /\ call[h].pc = "idle"
    BY <1>4 DEF Receipt, row
  <2>2. CallsOK' /\ \A n \in Messages : status[n] = "PENDING" => Held(n)'
    BY <1>0, <1>4, <2>1, ReceiptEffect, StartKeeps
  <2> QED BY <2>1, <2>2 DEF PendingHeld
<1>5. ~\E c \in Calls, m \in Messages : RetryFromDlq(c, m)
  BY DEF Owned, Calm, RetryFromDlq, Spend
<1> QED BY <1>1, <1>2, <1>3, <1>4, <1>5 DEF Request

(* One call goes on or ends: what holds the other messages stays.          *)
LEMMA CallStepKeeps ==
    ASSUME Owned, NEW c \in Calls, NEW m \in Messages, m = call[c].msg,
           call[c].pc # "idle", \A d \in Calls : d # c => call'[d] = call[d],
           call'[c].op = call[c].op \/ call'[c].op = "none", call'[c].pc # "record",
           UNCHANGED jobs,
           \A n \in Messages : n # m =>
               status'[n] = status[n] /\ queueJobId'[n] = queueJobId[n],
           status'[m] = "PENDING" => Held(m)'
    PROVE  CallsOK' /\ PendingHeld'
<1>1. CallsOK'
  BY CallsKept DEF Owned
<1>2. ASSUME NEW n \in Messages, n # m, status'[n] = "PENDING" PROVE Held(n)'
  <2>1. SameFor(n)
    BY <1>2 DEF SameFor
  <2> QED BY <1>2, <2>1, HeldStays DEF Owned, PendingHeld
<1> QED BY <1>1, <1>2 DEF PendingHeld

(* It ends without having held its message.                                *)
LEMMA ReturnKeeps ==
    ASSUME Owned, NEW c \in Calls, NEW m \in Messages, m = call[c].msg,
           call[c].pc # "idle", Return(c), UNCHANGED jobs,
           \A n \in Messages : n # m =>
               status'[n] = status[n] /\ queueJobId'[n] = queueJobId[n],
           status'[m] = "PENDING" => status[m] = "PENDING",
           \/ call[c].pc \notin Holding /\ UNCHANGED queueJobId
           \/ call[c].pc \notin Acts /\ ~Fresh(m)
    PROVE  CallsOK' /\ PendingHeld'
<1>1. TypeOK
  BY DEF Owned, Sound, Evidence
<1>2. /\ call'[c].pc = "idle" /\ call'[c].op = "none"
      /\ \A d \in Calls : d # c => call'[d] = call[d]
  BY <1>1, ReturnEffect
<1>3. ASSUME status'[m] = "PENDING" PROVE Held(m)'
  <2>1. Held(m)
    BY <1>1, <1>3 DEF Owned, PendingHeld
  <2>2. CASE call[c].pc \notin Holding /\ UNCHANGED queueJobId
    <3>1. SameFor(m)
      BY <1>2, <2>2 DEF SameFor
    <3> QED BY <1>1, <2>1, <3>1, HeldStays
  <2>3. CASE call[c].pc \notin Acts /\ ~Fresh(m)
    BY <1>2, <2>1, <2>3 DEF Held, Acting, HasLiveJob
  <2> QED BY <2>2, <2>3
<1> QED BY <1>2, <1>3, CallStepKeeps

LEMMA ResumeKeeps == ASSUME Owned, NEW c \in Calls, Resume(c) PROVE CallsOK' /\ PendingHeld'
<1> USE DEF At
<1>0. TypeOK /\ Sound /\ CallsOK /\ PendingHeld
  BY DEF Owned, Sound, Evidence
<1>m. PICK m \in Messages : m = call[c].msg
  <2>1. call[c].pc # "idle"
    BY DEF Resume, CopyAttachments, CheckQueued, PrepareJob, AddJob, RecordJobId,
       ResetForRetry, ResolveDeadLetter, MarkFailed, Bury, ApplyReceipt, ResetFromDlq
  <2> QED BY <1>0, <2>1, BusyCall
<1>1. CASE CopyAttachments(c) \/ ResetForRetry(c)
  <2>1. Goto(c, "enqueue") /\ call[c].pc # "idle" /\ UNCHANGED jobs
    BY <1>1 DEF CopyAttachments, ResetForRetry
  <2>2. /\ call'[c].pc = "enqueue" /\ call'[c].msg = call[c].msg /\ call'[c].op = call[c].op
        /\ \A d \in Calls : d # c => call'[d] = call[d]
    BY <1>0, <2>1, GotoEffect DEF Await
  <2>3. \A n \in Messages : n # call[c].msg => status'[n] = status[n] /\ queueJobId'[n] = queueJobId[n]
    BY <1>0, <1>1 DEF CopyAttachments, ResetForRetry, ResetMessage, TypeOK
  <2>4. Held(m)'
    BY <1>m, <2>2 DEF Held, Acting, Acts
  <2> QED BY <1>m, <2>1, <2>2, <2>3, <2>4, CallStepKeeps
<1>2. CASE CheckQueued(c)
  <2>1. call[c].pc = "check" /\ UNCHANGED <<jobs, status, queueJobId>>
    BY <1>2 DEF CheckQueued, row
  <2>2. CASE AlreadyQueued(call[c].msg)
    <3>1. Return(c) /\ ~Fresh(call[c].msg)
      BY <1>2, <2>2 DEF CheckQueued, AlreadyQueued, Fresh
    <3> QED BY <1>m, <2>1, <3>1, ReturnKeeps DEF Acts
  <2>3. CASE ~AlreadyQueued(call[c].msg)
    <3>1. /\ call'[c].pc = "enqueue" /\ call'[c].msg = call[c].msg /\ call'[c].op = call[c].op
          /\ \A d \in Calls : d # c => call'[d] = call[d]
      BY <1>0, <1>2, <2>3, GotoEffect DEF CheckQueued, Await
    <3>2. Held(m)'
      BY <1>m, <3>1 DEF Held, Acting, Acts
    <3> QED BY <1>m, <2>1, <3>1, <3>2, CallStepKeeps
  <2> QED BY <2>2, <2>3
<1>3. CASE PrepareJob(c)
  <2>1. /\ call[c].pc = "enqueue" /\ UNCHANGED <<jobs, queueJobId>>
        /\ call[c].msg \in Messages
        /\ \A n \in Messages : n # call[c].msg => status'[n] = status[n]
    BY <1>0, <1>3, BusyCall DEF PrepareJob, row, TypeOK
  <2>2. CASE call[c].msg \in Unroutable
    <3>1. Return(c) /\ status'[call[c].msg] = "FAILED"
      BY <1>0, <1>3, <2>1, <2>2 DEF PrepareJob, TypeOK
    <3> QED BY <1>m, <1>0, <2>1, <3>1, ReturnEffect, CallStepKeeps
  <2>3. CASE call[c].msg \notin Unroutable
    <3>1. /\ call'[c].pc = "add" /\ call'[c].msg = call[c].msg /\ call'[c].op = call[c].op
          /\ \A d \in Calls : d # c => call'[d] = call[d]
      BY <1>0, <1>3, <2>3, PrepareEffect
    <3>2. Held(m)'
      BY <1>m, <3>1 DEF Held, Acting, Acts
    <3> QED BY <1>m, <2>1, <3>1, <3>2, CallStepKeeps
  <2> QED BY <2>2, <2>3
<1>4. CASE AddJob(c)
  <2>1. call[c].pc = "add" /\ UNCHANGED <<status, queueJobId>>
    BY <1>4 DEF AddJob, row
  <2>2. PICK k : k = Len(jobs) + 1
    OBVIOUS
  <2>3. /\ call'[c].pc = "record" /\ call'[c].msg = call[c].msg /\ call'[c].op = call[c].op
        /\ \A d \in Calls : d # c => call'[d] = call[d]
        /\ DOMAIN jobs' = DOMAIN jobs \cup {k}
        /\ \A j \in DOMAIN jobs : jobs'[j] = jobs[j]
        /\ jobs'[k].msg = call[c].msg /\ jobs'[k].state = "waiting"
    BY <1>0, <1>4, <2>2, AddEffect
  <2>4. CallsOK'
    BY <1>0, <2>3, CallsKept
  <2>5. \A n \in Messages : n # call[c].msg => SameFor(n)
    BY <2>1, <2>3 DEF SameFor
  <2>6. Held(m)'
    BY <1>m, <2>3 DEF Held, HasLiveJob, Live
  <2> QED BY <1>0, <1>m, <2>1, <2>4, <2>5, <2>6, HeldStays DEF PendingHeld
<1>5. CASE RecordJobId(c)
  <2>1. /\ call[c].pc = "record" /\ Return(c) /\ UNCHANGED <<jobs, status>>
        /\ \A n \in Messages : n # call[c].msg => queueJobId'[n] = queueJobId[n]
    BY <1>0, <1>5 DEF RecordJobId, TypeOK
  <2>2. ~Fresh(call[c].msg)
    BY <1>0, <2>1 DEF CallsOK, Fresh
  <2> QED BY <1>m, <2>1, <2>2, ReturnKeeps DEF Acts
<1>6. CASE ResolveDeadLetter(c) \/ Bury(c)
  BY <1>m, <1>6, ReturnKeeps DEF ResolveDeadLetter, Bury, Holding, Acts
<1>7. CASE ApplyReceipt(c)
  <2>1. /\ call[c].pc = "apply" /\ Return(c) /\ UNCHANGED <<jobs, queueJobId>>
        /\ call[c].msg \in Messages
        /\ \A n \in Messages : n # call[c].msg => status'[n] = status[n]
    BY <1>0, <1>7, BusyCall DEF ApplyReceipt, row, TypeOK
  <2>2. call[c].news # "PENDING"
    BY <1>0, <2>1 DEF Sound, Existing, ReceiptStatus
  <2>3. status'[call[c].msg] \in {status[call[c].msg], call[c].news}
    BY <1>0, <1>7, <2>1 DEF ApplyReceipt, TypeOK
  <2> QED BY <1>m, <2>1, <2>2, <2>3, ReturnKeeps DEF Holding, Acts
<1>8. CASE MarkFailed(c)
  <2>1. /\ call[c].pc = "mark" /\ Goto(c, "bury") /\ UNCHANGED <<jobs, queueJobId>>
        /\ call[c].msg \in Messages
    BY <1>0, <1>8, BusyCall DEF MarkFailed, row
  <2>2. /\ status'[call[c].msg] = "FAILED"
        /\ \A n \in Messages : n # call[c].msg => status'[n] = status[n]
    BY <1>0, <1>8, <2>1 DEF MarkFailed, TypeOK
  <2> QED BY <1>m, <1>0, <2>1, <2>2, GotoEffect, CallStepKeeps DEF Await
<1>9. ~\E h \in Calls : ResetFromDlq(c, h)
  BY <1>0 DEF CallsOK, ResetFromDlq
<1> QED BY <1>1, <1>2, <1>3, <1>4, <1>5, <1>6, <1>7, <1>8, <1>9 DEF Resume

(* The worker changes one job; its message is settled or still held.       *)
LEMMA WorkKeeps ==
    ASSUME Owned, NEW j \in DOMAIN jobs, NEW m \in Messages, m = jobs[j].msg,
           JobStep(j), UNCHANGED queueJobId,
           \A c \in Calls : \/ call'[c] = call[c]
                            \/ call[c].pc = "idle" /\ call'[c].pc = "mark" /\ call'[c].op = "failed",
           \A n \in Messages : n # m => status'[n] = status[n],
           status'[m] = "PENDING" => Held(m)'
    PROVE  CallsOK' /\ PendingHeld'
<1>1. CallsOK'
  BY CallsKept DEF Owned, JobStep
<1>2. ASSUME NEW n \in Messages, n # m, status'[n] = "PENDING" PROVE Held(n)'
  <2>1. SameFor(n)
    BY <1>2 DEF SameFor, JobStep, Holding, Acts
  <2> QED BY <1>2, <2>1, HeldStays DEF Owned, PendingHeld
<1> QED BY <1>1, <1>2 DEF PendingHeld

LEMMA WorkerKeeps == ASSUME Owned, NEW j \in DOMAIN jobs, Work(j) PROVE CallsOK' /\ PendingHeld'
<1> USE DEF At
<1>0. TypeOK
  BY DEF Owned, Sound, Evidence
<1>m. PICK m \in Messages : m = jobs[j].msg
  BY <1>0, JobParts
<1>1. ASSUME JobStep(j), jobs'[j].state \in Live PROVE Held(m)'
  BY <1>1, <1>m DEF JobStep, Held, HasLiveJob
<1>2. CASE StartAttempt(j)
  <2>1. JobStep(j) /\ (status'[jobs[j].msg] = "PENDING" => jobs'[j].state \in Live)
    BY <1>0, <1>2, StartAttemptEffect DEF StartAttempt, Live, Active
  <2> QED BY <1>m, <1>1, <1>2, <2>1, WorkKeeps DEF StartAttempt, row
<1>3. CASE ProviderAccepts(j)
  <2>1. JobStep(j) /\ jobs'[j].state \in Live
    BY <1>0, <1>3, AcceptEffect DEF Live, Active
  <2> QED BY <1>m, <1>1, <1>3, <2>1, WorkKeeps DEF ProviderAccepts, row
<1>4. CASE AdapterNotConfigured(j)
  <2>1. JobStep(j) /\ jobs'[j].state \in Live
    BY <1>0, <1>4, ChangeState DEF AdapterNotConfigured, Live, Active
  <2> QED BY <1>m, <1>1, <1>4, <2>1, WorkKeeps DEF AdapterNotConfigured, row
<1>5. CASE MarkUnconfigured(j) \/ RecordSent(j)
  <2>1. JobStep(j)
    BY <1>0, <1>5, ChangeState, SentEffect DEF MarkUnconfigured
  <2>2. /\ UNCHANGED <<queueJobId, call>> /\ status'[jobs[j].msg] # "PENDING"
        /\ \A n \in Messages : n # jobs[j].msg => status'[n] = status[n]
    BY <1>0, <1>5, <1>m DEF MarkUnconfigured, RecordSent, row, TypeOK
  <2> QED BY <1>m, <2>1, <2>2, WorkKeeps
<1>6. ASSUME NEW h \in Calls, ProviderRejects(j, h) PROVE CallsOK' /\ PendingHeld'
  <2>1. /\ FailAttempt(j, h) /\ call[h].pc = "idle" /\ UNCHANGED <<queueJobId, status>>
    BY <1>6 DEF ProviderRejects, FailAttempt, row
  <2>2. /\ JobStep(j) /\ call'[h].pc = "mark" /\ call'[h].msg = jobs[j].msg
        /\ call'[h].op = "failed" /\ \A d \in Calls : d # h => call'[d] = call[d]
    BY <1>0, <2>1, FailEffect
  <2>3. Held(m)'
    BY <1>m, <2>2 DEF Held, Acting, Acts
  <2> QED BY <1>m, <2>1, <2>2, <2>3, WorkKeeps
<1> QED BY <1>2, <1>3, <1>4, <1>5, <1>6 DEF Work

LEMMA OwnedStep == ASSUME Owned, [Next]_vars PROVE Owned'
<1>1. TypeOK /\ Sound'
  BY SoundStep DEF Owned, Sound, Evidence
<1>2. Calm'
  BY <1>1, NextType, BudgetShrinks DEF Owned, Calm, NoFault, Limited, TypeOK, Budgets
<1>3. ~Fault
  BY DEF Owned, Calm, NoFault, Fault, Spend, CallFails, AnswerLost, UpdateFails, Crash
<1>4. ASSUME UNCHANGED <<status, queueJobId, jobs, call>> PROVE CallsOK' /\ PendingHeld'
  BY <1>4 DEF Owned, CallsOK, HasJob, PendingHeld, Held, Acting, HasLiveJob, Fresh
<1>5. ASSUME UNCHANGED vars \/ \E m \in Messages : Discard(m) PROVE CallsOK' /\ PendingHeld'
  BY <1>4, <1>5 DEF vars, Discard
<1>6. CallsOK' /\ PendingHeld'
  BY <1>3, <1>5, RequestKeeps, ResumeKeeps, WorkerKeeps DEF Next
<1> QED BY <1>1, <1>2, <1>6 DEF Owned

(* OutboundService and OutboundProcessor: without faults, restarts and     *)
(* retries from the dead-letter list, a PENDING message always has a call  *)
(* about to queue it, a job that is not over, or a failure about to be     *)
(* recorded: any number of messages, calls, attempts and retries by hand.  *)
THEOREM PendingHasOwner ==
    ASSUME Budget["crashes"] = 0, Budget["faults"] = 0, Budget["dlq"] = 0
    PROVE  Spec => []PendingIsOwned
<1>1. Init => Owned
  <2>1. ASSUME Init PROVE Sound
    BY <2>1, InitSound
  <2>2. ASSUME Init PROVE Calm /\ CallsOK /\ PendingHeld
    BY <2>2, IdleType DEF Init, Calm, NoFault, CallsOK, PendingHeld
  <2> QED BY <2>1, <2>2 DEF Owned
<1>2. Owned /\ [Next]_vars => Owned'
  BY OwnedStep
<1>3. Owned => PendingIsOwned
  <2> SUFFICES ASSUME Owned, NEW m \in Messages, status[m] = "PENDING"
      PROVE  Queueing(m) \/ HasLiveJob(m)
    BY DEF PendingIsOwned
  <2>1. Held(m)
    BY DEF Owned, PendingHeld
  <2> QED BY <2>1 DEF Held, Acting, Acts, Fresh, Queueing
<1> QED BY <1>1, <1>2, <1>3, PTL DEF Spec

-----------------------------------------------------------------------------
-----------------------------------------------------------------------------
(* ConfirmationsAdvance, where a message is queued once: by the event, and *)
(* never again by hand.  The worker writes SENT whatever the status is, so *)
(* the property needs that no second job of the message is under way and   *)
(* that no receipt finds the message before its provider id is stored.     *)

OncePath == budget["composer"] = 0 /\ budget["retries"] = 0 /\ budget["dlq"] = 0
AboutToQueue(c) == call[c].pc \in {"check", "enqueue", "add"}
QueuedOnce ==
    /\ \A c \in Calls : call[c].pc \notin {"copy", "reset", "resolve"}
    /\ \A c, d \in Calls : c # d /\ AboutToQueue(c) /\ AboutToQueue(d) => call[c].msg # call[d].msg
    /\ \A c \in Calls, j \in DOMAIN jobs : AboutToQueue(c) => jobs[j].msg # call[c].msg
    /\ \A i, j \in DOMAIN jobs : i # j => jobs[i].msg # jobs[j].msg
Recorded(m) == externalId[m] # 0
RecordedAreOver ==
    \A m \in Messages :
        Recorded(m) => \E j \in DOMAIN jobs : jobs[j].msg = m /\ jobs[j].state = "completed"
ConfirmedAreRecorded == \A m \in Messages : status[m] \in Confirmed => Recorded(m)
ReceiptsAreOfRecorded == \A c \in Calls : call[c].pc = "apply" => Recorded(call[c].msg)
Confirming == RecordedAreOver /\ ConfirmedAreRecorded /\ ReceiptsAreOfRecorded
InOrder == Sound /\ OncePath /\ QueuedOnce /\ Confirming

(* Calls that only go on, end, or do something else than queueing.         *)
GoesOn(d) ==
    \/ call'[d] = call[d]
    \/ call'[d].pc \in {"idle", "record", "mark", "bury", "apply"}
    \/ call'[d].pc \in {"enqueue", "add"} /\ AboutToQueue(d) /\ call'[d].msg = call[d].msg
SameJobs == DOMAIN jobs' = DOMAIN jobs /\ \A j \in DOMAIN jobs : jobs'[j].msg = jobs[j].msg

LEMMA QueuedOnceKept ==
    ASSUME QueuedOnce, SameJobs, \A d \in Calls : GoesOn(d)
    PROVE  QueuedOnce'
<1>1. \A d \in Calls : AboutToQueue(d)' => AboutToQueue(d) /\ call'[d].msg = call[d].msg
  BY DEF GoesOn, AboutToQueue
<1>2. \A d \in Calls : call'[d].pc \notin {"copy", "reset", "resolve"}
  BY DEF GoesOn, QueuedOnce
<1>3. ASSUME NEW c \in Calls, NEW d \in Calls, c # d, AboutToQueue(c)', AboutToQueue(d)'
      PROVE  call'[c].msg # call'[d].msg
  BY <1>1, <1>3 DEF QueuedOnce
<1>4. ASSUME NEW c \in Calls, NEW j \in DOMAIN jobs', AboutToQueue(c)'
      PROVE  jobs'[j].msg # call'[c].msg
  BY <1>1, <1>4 DEF QueuedOnce, SameJobs
<1>5. ASSUME NEW i \in DOMAIN jobs', NEW j \in DOMAIN jobs', i # j PROVE jobs'[i].msg # jobs'[j].msg
  BY <1>5 DEF QueuedOnce, SameJobs
<1> QED BY <1>2, <1>3, <1>4, <1>5 DEF QueuedOnce

(* Nothing is confirmed that was not before, and jobs that are over stay.  *)
JobsStayOver ==
    \A j \in DOMAIN jobs : jobs[j].state = "completed" =>
        j \in DOMAIN jobs' /\ jobs'[j].msg = jobs[j].msg /\ jobs'[j].state = "completed"
LEMMA ConfirmingKept ==
    ASSUME Confirming, UNCHANGED externalId, JobsStayOver,
           \A m \in Messages : status'[m] \in Confirmed => Recorded(m),
           \A d \in Calls : call'[d].pc = "apply" => call'[d] = call[d] \/ Recorded(call'[d].msg)
    PROVE  Confirming'
<1>1. RecordedAreOver'
  BY DEF Confirming, RecordedAreOver, Recorded, JobsStayOver
<1>2. ConfirmedAreRecorded'
  BY DEF ConfirmedAreRecorded, Recorded
<1>3. ReceiptsAreOfRecorded'
  BY DEF Confirming, ReceiptsAreOfRecorded, Recorded
<1> QED BY <1>1, <1>2, <1>3 DEF Confirming

(* What the status of a message may become when it is not recorded.        *)
Unconfirmed == \A m \in Messages : status'[m] = status[m] \/ status'[m] \notin Confirmed
LEMMA UnconfirmedRecorded ==
    ASSUME Confirming, Unconfirmed, NEW m \in Messages, status'[m] \in Confirmed
    PROVE  Recorded(m)
BY DEF Unconfirmed, Confirming, ConfirmedAreRecorded

(* A step of one call that neither adds a job nor confirms anything.       *)
OneCall(c) == (\A d \in Calls : d # c => call'[d] = call[d]) /\ GoesOn(c)
LEMMA CallInOrder ==
    ASSUME InOrder, NEW c \in Calls, OneCall(c), UNCHANGED <<externalId, jobs>>, Unconfirmed,
           call'[c].pc = "apply" => Recorded(call'[c].msg)
    PROVE  QueuedOnce' /\ Confirming'
<1>1. \A d \in Calls : GoesOn(d)
  BY DEF OneCall, GoesOn
<1>2. QueuedOnce'
  BY <1>1, QueuedOnceKept DEF InOrder, SameJobs
<1>3. \A m \in Messages : status'[m] \in Confirmed => Recorded(m)
  BY UnconfirmedRecorded DEF InOrder
<1>4. \A d \in Calls : call'[d].pc = "apply" => call'[d] = call[d] \/ Recorded(call'[d].msg)
  BY DEF OneCall
<1>5. Confirming'
  BY <1>3, <1>4, ConfirmingKept DEF InOrder, JobsStayOver
<1> QED BY <1>2, <1>5

LEMMA SentByEventInOrder ==
    ASSUME InOrder, NEW h \in Calls, NEW m \in Messages, SendByEvent(h, m)
    PROVE  QueuedOnce' /\ Confirming' /\ Unconfirmed
<1>0. TypeOK /\ Existing
  BY DEF InOrder, Sound, Evidence
<1>1. /\ status[m] = "NONE" /\ status' = [status EXCEPT ![m] = "PENDING"]
      /\ UNCHANGED <<externalId, jobs>>
  BY DEF SendByEvent, row
<1>2. /\ call'[h].pc = "check" /\ call'[h].msg = m
      /\ \A d \in Calls : d # h => call'[d] = call[d]
  BY <1>0, StartEffect DEF SendByEvent, EventHandler, Op, Await
<1>3. /\ \A c \in Calls : AboutToQueue(c) => call[c].msg # m
      /\ \A j \in DOMAIN jobs : jobs[j].msg # m
  BY <1>0, <1>1 DEF Existing, Exists, AboutToQueue
<1>4. QueuedOnce'
  <2>1. \A d \in Calls : d # h /\ AboutToQueue(d)' => AboutToQueue(d) /\ call'[d] = call[d]
    BY <1>2 DEF AboutToQueue
  <2>2. \A d \in Calls : call'[d].pc \notin {"copy", "reset", "resolve"}
    BY <1>2 DEF InOrder, QueuedOnce
  <2>3. ASSUME NEW c \in Calls, NEW d \in Calls, c # d, AboutToQueue(c)', AboutToQueue(d)'
        PROVE  call'[c].msg # call'[d].msg
    BY <1>2, <1>3, <2>1, <2>3 DEF InOrder, QueuedOnce
  <2>4. ASSUME NEW c \in Calls, NEW j \in DOMAIN jobs', AboutToQueue(c)'
        PROVE  jobs'[j].msg # call'[c].msg
    BY <1>1, <1>2, <1>3, <2>1, <2>4 DEF InOrder, QueuedOnce
  <2>5. \A i, j \in DOMAIN jobs' : i # j => jobs'[i].msg # jobs'[j].msg
    BY <1>1 DEF InOrder, QueuedOnce
  <2> QED BY <2>2, <2>3, <2>4, <2>5 DEF QueuedOnce
<1>5. Unconfirmed
  BY <1>0, <1>1 DEF Unconfirmed, TypeOK, Confirmed
<1>6. \A n \in Messages : status'[n] \in Confirmed => Recorded(n)
  BY <1>5, UnconfirmedRecorded DEF InOrder
<1>7. \A d \in Calls : call'[d].pc = "apply" => call'[d] = call[d]
  BY <1>2
<1>8. Confirming'
  BY <1>1, <1>6, <1>7, ConfirmingKept DEF InOrder, JobsStayOver
<1> QED BY <1>4, <1>5, <1>8

LEMMA JobAddedInOrder ==
    ASSUME InOrder, NEW c \in Calls, AddJob(c)
    PROVE  QueuedOnce' /\ Confirming' /\ Unconfirmed
<1>0. TypeOK
  BY DEF InOrder, Sound, Evidence
<1>1. AboutToQueue(c) /\ UNCHANGED <<status, externalId>>
  BY DEF AddJob, At, AboutToQueue, row
<1>2. PICK n : n = Len(jobs) + 1
  OBVIOUS
<1>3. /\ call'[c].pc = "record" /\ \A d \in Calls : d # c => call'[d] = call[d]
      /\ DOMAIN jobs' = DOMAIN jobs \cup {n}
      /\ \A j \in DOMAIN jobs : jobs'[j] = jobs[j]
      /\ jobs'[n].msg = call[c].msg
  BY <1>0, <1>2, AddEffect
<1>4. n \notin DOMAIN jobs
  BY <1>0, <1>2 DEF TypeOK
<1>5. QueuedOnce'
  <2>1. \A d \in Calls : AboutToQueue(d)' => d # c /\ AboutToQueue(d) /\ call'[d] = call[d]
    BY <1>3 DEF AboutToQueue
  <2>2. \A d \in Calls : call'[d].pc \notin {"copy", "reset", "resolve"}
    BY <1>3 DEF InOrder, QueuedOnce
  <2>3. \A e, d \in Calls : e # d /\ AboutToQueue(e)' /\ AboutToQueue(d)' => call'[e].msg # call'[d].msg
    BY <2>1 DEF InOrder, QueuedOnce
  <2>4. ASSUME NEW d \in Calls, NEW j \in DOMAIN jobs', AboutToQueue(d)'
        PROVE  jobs'[j].msg # call'[d].msg
    BY <1>1, <1>3, <2>1, <2>4 DEF InOrder, QueuedOnce
  <2>5. ASSUME NEW i \in DOMAIN jobs', NEW j \in DOMAIN jobs', i # j PROVE jobs'[i].msg # jobs'[j].msg
    BY <1>1, <1>3, <1>4, <2>5 DEF InOrder, QueuedOnce
  <2> QED BY <2>2, <2>3, <2>4, <2>5 DEF QueuedOnce
<1>6. Unconfirmed
  BY <1>1 DEF Unconfirmed
<1>7. \A m \in Messages : status'[m] \in Confirmed => Recorded(m)
  BY <1>6, UnconfirmedRecorded DEF InOrder
<1>8. \A d \in Calls : call'[d].pc = "apply" => call'[d] = call[d]
  BY <1>3
<1>9. Confirming'
  BY <1>1, <1>3, <1>7, <1>8, ConfirmingKept DEF InOrder, JobsStayOver
<1> QED BY <1>5, <1>6, <1>9

(* A confirmed status goes up, or is no longer confirmed.                  *)
Advances ==
    \A m \in Messages :
        status[m] \in Confirmed /\ status'[m] \in Confirmed => Rank(status'[m]) >= Rank(status[m])
LEMMA RanksInOrder == \A s \in Status : Rank(s) \in Int
BY DEF Rank, Status
LEMMA UnconfirmedAdvances ==
    ASSUME TypeOK, Unconfirmed PROVE Advances
BY RanksInOrder DEF TypeOK, Unconfirmed, Advances

LEMMA RequestInOrder == ASSUME InOrder, Request PROVE QueuedOnce' /\ Confirming' /\ Unconfirmed
<1>0. TypeOK /\ budget["composer"] = 0 /\ budget["retries"] = 0 /\ budget["dlq"] = 0
  BY DEF InOrder, Sound, Evidence, OncePath
<1>1. PICK m \in Messages, c \in Calls :
         SendByEvent(c, m) \/ \E s \in ReceiptStatus : Receipt(c, m, s)
  BY <1>0 DEF Request, SendFromComposer, Retry, RetryFromDlq, Spend
<1>2. CASE SendByEvent(c, m)
  BY <1>2, SentByEventInOrder
<1>3. ASSUME NEW s \in ReceiptStatus, Receipt(c, m, s) PROVE QueuedOnce' /\ Confirming' /\ Unconfirmed
  <2>1. UNCHANGED <<externalId, jobs, status>> /\ Recorded(m)
    BY <1>3 DEF Receipt, ReceiptFor, row, Recorded
  <2>2. call'[c].pc = "apply" /\ call'[c].msg = m /\ \A d \in Calls : d # c => call'[d] = call[d]
    BY <1>0, <1>3, ReceiptEffect
  <2>3. OneCall(c) /\ Unconfirmed
    BY <2>1, <2>2 DEF OneCall, GoesOn, Unconfirmed
  <2> QED BY <2>1, <2>2, <2>3, CallInOrder
<1> QED BY <1>1, <1>2, <1>3

LEMMA CallEndsInOrder ==
    ASSUME InOrder, NEW c \in Calls, Return(c) PROVE OneCall(c) /\ call'[c].pc = "idle"
BY ReturnEffect DEF OneCall, GoesOn, InOrder, Sound, Evidence

LEMMA CallGoesInOrder ==
    ASSUME InOrder, NEW c \in Calls, NEW pc \in {"mark", "bury", "enqueue"}, Goto(c, pc),
           pc = "enqueue" => AboutToQueue(c)
    PROVE  OneCall(c) /\ call'[c].pc = pc
<1>1. pc \in Await
  BY DEF Await
<1> QED BY <1>1, GotoEffect DEF OneCall, GoesOn, InOrder, Sound, Evidence

LEMMA ResumedInOrder ==
    ASSUME InOrder, NEW c \in Calls, Resume(c), ~ApplyReceipt(c)
    PROVE  QueuedOnce' /\ Confirming' /\ Unconfirmed
<1> USE DEF At
<1>0. TypeOK
  BY DEF InOrder, Sound, Evidence
<1>1. CASE AddJob(c)
  BY <1>1, JobAddedInOrder
<1>2. ~CopyAttachments(c) /\ ~ResetForRetry(c) /\ ~ResolveDeadLetter(c) /\ \A h \in Calls : ~ResetFromDlq(c, h)
  BY DEF InOrder, QueuedOnce, CopyAttachments, ResetForRetry, ResolveDeadLetter, ResetFromDlq
<1>3. CASE CheckQueued(c) \/ RecordJobId(c) \/ Bury(c)
  <2>1. UNCHANGED <<externalId, jobs, status>>
    BY <1>3 DEF CheckQueued, RecordJobId, Bury, row
  <2>2. Return(c) \/ (Goto(c, "enqueue") /\ AboutToQueue(c))
    BY <1>3 DEF CheckQueued, RecordJobId, Bury, AboutToQueue
  <2>3. OneCall(c) /\ call'[c].pc # "apply"
    BY <2>2, CallEndsInOrder, CallGoesInOrder
  <2>4. Unconfirmed
    BY <2>1 DEF Unconfirmed
  <2> QED BY <2>1, <2>3, <2>4, CallInOrder
<1>4. CASE PrepareJob(c)
  <2>1. UNCHANGED <<externalId, jobs>> /\ AboutToQueue(c)
    BY <1>4 DEF PrepareJob, row, AboutToQueue
  <2>2. CASE call[c].msg \notin Unroutable
    <3>1. call'[c].pc = "add" /\ call'[c].msg = call[c].msg /\ \A d \in Calls : d # c => call'[d] = call[d]
      BY <1>0, <1>4, <2>2, PrepareEffect
    <3>2. OneCall(c) /\ UNCHANGED status
      BY <1>4, <2>1, <2>2, <3>1 DEF OneCall, GoesOn, PrepareJob
    <3> QED BY <2>1, <3>1, <3>2, CallInOrder DEF Unconfirmed
  <2>3. CASE call[c].msg \in Unroutable
    <3>1. Return(c) /\ status' = [status EXCEPT ![call[c].msg] = "FAILED"]
      BY <1>4, <2>3 DEF PrepareJob
    <3>2. Unconfirmed
      BY <1>0, <3>1 DEF Unconfirmed, TypeOK, Confirmed
    <3> QED BY <2>1, <3>1, <3>2, CallEndsInOrder, CallInOrder
  <2> QED BY <2>2, <2>3
<1>5. CASE MarkFailed(c)
  <2>1. /\ UNCHANGED <<externalId, jobs>> /\ Goto(c, "bury")
        /\ status' = [status EXCEPT ![call[c].msg] = "FAILED"]
    BY <1>5 DEF MarkFailed, row
  <2>2. Unconfirmed
    BY <1>0, <2>1 DEF Unconfirmed, TypeOK, Confirmed
  <2> QED BY <2>1, <2>2, CallGoesInOrder, CallInOrder
<1> QED BY <1>1, <1>2, <1>3, <1>4, <1>5 DEF Resume

(* updateDeliveryStatus: a receipt only overwrites a lower rank.           *)
LEMMA AppliedInOrder ==
    ASSUME InOrder, NEW c \in Calls, ApplyReceipt(c)
    PROVE  QueuedOnce' /\ Confirming' /\ Advances
<1> DEFINE m == call[c].msg
           s == call[c].news
<1>0. TypeOK /\ Existing /\ m \in Messages
  BY BusyCall DEF InOrder, Sound, Evidence, ApplyReceipt, At
<1>1. /\ call[c].pc = "apply" /\ Return(c) /\ UNCHANGED <<externalId, jobs>>
      /\ status' = [status EXCEPT ![m] = IF status[m] \in Overwritable(s) THEN s ELSE status[m]]
  BY DEF ApplyReceipt, At, row
<1>2. s \in ReceiptStatus /\ Recorded(m)
  BY <1>0, <1>1 DEF Existing, InOrder, Confirming, ReceiptsAreOfRecorded
<1>3. \A n \in Messages : n # m => status'[n] = status[n]
  BY <1>0, <1>1 DEF TypeOK
<1>4. status'[m] = status[m] \/ (status'[m] = s /\ status[m] \in Overwritable(s))
  BY <1>0, <1>1 DEF TypeOK
<1>5. Advances
  <2> SUFFICES ASSUME NEW n \in Messages, status[n] \in Confirmed, status'[n] \in Confirmed
               PROVE  Rank(status'[n]) >= Rank(status[n])
    BY DEF Advances
  <2>1. status[n] \in Status /\ Rank(status[n]) \in Int
    BY <1>0, RanksInOrder DEF TypeOK
  <2>2. CASE status'[n] = status[n]
    BY <2>1, <2>2
  <2>3. CASE status'[n] # status[n]
    <3>1. n = m /\ status'[m] = s /\ status[m] \in Overwritable(s)
      BY <1>3, <1>4, <2>3
    <3>2. s # "FAILED" /\ s \in Status
      BY <3>1 DEF Confirmed, Status
    <3>3. Rank(status[m]) < Rank(s) /\ Rank(s) \in Int
      BY <3>1, <3>2, RanksInOrder DEF Overwritable
    <3> QED BY <2>1, <3>1, <3>3
  <2> QED BY <2>2, <2>3
<1>6. OneCall(c) /\ call'[c].pc = "idle"
  BY <1>1, CallEndsInOrder
<1>7. \A d \in Calls : GoesOn(d) /\ (call'[d].pc = "apply" => call'[d] = call[d])
  BY <1>6 DEF OneCall, GoesOn
<1>8. QueuedOnce'
  BY <1>1, <1>7, QueuedOnceKept DEF InOrder, SameJobs
<1>9. \A n \in Messages : status'[n] \in Confirmed => Recorded(n)
  BY <1>2, <1>3 DEF InOrder, Confirming, ConfirmedAreRecorded
<1>10. Confirming'
  BY <1>1, <1>7, <1>9, ConfirmingKept DEF InOrder, JobsStayOver
<1> QED BY <1>5, <1>8, <1>10

-----------------------------------------------------------------------------
(* A job that is not over goes on.                                         *)
LEMMA JobInOrder ==
    ASSUME InOrder, NEW j \in DOMAIN jobs, JobStep(j), jobs[j].state # "completed",
           UNCHANGED externalId, Unconfirmed,
           \A d \in Calls : GoesOn(d) /\ (call'[d].pc = "apply" => call'[d] = call[d])
    PROVE  QueuedOnce' /\ Confirming'
<1>1. SameJobs
  BY DEF JobStep, SameJobs
<1>2. JobsStayOver
  BY DEF JobStep, JobsStayOver
<1>3. QueuedOnce'
  BY <1>1, QueuedOnceKept DEF InOrder
<1>4. \A m \in Messages : status'[m] \in Confirmed => Recorded(m)
  BY UnconfirmedRecorded DEF InOrder
<1>5. Confirming'
  BY <1>2, <1>4, ConfirmingKept DEF InOrder
<1> QED BY <1>3, <1>5

LEMMA FailedInOrder ==
    ASSUME InOrder, NEW j \in DOMAIN jobs, NEW h \in Calls, FailAttempt(j, h),
           jobs[j].state # "completed", UNCHANGED <<externalId, status>>
    PROVE  QueuedOnce' /\ Confirming' /\ Unconfirmed
<1>0. TypeOK
  BY DEF InOrder, Sound, Evidence
<1>1. /\ JobStep(j) /\ call'[h].pc = "mark"
      /\ \A d \in Calls : d # h => call'[d] = call[d]
  BY <1>0, FailEffect
<1>2. \A d \in Calls : GoesOn(d) /\ (call'[d].pc = "apply" => call'[d] = call[d])
  BY <1>1 DEF GoesOn
<1>3. Unconfirmed
  BY DEF Unconfirmed
<1> QED BY <1>1, <1>2, <1>3, JobInOrder

(* updateAndEmit: SENT is written when nothing was confirmed before.       *)
LEMMA SentInOrder ==
    ASSUME InOrder, NEW j \in DOMAIN jobs, RecordSent(j)
    PROVE  QueuedOnce' /\ Confirming' /\ Advances
<1> DEFINE m == jobs[j].msg
<1>0. TypeOK /\ m \in Messages
  BY JobParts DEF InOrder, Sound, Evidence
<1>1. /\ jobs[j].state = "recording" /\ UNCHANGED call
      /\ status' = [status EXCEPT ![m] = "SENT"]
      /\ externalId' = [externalId EXCEPT ![m] = jobs[j].copy]
  BY DEF RecordSent
<1>2. JobStep(j) /\ jobs'[j].state = "completed"
  BY <1>0, SentEffect
<1>3. jobs[j].copy # 0
  BY <1>0, <1>1 DEF InOrder, Sound, Evidence, TypeOK, Copies
<1>4. ~Recorded(m)
  <2>1. \A k \in DOMAIN jobs : jobs[k].msg = m => jobs[k].state # "completed"
    BY <1>1 DEF InOrder, QueuedOnce
  <2> QED BY <1>0, <2>1 DEF InOrder, Confirming, RecordedAreOver
<1>5. status[m] \notin Confirmed
  BY <1>0, <1>4 DEF InOrder, Confirming, ConfirmedAreRecorded
<1>6. /\ \A n \in Messages : n # m => status'[n] = status[n] /\ externalId'[n] = externalId[n]
      /\ status'[m] = "SENT" /\ externalId'[m] = jobs[j].copy
  BY <1>0, <1>1 DEF TypeOK
<1>7. Advances
  <2> SUFFICES ASSUME NEW n \in Messages, status[n] \in Confirmed, status'[n] \in Confirmed
               PROVE  Rank(status'[n]) >= Rank(status[n])
    BY DEF Advances
  <2>1. status'[n] = status[n] /\ Rank(status[n]) \in Int
    BY <1>0, <1>5, <1>6, RanksInOrder DEF TypeOK
  <2> QED BY <2>1
<1>8. QueuedOnce'
  BY <1>1, <1>2, QueuedOnceKept DEF InOrder, SameJobs, JobStep, GoesOn
<1>9. RecordedAreOver'
  <2> SUFFICES ASSUME NEW n \in Messages, externalId'[n] # 0
               PROVE  \E k \in DOMAIN jobs' : jobs'[k].msg = n /\ jobs'[k].state = "completed"
    BY DEF RecordedAreOver, Recorded
  <2>1. CASE n = m
    BY <1>2, <2>1 DEF JobStep
  <2>2. CASE n # m
    <3>1. Recorded(n)
      BY <1>6, <2>2 DEF Recorded
    <3>2. PICK k \in DOMAIN jobs : jobs[k].msg = n /\ jobs[k].state = "completed"
      BY <3>1 DEF InOrder, Confirming, RecordedAreOver
    <3> QED BY <1>2, <2>2, <3>2 DEF JobStep
  <2> QED BY <2>1, <2>2
<1>10. ConfirmedAreRecorded'
  BY <1>3, <1>6 DEF InOrder, Confirming, ConfirmedAreRecorded, Recorded
<1>11. ReceiptsAreOfRecorded'
  <2>1. \A c \in Calls : call[c].pc = "apply" => call[c].msg \in Messages
    BY <1>0, BusyCall
  <2> QED BY <1>1, <1>3, <1>6, <2>1 DEF InOrder, Confirming, ReceiptsAreOfRecorded, Recorded
<1> QED BY <1>7, <1>8, <1>9, <1>10, <1>11 DEF Confirming

LEMMA WorkedInOrder ==
    ASSUME InOrder, NEW j \in DOMAIN jobs, Work(j)
    PROVE  QueuedOnce' /\ Confirming' /\ Advances
<1>0. TypeOK
  BY DEF InOrder, Sound, Evidence
<1>1. UNCHANGED call => \A d \in Calls : GoesOn(d) /\ (call'[d].pc = "apply" => call'[d] = call[d])
  BY DEF GoesOn
<1>2. CASE StartAttempt(j) \/ AdapterNotConfigured(j) \/ ProviderAccepts(j)
  <2>1. UNCHANGED <<status, externalId, call>> /\ jobs[j].state # "completed"
    BY <1>2 DEF StartAttempt, AdapterNotConfigured, ProviderAccepts, row
  <2>2. JobStep(j)
    BY <1>0, <1>2, StartAttemptEffect, ChangeState, AcceptEffect DEF AdapterNotConfigured
  <2>3. Unconfirmed
    BY <2>1 DEF Unconfirmed
  <2> QED BY <1>0, <1>1, <2>1, <2>2, <2>3, JobInOrder, UnconfirmedAdvances
<1>3. CASE MarkUnconfigured(j)
  <2>1. /\ UNCHANGED <<externalId, call>> /\ jobs[j].state # "completed" /\ JobStep(j)
        /\ status' = [status EXCEPT ![jobs[j].msg] = "FAILED"]
    BY <1>0, <1>3, ChangeState DEF MarkUnconfigured, row
  <2>2. Unconfirmed
    BY <1>0, <2>1 DEF Unconfirmed, TypeOK, Confirmed
  <2> QED BY <1>0, <1>1, <2>1, <2>2, JobInOrder, UnconfirmedAdvances
<1>4. CASE RecordSent(j)
  BY <1>4, SentInOrder
<1>5. ASSUME NEW h \in Calls, ProviderRejects(j, h) PROVE QueuedOnce' /\ Confirming' /\ Advances
  BY <1>0, <1>5, FailedInOrder, UnconfirmedAdvances DEF ProviderRejects, row
<1> QED BY <1>2, <1>3, <1>4, <1>5 DEF Work

LEMMA CrashedInOrder == ASSUME InOrder, Crash PROVE QueuedOnce' /\ Confirming' /\ Unconfirmed
<1>0. TypeOK
  BY DEF InOrder, Sound, Evidence
<1>1. UNCHANGED <<status, externalId>> /\ DOMAIN jobs' = DOMAIN jobs
  BY DEF Crash, row
<1>2. \A c \in Calls : call'[c].pc = "idle"
  BY IdleType DEF Crash
<1>3. \A j \in DOMAIN jobs : jobs'[j].msg = jobs[j].msg
  BY <1>0, JobParts DEF Crash, Job
<1>4. \A j \in DOMAIN jobs : jobs[j].state = "completed" => jobs'[j] = jobs[j]
  BY DEF Crash, Active
<1>5. QueuedOnce'
  BY <1>1, <1>2, <1>3, QueuedOnceKept DEF InOrder, SameJobs, GoesOn
<1>6. Unconfirmed
  BY <1>1 DEF Unconfirmed
<1>7. \A m \in Messages : status'[m] \in Confirmed => Recorded(m)
  BY <1>6, UnconfirmedRecorded DEF InOrder
<1>8. Confirming'
  BY <1>1, <1>2, <1>4, <1>7, ConfirmingKept DEF InOrder, JobsStayOver
<1> QED BY <1>5, <1>6, <1>8

LEMMA FaultInOrder == ASSUME InOrder, Fault PROVE QueuedOnce' /\ Confirming' /\ Unconfirmed
<1>0. TypeOK
  BY DEF InOrder, Sound, Evidence
<1>1. ASSUME NEW c \in Calls, CallFails(c) PROVE QueuedOnce' /\ Confirming' /\ Unconfirmed
  <2>1. /\ Return(c) /\ UNCHANGED <<externalId, jobs>> /\ call[c].pc # "idle"
        /\ status' = [status EXCEPT ![call[c].msg] = StatusAfterError(c)]
    BY <1>1 DEF CallFails, row, At
  <2>2. call[c].msg \in Messages
    BY <1>0, <2>1, BusyCall
  <2>3. Unconfirmed
    BY <1>0, <2>1, <2>2 DEF Unconfirmed, StatusAfterError, TypeOK, Confirmed
  <2> QED BY <2>1, <2>3, CallEndsInOrder, CallInOrder
<1>2. ASSUME NEW j \in DOMAIN jobs, NEW h \in Calls, AnswerLost(j, h) \/ UpdateFails(j, h)
      PROVE  QueuedOnce' /\ Confirming' /\ Unconfirmed
  BY <1>2, FailedInOrder DEF AnswerLost, UpdateFails, row
<1> QED BY <1>1, <1>2, CrashedInOrder DEF Fault

LEMMA InOrderStep == ASSUME InOrder, [Next]_vars PROVE InOrder' /\ Advances
<1>0. TypeOK /\ TypeOK' /\ Sound'
  BY SoundStep, NextType DEF InOrder, Sound, Evidence
<1>1. OncePath'
  <2>1. \A w \in {"composer", "retries", "dlq"} : budget'[w] <= budget[w] /\ budget'[w] \in Nat
    BY <1>0, BudgetShrinks DEF Limited, TypeOK, Budgets
  <2> QED BY <2>1 DEF InOrder, OncePath
<1>2. QueuedOnce' /\ Confirming' /\ Advances
  <2>1. CASE Request
    BY <1>0, <2>1, RequestInOrder, UnconfirmedAdvances
  <2>2. ASSUME NEW c \in Calls, Resume(c) PROVE QueuedOnce' /\ Confirming' /\ Advances
    BY <1>0, <2>2, ResumedInOrder, AppliedInOrder, UnconfirmedAdvances
  <2>3. ASSUME NEW j \in DOMAIN jobs, Work(j) PROVE QueuedOnce' /\ Confirming' /\ Advances
    BY <2>3, WorkedInOrder
  <2>4. CASE Fault
    BY <1>0, <2>4, FaultInOrder, UnconfirmedAdvances
  <2>5. CASE UNCHANGED vars \/ \E m \in Messages : Discard(m)
    <3>1. UNCHANGED <<status, externalId, jobs, call>>
      BY <2>5 DEF vars, Discard
    <3>2. QueuedOnce' /\ Unconfirmed
      BY <3>1, QueuedOnceKept DEF InOrder, SameJobs, GoesOn, Unconfirmed
    <3>3. \A m \in Messages : status'[m] \in Confirmed => Recorded(m)
      BY <3>2, UnconfirmedRecorded DEF InOrder
    <3>4. Confirming'
      BY <3>1, <3>3, ConfirmingKept DEF InOrder, JobsStayOver
    <3> QED BY <1>0, <3>2, <3>4, UnconfirmedAdvances
  <2> QED BY <2>1, <2>2, <2>3, <2>4, <2>5 DEF Next
<1> QED BY <1>0, <1>1, <1>2 DEF InOrder

(* OutboundProcessor, updateDeliveryStatus: for messages that go out by    *)
(* the event alone, a confirmed status never goes back to a lower one,     *)
(* under all faults and restarts and whatever the order of the receipts.   *)
THEOREM ReceiptsOnlyAdvance ==
    ASSUME Budget["composer"] = 0, Budget["retries"] = 0, Budget["dlq"] = 0
    PROVE  Spec => ConfirmationsAdvance
<1>1. Init => InOrder
  <2> SUFFICES ASSUME Init PROVE InOrder
    OBVIOUS
  <2>1. Sound
    BY InitSound
  <2>2. \A c \in Calls : call[c].pc = "idle"
    BY IdleType DEF Init
  <2>3. jobs = <<>> /\ DOMAIN jobs = {}
    BY DEF Init
  <2>4. OncePath /\ QueuedOnce
    BY <2>2, <2>3 DEF Init, OncePath, QueuedOnce, AboutToQueue
  <2>5. Confirming
    BY <2>2 DEF Init, Confirming, RecordedAreOver, ConfirmedAreRecorded, ReceiptsAreOfRecorded,
       Recorded, Confirmed
  <2> QED BY <2>1, <2>4, <2>5 DEF InOrder
<1>2. InOrder /\ [Next]_vars => InOrder'
  BY InOrderStep
<1>3. InOrder /\ [Next]_vars => [Advances]_vars
  BY InOrderStep
<1>4. Spec => [][Advances]_vars
  BY <1>1, <1>2, <1>3, PTL DEF Spec
<1> QED BY <1>4 DEF ConfirmationsAdvance, Advances
=============================================================================
