--------------------------- MODULE InboundProofs ----------------------------
(***************************************************************************)
(* Proofs about Inbound: a message appears in at most one thread, whatever *)
(* is delivered twice, fails or restarts on the way; what a provider was   *)
(* told is accepted is stored; a filing is final; while no key expires,    *)
(* one request is past the guard with a message; and, while nothing fails  *)
(* or restarts, no stored message is without a place to be found.          *)
(***************************************************************************)
EXTENDS Inbound, TLAPS

Slots == [Requests -> [pc: RequestPc, msg: Messages \cup {NoMessage}, enquiry: Nat]]
Jobs == [Messages -> [pc: JobPc, made: Nat]]
Handlers == [Messages -> [pc: HandlerPc, enquiry: Nat]]

(* Request r goes on at pc with message m, and no other request moves. *)
Moved(r, pc, m) ==
    /\ request' \in Slots
    /\ request'[r].pc = pc
    /\ request'[r].msg = m
    /\ \A s \in Requests \ {r} : request'[s] = request[s]

-----------------------------------------------------------------------------
(* What the helpers of the model do.                                       *)

(* Goto moves one request, with the message it has. *)
LEMMA GotoMoves ==
    ASSUME TypeOK, NEW r \in Requests, NEW pc \in RequestPc, Goto(r, pc)
    PROVE  Moved(r, pc, Msg(r))
BY DEF TypeOK, Goto, Moved, Slots, Msg

(* GotoWith does, and notes an enquiry. *)
LEMMA GotoWithMoves ==
    ASSUME TypeOK, NEW r \in Requests, NEW pc \in RequestPc, NEW e \in Nat, GotoWith(r, pc, e)
    PROVE  Moved(r, pc, Msg(r))
BY DEF TypeOK, GotoWith, Moved, Slots, Msg

(* Return frees the slot. *)
LEMMA ReturnMoves ==
    ASSUME TypeOK, NEW r \in Requests, Return(r)
    PROVE  Moved(r, "idle", NoMessage)
BY DEF TypeOK, Return, Moved, Slots, Idle, RequestPc

(* Thread appends to one message's list. *)
LEMMA ThreadAppends ==
    ASSUME TypeOK, NEW m \in Messages, NEW e \in Nat, Thread(m, e)
    PROVE  /\ threads' \in [Messages -> Seq(Nat)]
           /\ threads'[m] = Append(threads[m], e)
           /\ \A n \in Messages \ {m} : threads'[n] = threads[n]
BY DEF TypeOK, Thread

(* Setting the state of a row of a list of enquiries gives such a list. *)
LEMMA StateSet ==
    ASSUME NEW rows \in Seq(EnquiryRow), NEW e, NEW st \in {"open", "lost", "converted"}
    PROVE  [rows EXCEPT ![e].state = st] \in Seq(EnquiryRow)
<1> DEFINE new == [rows EXCEPT ![e].state = st]
<1>1. rows \in [1 .. Len(rows) -> EnquiryRow] /\ Len(rows) \in Nat
    OBVIOUS
<1>2. new \in [1 .. Len(rows) -> EnquiryRow]
    BY <1>1 DEF EnquiryRow
<1>q. QED
    BY <1>1, <1>2

(* Spend takes one of the budget. *)
LEMMA SpendType ==
    ASSUME TypeOK, NEW what \in Limited, Spend(what)
    PROVE  budget' \in Budgets
BY DEF TypeOK, Spend, Budgets

(* GoOn moves one job. *)
LEMMA GoOnMoves ==
    ASSUME TypeOK, NEW m \in Messages, NEW pc \in JobPc, GoOn(m, pc)
    PROVE  /\ job' \in Jobs
           /\ job'[m].pc = pc
           /\ \A n \in Messages \ {m} : job'[n] = job[n]
BY DEF TypeOK, GoOn, Jobs

(* A request that is not idle has a message, so that the sender is known.  *)
Busy == \A r \in Requests : request[r].pc # "idle" => Msg(r) \in Messages
TypeInv == TypeOK /\ Busy

(* A moved request has a message still, or is idle. *)
LEMMA MovedBusy ==
    ASSUME Busy, NEW r \in Requests, NEW pc, NEW m,
           Moved(r, pc, m), pc # "idle" => m \in Messages
    PROVE  Busy'
BY DEF Busy, Moved, Msg

-----------------------------------------------------------------------------
(* Type correctness.                                                       *)

LEMMA EnquiryIndex ==
    ASSUME TypeOK, NEW e \in DOMAIN enquiries
    PROVE  e \in Nat
BY DEF TypeOK

(* What a request does before it stores anything. *)
LEMMA AskingTypes ==
    ASSUME InboundAssumption, TypeInv, NEW r \in Requests,
           ReadKey(r) \/ ClaimKey(r) \/ CheckEnabled(r) \/ FindContact(r)
             \/ CreateContact(r) \/ FindActive(r) \/ FindClosed(r)
    PROVE  TypeInv'
<1> USE DEF At
<1>1. request[r].pc # "idle" /\ Msg(r) \in Messages
    BY DEF ReadKey, ClaimKey, CheckEnabled, FindContact, CreateContact, FindActive,
           FindClosed, TypeInv, Busy
<1>2. PICK pc \in RequestPc, m \in Messages \cup {NoMessage} :
          Moved(r, pc, m) /\ (pc # "idle" => m \in Messages)
    <2> DEFINE Goes == \E pc \in RequestPc, m \in Messages \cup {NoMessage} :
                          Moved(r, pc, m) /\ (pc # "idle" => m \in Messages)
    <2>1. ASSUME NEW pc \in RequestPc, Goto(r, pc) PROVE Goes
        BY <2>1, <1>1, GotoMoves DEF TypeInv
    <2>2. ASSUME NEW pc \in RequestPc, NEW e \in DOMAIN enquiries, GotoWith(r, pc, e) PROVE Goes
        BY <2>2, <1>1, GotoWithMoves, EnquiryIndex DEF TypeInv
    <2>3. ASSUME Return(r) PROVE Goes
        BY <2>3, ReturnMoves DEF TypeInv, RequestPc
    <2> SUFFICES Goes
        OBVIOUS
    <2> HIDE DEF Goes
    <2>4. CASE ReadKey(r)
        BY <2>4, <2>1, <2>3 DEF ReadKey, RequestPc
    <2>5. CASE ClaimKey(r)
        BY <2>5, <2>1, <2>3 DEF ClaimKey, RequestPc
    <2>6. CASE CheckEnabled(r)
        BY <2>6, <2>1 DEF CheckEnabled, RequestPc
    <2>7. CASE FindContact(r)
        BY <2>7, <2>1 DEF FindContact, RequestPc
    <2>8. CASE CreateContact(r)
        BY <2>8, <2>1 DEF CreateContact, RequestPc
    <2>9. CASE FindActive(r)
        BY <2>9, <2>1, <2>2 DEF FindActive, Open, EnquiriesOf, RequestPc
    <2>10. CASE FindClosed(r)
        BY <2>10, <2>1, <2>2 DEF FindClosed, EnquiriesOf, RequestPc
    <2>q. QED
        BY <2>4, <2>5, <2>6, <2>7, <2>8, <2>9, <2>10
<1>3. request' \in Slots /\ Busy'
    BY <1>2, MovedBusy DEF TypeInv, Moved
<1>4. Sender(r) \in Contacts
    BY <1>1 DEF InboundAssumption, Sender
<1>5. /\ answer' \in [Messages -> {"none", "accepted", "skipped"}]
      /\ key' \in [Messages -> {"none", "PROCESSING", "COMPLETED"}]
      /\ known' \subseteq Contacts
    BY <1>4 DEF TypeInv, TypeOK, ReadKey, ClaimKey, CheckEnabled, FindContact, CreateContact,
           FindActive, FindClosed
<1>6. UNCHANGED <<expired, enabled, store, job, handler, creating, budget>>
    BY DEF ReadKey, ClaimKey, CheckEnabled, FindContact, CreateContact, FindActive, FindClosed
<1>q. QED
    BY <1>3, <1>5, <1>6 DEF TypeInv, TypeOK, Slots, store

(* What it stores. *)
LEMMA StoringTypes ==
    ASSUME InboundAssumption, TypeInv, NEW r \in Requests,
           StoreForAppend(r) \/ StoreForReopen(r) \/ StoreForQualification(r)
    PROVE  TypeInv'
<1> USE DEF At
<1>1. request[r].pc # "idle" /\ Msg(r) \in Messages
    BY DEF StoreForAppend, StoreForReopen, StoreForQualification, TypeInv, Busy
<1>2. PICK status \in RowStatus, pc \in RequestPc : Insert(r, status, pc)
    BY DEF StoreForAppend, StoreForReopen, StoreForQualification, RowStatus, RequestPc
<1>3. Moved(r, pc, Msg(r)) \/ Moved(r, "idle", NoMessage)
    BY <1>2, GotoMoves, ReturnMoves DEF Insert, TypeInv
<1>4. request' \in Slots /\ Busy'
    BY <1>3, <1>1, MovedBusy DEF TypeInv, Moved
<1>5. row' \in [Messages -> RowStatus]
    BY <1>2 DEF TypeInv, TypeOK, Insert
<1>6. UNCHANGED <<answer, key, expired, enabled, known, result, enquiries, threads,
                  job, handler, creating, budget>>
    BY DEF StoreForAppend, StoreForReopen, StoreForQualification
<1>q. QED
    BY <1>4, <1>5, <1>6 DEF TypeInv, TypeOK, Slots

LEMMA ThreadingTypes ==
    ASSUME InboundAssumption, TypeInv, NEW r \in Requests, AppendMessage(r) \/ ReopenMessage(r)
    PROVE  TypeInv'
<1> USE DEF At
<1>1. request[r].pc # "idle" /\ Msg(r) \in Messages /\ Goto(r, "stamp")
    BY DEF AppendMessage, ReopenMessage, TypeInv, Busy
<1>2. request' \in Slots /\ Busy'
    BY <1>1, GotoMoves, MovedBusy DEF TypeInv, Moved, RequestPc
<1>3. PICK e : e = request[r].enquiry
    OBVIOUS
<1>4. e \in Nat
    BY <1>3 DEF TypeInv, TypeOK
<1>5. Thread(Msg(r), e)
    BY <1>3 DEF AppendMessage, ReopenMessage
<1>6. threads' \in [Messages -> Seq(Nat)]
    BY <1>1, <1>4, <1>5, ThreadAppends DEF TypeInv
<1>7. enquiries' = enquiries \/ enquiries' = [enquiries EXCEPT ![e].state = "open"]
    BY <1>3 DEF AppendMessage, ReopenMessage
<1>8. enquiries' \in Seq(EnquiryRow)
    <2>1. enquiries \in Seq(EnquiryRow)
        BY DEF TypeInv, TypeOK
    <2>2. [enquiries EXCEPT ![e].state = "open"] \in Seq(EnquiryRow)
        BY <2>1, StateSet
    <2>q. QED
        BY <2>1, <2>2, <1>7
<1>9. UNCHANGED <<answer, key, expired, enabled, known, row, result, job, handler,
                  creating, budget>>
    BY DEF AppendMessage, ReopenMessage
<1>q. QED
    BY <1>2, <1>6, <1>8, <1>9 DEF TypeInv, TypeOK, Slots

(* What comes after, and the two ways in and out. *)
LEMMA ClosingTypes ==
    ASSUME InboundAssumption, TypeInv, NEW r \in Requests,
           AddJob(r) \/ Stamp(r) \/ Complete(r) \/ RequestFails(r)
    PROVE  TypeInv'
<1> USE DEF At
<1>1. request[r].pc # "idle" /\ Msg(r) \in Messages
    BY DEF AddJob, Stamp, Complete, RequestFails, TypeInv, Busy
<1>2. Goto(r, "stamp") \/ Goto(r, "complete") \/ Return(r)
    BY DEF AddJob, Stamp, Complete, RequestFails
<1>3. Moved(r, "stamp", Msg(r)) \/ Moved(r, "complete", Msg(r)) \/ Moved(r, "idle", NoMessage)
    BY <1>2, GotoMoves, ReturnMoves DEF TypeInv, RequestPc
<1>4. request' \in Slots /\ Busy'
    BY <1>3, <1>1, MovedBusy DEF TypeInv, Moved
<1>5. budget' \in Budgets
    BY SpendType DEF TypeInv, TypeOK, AddJob, Stamp, Complete, RequestFails, Limited
<1>6. /\ answer' \in [Messages -> {"none", "accepted", "skipped"}]
      /\ key' \in [Messages -> {"none", "PROCESSING", "COMPLETED"}]
    BY DEF TypeInv, TypeOK, AddJob, Stamp, Complete, RequestFails
<1>8. job' \in Jobs
    <2>1. CASE AddJob(r)
        BY <2>1 DEF TypeInv, TypeOK, AddJob, Jobs, JobPc
    <2>2. CASE Stamp(r) \/ Complete(r) \/ RequestFails(r)
        BY <2>2 DEF TypeInv, TypeOK, Stamp, Complete, RequestFails, Jobs
    <2>q. QED
        BY <2>1, <2>2
<1>7. UNCHANGED <<expired, enabled, known, store, handler, creating>>
    BY DEF AddJob, Stamp, Complete, RequestFails
<1>q. QED
    BY <1>4, <1>5, <1>6, <1>7, <1>8 DEF TypeInv, TypeOK, Slots, Jobs, store

LEMMA DeliverTypes ==
    ASSUME InboundAssumption, TypeInv, NEW r \in Requests, NEW m \in Messages, Deliver(r, m)
    PROVE  TypeInv' /\ Moved(r, "guard", m)
<1>1. Moved(r, "guard", m)
    BY DEF TypeInv, TypeOK, Deliver, Moved, Slots, RequestPc
<1>2. request' \in Slots /\ Busy'
    BY <1>1, MovedBusy DEF TypeInv, Moved
<1>3. budget' \in Budgets
    BY SpendType DEF TypeInv, Deliver, Limited
<1>q. QED
    BY <1>1, <1>2, <1>3 DEF TypeInv, TypeOK, Slots, Deliver, store

(* The worker. *)
LEMMA WorkerTypes ==
    ASSUME InboundAssumption, TypeInv, NEW m \in Messages,
           Qualify(m) \/ JobFails(m) \/ SettleFails(m)
    PROVE  TypeInv'
<1> USE DEF Qualify
<1>1. job' \in Jobs
    <2>1. CASE JobFails(m)
        BY <2>1 DEF JobFails, TypeInv, TypeOK, Jobs, JobPc
    <2>2. CASE Qualify(m) \/ SettleFails(m)
        <3>1. \E pc \in JobPc : GoOn(m, pc)
            BY <2>2 DEF StartQualify, Settle, Finish, Review, SettleFails, JobPc
        <3>q. QED
            BY <3>1, GoOnMoves DEF TypeInv
    <2>q. QED
        BY <2>1, <2>2
<1>2. row' \in [Messages -> RowStatus]
    BY DEF TypeInv, TypeOK, StartQualify, Settle, Finish, Review, JobFails, SettleFails,
           RowStatus, Final, store
<1>3. result' \subseteq Messages
    BY DEF TypeInv, TypeOK, StartQualify, Settle, Finish, Review, JobFails, SettleFails, store
<1>4. handler' \in Handlers
    <2>1. CASE Finish(m)
        BY <2>1 DEF TypeInv, TypeOK, Finish, Handlers, HandlerPc
    <2>2. CASE StartQualify(m) \/ Settle(m) \/ Review(m) \/ JobFails(m) \/ SettleFails(m)
        BY <2>2 DEF TypeInv, TypeOK, StartQualify, Settle, Review, JobFails, SettleFails, Handlers
    <2>q. QED
        BY <2>1, <2>2
<1>5. budget' \in Budgets
    BY SpendType DEF TypeInv, TypeOK, StartQualify, Settle, Finish, Review, JobFails,
           SettleFails, Limited
<1>6. UNCHANGED <<web, expired, enabled, known, enquiries, threads, creating>>
    BY DEF StartQualify, Settle, Finish, Review, JobFails, SettleFails, store
<1>q. QED
    BY <1>1, <1>2, <1>3, <1>4, <1>5, <1>6
       DEF TypeInv, TypeOK, Jobs, Handlers, web, Busy, Msg

(* The handler of the event. *)
LEMMA HandlerTypes ==
    ASSUME InboundAssumption, TypeInv, NEW m \in Messages, HandleQualified(m) \/ HandlerFails(m)
    PROVE  TypeInv'
<1> USE DEF HandleQualified
<1>1. handler' \in Handlers
    <2>0. handler \in Handlers
        BY DEF TypeInv, TypeOK, Handlers
    <2>1. ASSUME NEW e \in Open(From[m]),
                 handler' = [handler EXCEPT ![m] = [pc |-> "append", enquiry |-> e]]
          PROVE  handler' \in Handlers
        <3>1. e \in Nat
            BY EnquiryIndex DEF TypeInv, Open, EnquiriesOf
        <3>q. QED
            BY <2>0, <2>1, <3>1 DEF Handlers, HandlerPc
    <2>2. CASE handler' = [handler EXCEPT ![m].pc = "create"]
        BY <2>0, <2>2 DEF Handlers, HandlerPc
    <2>3. CASE handler' = [handler EXCEPT ![m] = NoHandler]
        BY <2>0, <2>3 DEF Handlers, HandlerPc, NoHandler
    <2>q. QED
        BY <2>1, <2>2, <2>3 DEF FindOpen, AppendQualified, CreateQualified, HandlerFails
<1>2. threads' \in [Messages -> Seq(Nat)]
    <2>1. CASE AppendQualified(m)
        <3>1. PICK e : e = handler[m].enquiry
            OBVIOUS
        <3>2. e \in Nat /\ Thread(m, e)
            BY <2>1, <3>1 DEF TypeInv, TypeOK, AppendQualified
        <3>q. QED
            BY <3>2, ThreadAppends DEF TypeInv
    <2>2. CASE CreateQualified(m)
        <3>1. Len(enquiries) + 1 \in Nat /\ Thread(m, Len(enquiries) + 1)
            BY <2>2 DEF TypeInv, TypeOK, CreateQualified
        <3>q. QED
            BY <3>1, ThreadAppends DEF TypeInv
    <2>3. CASE FindOpen(m) \/ HandlerFails(m)
        BY <2>3 DEF TypeInv, TypeOK, FindOpen, HandlerFails, store
    <2>q. QED
        BY <2>1, <2>2, <2>3
<1>3. enquiries' \in Seq(EnquiryRow)
    <2>1. CASE CreateQualified(m)
        <3>1. NewEnquiry(From[m]) \in EnquiryRow
            BY DEF InboundAssumption, NewEnquiry, EnquiryRow
        <3>2. enquiries' = Append(enquiries, NewEnquiry(From[m]))
            BY <2>1 DEF CreateQualified
        <3>q. QED
            BY <3>1, <3>2 DEF TypeInv, TypeOK
    <2>2. CASE FindOpen(m) \/ AppendQualified(m) \/ HandlerFails(m)
        BY <2>2 DEF TypeInv, TypeOK, FindOpen, AppendQualified, HandlerFails, store
    <2>q. QED
        BY <2>1, <2>2
<1>4. budget' \in Budgets
    BY SpendType DEF TypeInv, TypeOK, FindOpen, AppendQualified, CreateQualified, HandlerFails,
           Limited
<1>5. UNCHANGED <<web, expired, enabled, known, row, result, job, creating>>
    BY DEF FindOpen, AppendQualified, CreateQualified, HandlerFails, store
<1>q. QED
    BY <1>1, <1>2, <1>3, <1>4, <1>5 DEF TypeInv, TypeOK, Handlers, web, Busy, Msg

(* Staff, the clock and a restart. *)
LEMMA OutsideTypes ==
    ASSUME InboundAssumption, TypeInv, Staff \/ (\E m \in Messages : Expire(m))
    PROVE  TypeInv'
<1>1. enquiries' \in Seq(EnquiryRow)
    <2>1. enquiries \in Seq(EnquiryRow)
        BY DEF TypeInv, TypeOK
    <2>2. ASSUME NEW e, NEW st \in {"open", "lost", "converted"},
                 enquiries' = [enquiries EXCEPT ![e].state = st]
          PROVE  enquiries' \in Seq(EnquiryRow)
        BY <2>1, <2>2, StateSet
    <2>3. ASSUME NEW k \in Contacts, enquiries' = Append(enquiries, NewEnquiry(k))
          PROVE  enquiries' \in Seq(EnquiryRow)
        BY <2>1, <2>3 DEF NewEnquiry, EnquiryRow
    <2>4. CASE enquiries' = enquiries
        BY <2>1, <2>4
    <2>q. QED
        BY <2>2, <2>3, <2>4 DEF Staff, CheckNoOpenEnquiry, Create, Close, Reopen, Toggle, Expire,
                                store
<1>2. budget' \in Budgets
    BY SpendType DEF TypeInv, TypeOK, Staff, CheckNoOpenEnquiry, Create, Close, Reopen, Toggle,
                     Expire, Limited
<1>3. creating' \in [Contacts -> Nat]
    BY DEF TypeInv, TypeOK, Staff, CheckNoOpenEnquiry, Create, Close, Reopen, Toggle, Expire
<1>4. enabled' \in BOOLEAN /\ expired' \subseteq Messages
    BY DEF TypeInv, TypeOK, Staff, CheckNoOpenEnquiry, Create, Close, Reopen, Toggle, Expire
<1>5. UNCHANGED <<web, known, row, result, threads, job, handler>>
    BY DEF Staff, CheckNoOpenEnquiry, Create, Close, Reopen, Toggle, Expire, store
<1>q. QED
    BY <1>1, <1>2, <1>3, <1>4, <1>5 DEF TypeInv, TypeOK, web, Busy, Msg

LEMMA CrashTypes ==
    ASSUME InboundAssumption, TypeInv, Crash
    PROVE  TypeInv'
<1>1. request' \in Slots /\ Busy'
    BY DEF Crash, Idle, Slots, RequestPc, Busy, Msg
<1>2. job' \in Jobs
    BY DEF Crash, TypeInv, TypeOK, Jobs, JobPc
<1>3. handler' \in Handlers /\ creating' \in [Contacts -> Nat]
    BY DEF Crash, Handlers, HandlerPc, NoHandler
<1>4. budget' \in Budgets
    BY SpendType DEF Crash, TypeInv, Limited
<1>q. QED
    BY <1>1, <1>2, <1>3, <1>4 DEF Crash, TypeInv, TypeOK, Slots, Jobs, Handlers, store

LEMMA TypesInit ==
    ASSUME InboundAssumption, Init
    PROVE  TypeInv
<1>1. enquiries \in Seq(EnquiryRow) /\ threads \in [Messages -> Seq(Nat)]
    BY DEF Init
<1>q. QED
    BY <1>1 DEF InboundAssumption, Init, TypeInv, TypeOK, Busy, RowStatus, JobPc, HandlerPc,
                RequestPc, Idle, NoJob, NoHandler

LEMMA TypesStutter ==
    ASSUME TypeInv, UNCHANGED vars
    PROVE  TypeInv'
BY DEF TypeInv, TypeOK, Busy, Msg, vars

LEMMA TypesStep ==
    ASSUME InboundAssumption, TypeInv, [Next]_vars
    PROVE  TypeInv'
<1>1. ASSUME NEW m \in Messages,
             Qualify(m) \/ HandleQualified(m) \/ Expire(m) \/ \E r \in Requests : Deliver(r, m)
      PROVE  TypeInv'
    BY <1>1, WorkerTypes, HandlerTypes, OutsideTypes, DeliverTypes
<1>2. ASSUME NEW r \in Requests, Serve(r)
      PROVE  TypeInv'
    BY <1>2, AskingTypes, StoringTypes, ThreadingTypes, ClosingTypes DEF Serve
<1>3. ASSUME Fault
      PROVE  TypeInv'
    BY <1>3, ClosingTypes, WorkerTypes, HandlerTypes, CrashTypes DEF Fault
<1>4. CASE UNCHANGED vars
    BY <1>4, TypesStutter
<1>q. QED
    BY <1>1, <1>2, <1>3, <1>4, OutsideTypes DEF Next

(* Every state has the types, and every request that is not idle has a     *)
(* message.                                                                *)
THEOREM InboundTypes == Spec => []TypeOK
<1>1. Init => TypeInv
    BY InboundAssumption, TypesInit
<1>2. TypeInv /\ [Next]_vars => TypeInv'
    BY InboundAssumption, TypesStep
<1>3. TypeInv => TypeOK
    BY DEF TypeInv
<1>q. QED
    BY <1>1, <1>2, <1>3, PTL DEF Spec

-----------------------------------------------------------------------------
(* Who has a message in hand.  There is at most one at a time: the request *)
(* that made its row, then the worker, then the handler of the event; and  *)
(* as long as there is one, the message is in no thread.                   *)

Carrying == {"thread", "rethread", "add"}
Carries(r) == request[r].pc \in Carrying
InQueue(m) == job[m].pc \in {"waiting", "classify", "finish", "review"}

Untouched ==
    \A m \in Messages :
        row[m] = "NONE" => threads[m] = <<>> /\ job[m].pc = "none" /\ handler[m].pc = "none"
CarrierAlone ==
    \A r \in Requests : Carries(r) =>
        /\ row[Msg(r)] # "NONE" /\ job[Msg(r)].pc = "none"
        /\ handler[Msg(r)].pc = "none" /\ threads[Msg(r)] = <<>>
        /\ \A s \in Requests \ {r} : Carries(s) => Msg(s) # Msg(r)
WorkerAlone ==
    \A m \in Messages : InQueue(m) => handler[m].pc = "none" /\ threads[m] = <<>>
HandlerAlone == \A m \in Messages : handler[m].pc # "none" => threads[m] = <<>>
StampStored == \A r \in Requests : request[r].pc = "stamp" => row[Msg(r)] # "NONE"
InProgress == \A m \in Messages : job[m].pc \in {"classify", "review"} => row[m] = "PROCESSING"

OneHand == Untouched /\ CarrierAlone /\ WorkerAlone /\ HandlerAlone /\ ThreadedOnce
Stored == StampStored /\ AcceptedIsStored /\ InProgress
Safe == OneHand /\ Stored

(* A request that goes on without storing anything disturbs nothing.       *)
LEMMA QuietMove ==
    ASSUME TypeInv, Safe, NEW r \in Requests, NEW pc, NEW m, Moved(r, pc, m),
           pc \notin Carrying \cup {"stamp"},
           \A n \in Messages : answer'[n] = "accepted" => answer[n] = "accepted",
           UNCHANGED <<row, threads, job, handler>>
    PROVE  Safe'
<1>1. OneHand'
    BY DEF Safe, OneHand, Untouched, CarrierAlone, WorkerAlone, HandlerAlone, ThreadedOnce,
           Moved, Carries, Carrying, Msg, InQueue
<1>2. Stored'
    BY DEF Safe, Stored, StampStored, AcceptedIsStored, InProgress, Moved, Msg
<1>q. QED
    BY <1>1, <1>2 DEF Safe

LEMMA AskingSafe ==
    ASSUME TypeInv, Safe, NEW r \in Requests,
           ReadKey(r) \/ ClaimKey(r) \/ CheckEnabled(r) \/ FindContact(r)
             \/ CreateContact(r) \/ FindActive(r) \/ FindClosed(r) \/ Complete(r)
             \/ RequestFails(r)
    PROVE  Safe'
<1>1. UNCHANGED <<row, threads, job, handler>>
    BY DEF ReadKey, ClaimKey, CheckEnabled, FindContact, CreateContact, FindActive,
           FindClosed, Complete, RequestFails, store
<1>2. \A n \in Messages : answer'[n] = "accepted" => answer[n] = "accepted"
    BY DEF ReadKey, ClaimKey, CheckEnabled, FindContact, CreateContact, FindActive,
           FindClosed, Complete, RequestFails, TypeInv, TypeOK
<1> DEFINE Quiet == RequestPc \ (Carrying \cup {"stamp"})
<1>3. ASSUME NEW pc \in Quiet, Goto(r, pc) PROVE Safe'
    BY <1>1, <1>2, <1>3, GotoMoves, QuietMove DEF TypeInv
<1>4. ASSUME NEW pc \in Quiet, NEW e \in DOMAIN enquiries, GotoWith(r, pc, e) PROVE Safe'
    BY <1>1, <1>2, <1>4, EnquiryIndex, GotoWithMoves, QuietMove DEF TypeInv
<1>5. CASE Return(r)
    BY <1>1, <1>2, <1>5, ReturnMoves, QuietMove DEF TypeInv, Carrying
<1>6. \A pc \in {"idle", "guard", "claim", "toggle", "resolve", "contact", "active", "closed",
                 "append", "reopen", "queue", "complete"} : pc \in Quiet
    BY DEF RequestPc, Carrying
<1> HIDE DEF Quiet
<1>7. CASE ReadKey(r) \/ ClaimKey(r) \/ Complete(r) \/ RequestFails(r)
    BY <1>7, <1>3, <1>5, <1>6 DEF ReadKey, ClaimKey, Complete, RequestFails
<1>8. CASE CheckEnabled(r) \/ FindContact(r) \/ CreateContact(r)
    BY <1>8, <1>3, <1>6 DEF CheckEnabled, FindContact, CreateContact
<1>9. CASE FindActive(r) \/ FindClosed(r)
    BY <1>9, <1>3, <1>4, <1>6 DEF FindActive, FindClosed, Open, EnquiriesOf
<1>q. QED
    BY <1>7, <1>8, <1>9

LEMMA DeliverSafe ==
    ASSUME InboundAssumption, TypeInv, Safe, NEW r \in Requests, NEW m \in Messages, Deliver(r, m)
    PROVE  Safe'
<1>1. Moved(r, "guard", m)
    BY DeliverTypes
<1>2. UNCHANGED <<answer, row, threads, job, handler>>
    BY DEF Deliver, store
<1>q. QED
    BY <1>1, <1>2, QuietMove DEF Carrying

(* A row is made once: who makes it has the message in hand, as the first. *)
LEMMA InsertSafe ==
    ASSUME TypeInv, Safe, NEW r \in Requests, Msg(r) \in Messages,
           NEW status \in RowStatus \ {"NONE"}, NEW pc \in Carrying, Insert(r, status, pc),
           UNCHANGED <<answer, threads, job, handler>>
    PROVE  Safe'
<1>1. CASE row[Msg(r)] # "NONE"
    <2>1. Moved(r, "idle", NoMessage) /\ row' = row
        BY <1>1, ReturnMoves DEF Insert, TypeInv
    <2>q. QED
        BY <2>1, QuietMove DEF Carrying
<1>2. CASE row[Msg(r)] = "NONE"
    <2>1. Moved(r, pc, Msg(r))
        BY <1>2, GotoMoves DEF Insert, TypeInv, Carrying, RequestPc
    <2>2. /\ row'[Msg(r)] = status
          /\ \A n \in Messages \ {Msg(r)} : row'[n] = row[n]
        BY <1>2 DEF Insert, TypeInv, TypeOK
    <2>3. /\ threads[Msg(r)] = <<>> /\ job[Msg(r)].pc = "none" /\ handler[Msg(r)].pc = "none"
          /\ \A s \in Requests : Carries(s) => Msg(s) # Msg(r)
        BY <1>2 DEF Safe, OneHand, Untouched, CarrierAlone
    <2>4. CarrierAlone'
        <3>1. ASSUME NEW s \in Requests, Carries(s)' PROVE Msg(s)' \in Messages
            BY <3>1, <2>1 DEF TypeInv, Busy, Moved, Carries, Carrying, Msg
        <3>q. QED
            BY <3>1, <2>1, <2>2, <2>3 DEF Safe, OneHand, CarrierAlone, Moved, Carries, Msg
    <2>5. Untouched' /\ WorkerAlone' /\ HandlerAlone' /\ ThreadedOnce'
        BY <2>2, <2>3 DEF Safe, OneHand, Untouched, WorkerAlone, HandlerAlone, ThreadedOnce, InQueue
    <2>6. \A n \in Messages : row[n] # "NONE" => row'[n] = row[n]
        BY <1>2, <2>2
    <2>7. StampStored'
        BY <2>1, <2>6 DEF Safe, Stored, StampStored, TypeInv, Busy, Moved, Carrying, Msg
    <2>8. AcceptedIsStored' /\ InProgress'
        BY <2>6 DEF Safe, Stored, AcceptedIsStored, InProgress
    <2>q. QED
        BY <2>4, <2>5, <2>7, <2>8 DEF Safe, OneHand, Stored
<1>q. QED
    BY <1>1, <1>2

LEMMA StoringSafe ==
    ASSUME TypeInv, Safe, NEW r \in Requests,
           StoreForAppend(r) \/ StoreForReopen(r) \/ StoreForQualification(r)
    PROVE  Safe'
<1>1. Msg(r) \in Messages
    BY DEF StoreForAppend, StoreForReopen, StoreForQualification, TypeInv, Busy, At
<1>2. UNCHANGED <<answer, threads, job, handler>>
    BY DEF StoreForAppend, StoreForReopen, StoreForQualification
<1>3. \E status \in RowStatus \ {"NONE"}, pc \in Carrying : Insert(r, status, pc)
    BY DEF StoreForAppend, StoreForReopen, StoreForQualification, RowStatus, Carrying
<1>q. QED
    BY <1>1, <1>2, <1>3, InsertSafe

(* The transactions that thread a message. *)
LEMMA ThreadingSafe ==
    ASSUME TypeInv, Safe, NEW r \in Requests, AppendMessage(r) \/ ReopenMessage(r)
    PROVE  Safe'
<1>1. Msg(r) \in Messages /\ Carries(r) /\ Goto(r, "stamp")
    BY DEF AppendMessage, ReopenMessage, TypeInv, Busy, At, Carries, Carrying
<1>2. Moved(r, "stamp", Msg(r))
    BY <1>1, GotoMoves DEF TypeInv, RequestPc
<1>3. UNCHANGED <<answer, row, job, handler>>
    BY DEF AppendMessage, ReopenMessage
<1>4. PICK e : e = request[r].enquiry
    OBVIOUS
<1>5. e \in Nat /\ Thread(Msg(r), e)
    BY <1>4 DEF TypeInv, TypeOK, AppendMessage, ReopenMessage
<1>6. /\ threads'[Msg(r)] = Append(threads[Msg(r)], e)
      /\ \A n \in Messages \ {Msg(r)} : threads'[n] = threads[n]
    BY <1>1, <1>5, ThreadAppends DEF TypeInv
<1>7. /\ row[Msg(r)] # "NONE" /\ job[Msg(r)].pc = "none" /\ handler[Msg(r)].pc = "none"
      /\ threads[Msg(r)] = <<>> /\ \A s \in Requests \ {r} : Carries(s) => Msg(s) # Msg(r)
    BY <1>1 DEF Safe, OneHand, CarrierAlone
<1>8. Len(threads'[Msg(r)]) <= 1
    BY <1>5, <1>6, <1>7
<1>9. ThreadedOnce'
    BY <1>6, <1>8 DEF Safe, OneHand, ThreadedOnce
<1>10. CarrierAlone'
    <2>1. ASSUME NEW s \in Requests, Carries(s)'
          PROVE  s # r /\ Carries(s) /\ Msg(s)' = Msg(s) /\ Msg(s) \in Messages \ {Msg(r)}
        BY <2>1, <1>2, <1>7 DEF TypeInv, Busy, Moved, Carries, Carrying, Msg
    <2>q. QED
        BY <2>1, <1>3, <1>6 DEF Safe, OneHand, CarrierAlone
<1>11. Untouched' /\ WorkerAlone' /\ HandlerAlone'
    BY <1>3, <1>6, <1>7 DEF Safe, OneHand, Untouched, WorkerAlone, HandlerAlone, InQueue
<1>12. Stored'
    BY <1>2, <1>3, <1>7 DEF Safe, Stored, StampStored, AcceptedIsStored, InProgress, Moved, Msg
<1>q. QED
    BY <1>9, <1>10, <1>11, <1>12 DEF Safe, OneHand

LEMMA AddJobSafe ==
    ASSUME TypeInv, Safe, NEW r \in Requests, AddJob(r)
    PROVE  Safe'
<1>1. Msg(r) \in Messages /\ Carries(r)
    BY DEF AddJob, TypeInv, Busy, At, Carries, Carrying
<1>2. Moved(r, "stamp", Msg(r))
    BY GotoMoves DEF AddJob, TypeInv, RequestPc
<1>3. UNCHANGED <<answer, row, threads, handler>>
    BY DEF AddJob, store
<1>4. job'[Msg(r)].pc = "waiting" /\ \A n \in Messages \ {Msg(r)} : job'[n] = job[n]
    BY <1>1 DEF AddJob, TypeInv, TypeOK
<1>5. /\ row[Msg(r)] # "NONE" /\ handler[Msg(r)].pc = "none" /\ threads[Msg(r)] = <<>>
      /\ \A s \in Requests \ {r} : Carries(s) => Msg(s) # Msg(r)
    BY <1>1 DEF Safe, OneHand, CarrierAlone
<1>6. CarrierAlone'
    <2>1. ASSUME NEW s \in Requests, Carries(s)'
          PROVE  s # r /\ Carries(s) /\ Msg(s)' = Msg(s) /\ Msg(s) \in Messages \ {Msg(r)}
        BY <2>1, <1>2, <1>5 DEF TypeInv, Busy, Moved, Carries, Carrying, Msg
    <2>q. QED
        BY <2>1, <1>3, <1>4 DEF Safe, OneHand, CarrierAlone
<1>7. Untouched' /\ WorkerAlone' /\ HandlerAlone' /\ ThreadedOnce'
    BY <1>3, <1>4, <1>5
       DEF Safe, OneHand, Untouched, WorkerAlone, HandlerAlone, ThreadedOnce, InQueue
<1>8. Stored'
    BY <1>1, <1>2, <1>3, <1>4, <1>5
       DEF Safe, Stored, StampStored, AcceptedIsStored, InProgress, Moved, Msg
<1>q. QED
    BY <1>6, <1>7, <1>8 DEF Safe, OneHand

LEMMA StampSafe ==
    ASSUME TypeInv, Safe, NEW r \in Requests, Stamp(r)
    PROVE  Safe'
<1>1. Msg(r) \in Messages /\ row[Msg(r)] # "NONE"
    BY DEF Stamp, TypeInv, Busy, At, Safe, Stored, StampStored
<1>2. Moved(r, "complete", Msg(r))
    BY GotoMoves DEF Stamp, TypeInv, RequestPc
<1>3. UNCHANGED <<row, threads, job, handler>>
    BY DEF Stamp, store
<1>4. OneHand'
    BY <1>2, <1>3 DEF Safe, OneHand, Untouched, CarrierAlone, WorkerAlone, HandlerAlone,
                      ThreadedOnce, Moved, Carries, Carrying, Msg, InQueue
<1>5. \A n \in Messages : answer'[n] = "accepted" => answer[n] = "accepted" \/ n = Msg(r)
    BY DEF Stamp, TypeInv, TypeOK
<1>6. Stored'
    BY <1>1, <1>2, <1>3, <1>5 DEF Safe, Stored, StampStored, AcceptedIsStored, InProgress, Moved, Msg
<1>q. QED
    BY <1>4, <1>6 DEF Safe

(* The worker has one message in hand: what it changes is about that one.  *)
OnlyJob(m) ==
    /\ \A n \in Messages \ {m} : job'[n] = job[n] /\ row'[n] = row[n] /\ handler'[n] = handler[n]
    /\ UNCHANGED <<answer, request, threads>>

LEMMA WorkerMoves ==
    ASSUME TypeInv, NEW m \in Messages, Qualify(m) \/ JobFails(m) \/ SettleFails(m)
    PROVE  OnlyJob(m)
<1>1. \A n \in Messages \ {m} : job'[n] = job[n]
    <2>1. ASSUME NEW pc \in JobPc, GoOn(m, pc) PROVE \A n \in Messages \ {m} : job'[n] = job[n]
        BY <2>1, GoOnMoves DEF TypeInv
    <2>2. CASE JobFails(m)
        BY <2>2 DEF JobFails, TypeInv, TypeOK
    <2>q. QED
        BY <2>1, <2>2 DEF Qualify, StartQualify, Settle, Finish, Review, SettleFails, JobPc
<1>2. \A n \in Messages \ {m} : row'[n] = row[n]
    BY DEF TypeInv, TypeOK, Qualify, StartQualify, Settle, Finish, Review, JobFails, SettleFails,
           store
<1>3. \A n \in Messages \ {m} : handler'[n] = handler[n]
    BY DEF TypeInv, TypeOK, Qualify, StartQualify, Settle, Finish, Review, JobFails, SettleFails
<1>4. UNCHANGED <<answer, request, threads>>
    BY DEF Qualify, StartQualify, Settle, Finish, Review, JobFails, SettleFails, store, web
<1>q. QED
    BY <1>1, <1>2, <1>3, <1>4 DEF OnlyJob

(* It keeps the message in hand, or puts it down, or hands it to the       *)
(* handler.                                                                *)
LEMMA WorkerKeeps ==
    ASSUME TypeInv, Safe, NEW m \in Messages, OnlyJob(m),
           InQueue(m), row'[m] # "NONE",
           job'[m].pc # "none",
           job'[m].pc \in {"classify", "review"} => row'[m] = "PROCESSING",
           InQueue(m)' => handler'[m] = handler[m]
    PROVE  Safe'
<1>1. handler[m].pc = "none" /\ threads[m] = <<>> /\ row[m] # "NONE" /\ job[m].pc # "none"
    BY DEF Safe, OneHand, Untouched, WorkerAlone, InQueue
<1>2. CarrierAlone'
    <2>1. ASSUME NEW s \in Requests, Carries(s)'
          PROVE  Carries(s) /\ Msg(s)' = Msg(s) /\ Msg(s) \in Messages \ {m}
        BY <2>1, <1>1 DEF TypeInv, Busy, OnlyJob, Carries, Carrying, Msg, Safe, OneHand, CarrierAlone
    <2>q. QED
        BY <2>1 DEF Safe, OneHand, CarrierAlone, OnlyJob
<1>3. Untouched' /\ WorkerAlone' /\ HandlerAlone' /\ ThreadedOnce'
    BY <1>1 DEF Safe, OneHand, Untouched, WorkerAlone, HandlerAlone, ThreadedOnce, InQueue, OnlyJob
<1>4. StampStored'
    BY DEF Safe, Stored, StampStored, OnlyJob, TypeInv, Busy, Msg
<1>5. AcceptedIsStored' /\ InProgress'
    BY DEF Safe, Stored, AcceptedIsStored, InProgress, OnlyJob
<1>q. QED
    BY <1>2, <1>3, <1>4, <1>5 DEF Safe, OneHand, Stored

LEMMA StartQualifySafe ==
    ASSUME TypeInv, Safe, NEW m \in Messages, StartQualify(m)
    PROVE  Safe'
<1>1. OnlyJob(m) /\ InQueue(m) /\ row[m] # "NONE"
    BY WorkerMoves DEF Qualify, StartQualify, InQueue, Safe, OneHand, Untouched
<1>2. handler' = handler
    BY DEF StartQualify
<1>3. CASE AlreadyFinal(m)
    <2>1. row' = row /\ job'[m].pc = "completed"
        BY <1>3, GoOnMoves DEF StartQualify, TypeInv, JobPc
    <2>q. QED
        BY <1>1, <1>2, <2>1, WorkerKeeps
<1>4. CASE ~AlreadyFinal(m)
    <2>1. row'[m] = "PROCESSING" /\ job'[m].pc = "classify"
        BY <1>4, GoOnMoves DEF StartQualify, TypeInv, TypeOK, JobPc
    <2>q. QED
        BY <1>1, <1>2, <2>1, WorkerKeeps
<1>q. QED
    BY <1>3, <1>4

LEMMA SettleSafe ==
    ASSUME TypeInv, Safe, NEW m \in Messages, Settle(m)
    PROVE  Safe'
<1>1. OnlyJob(m) /\ InQueue(m) /\ handler' = handler
    BY WorkerMoves DEF Qualify, Settle, InQueue
<1>2. row'[m] # "NONE"
    BY DEF Settle, TypeInv, TypeOK, Final
<1>3. job'[m].pc = "finish"
    BY GoOnMoves DEF Settle, TypeInv, JobPc
<1>q. QED
    BY <1>1, <1>2, <1>3, WorkerKeeps

LEMMA FinishSafe ==
    ASSUME TypeInv, Safe, NEW m \in Messages, Finish(m)
    PROVE  Safe'
<1>1. OnlyJob(m) /\ InQueue(m) /\ row' = row /\ row[m] # "NONE"
    BY WorkerMoves DEF Qualify, Finish, InQueue, store, Safe, OneHand, Untouched
<1>2. job'[m].pc = "completed"
    BY GoOnMoves DEF Finish, TypeInv, JobPc
<1>q. QED
    BY <1>1, <1>2, WorkerKeeps DEF InQueue

LEMMA ReviewSafe ==
    ASSUME TypeInv, Safe, NEW m \in Messages, Review(m)
    PROVE  Safe'
<1>1. OnlyJob(m) /\ InQueue(m)
    BY WorkerMoves DEF Qualify, Review, InQueue
<1>2. row'[m] = "NEEDS_REVIEW" /\ handler' = handler
    BY DEF Review, TypeInv, TypeOK
<1>3. job'[m].pc = "completed"
    BY GoOnMoves DEF Review, TypeInv, JobPc
<1>q. QED
    BY <1>1, <1>2, <1>3, WorkerKeeps

LEMMA JobFailsSafe ==
    ASSUME TypeInv, Safe, NEW m \in Messages, JobFails(m)
    PROVE  Safe'
<1>1. OnlyJob(m) /\ InQueue(m) /\ row' = row /\ row[m] # "NONE" /\ handler' = handler
    BY WorkerMoves DEF JobFails, InQueue, store, Safe, OneHand, Untouched
<1>2. job'[m].pc \in {"waiting", "failed"}
    BY DEF JobFails, TypeInv, TypeOK
<1>q. QED
    BY <1>1, <1>2, WorkerKeeps

LEMMA SettleFailsSafe ==
    ASSUME TypeInv, Safe, NEW m \in Messages, SettleFails(m)
    PROVE  Safe'
<1>1. OnlyJob(m) /\ InQueue(m) /\ row' = row /\ handler' = handler
    BY WorkerMoves DEF SettleFails, InQueue, store
<1>2. row[m] = "PROCESSING"
    BY DEF SettleFails, Safe, Stored, InProgress
<1>3. job'[m].pc = "review"
    BY GoOnMoves DEF SettleFails, TypeInv, JobPc
<1>q. QED
    BY <1>1, <1>2, <1>3, WorkerKeeps

(* The handler holds its message until it threads it or fails. *)
LEMMA HandlerSafe ==
    ASSUME InboundAssumption, TypeInv, Safe, NEW m \in Messages,
           HandleQualified(m) \/ HandlerFails(m)
    PROVE  Safe'
<1>1. handler[m].pc # "none"
    BY DEF HandleQualified, FindOpen, AppendQualified, CreateQualified, HandlerFails
<1>2. /\ UNCHANGED <<answer, row, job, request>>
      /\ \A n \in Messages \ {m} : threads'[n] = threads[n] /\ handler'[n] = handler[n]
    <2>1. UNCHANGED <<answer, row, job, request>>
        BY DEF HandleQualified, FindOpen, AppendQualified, CreateQualified, HandlerFails, store, web
    <2>2. \A n \in Messages \ {m} : handler'[n] = handler[n]
        BY DEF HandleQualified, FindOpen, AppendQualified, CreateQualified, HandlerFails, TypeInv,
               TypeOK
    <2>3. \A n \in Messages \ {m} : threads'[n] = threads[n]
        BY DEF HandleQualified, FindOpen, AppendQualified, CreateQualified, HandlerFails, TypeInv,
               TypeOK, Thread, store
    <2>q. QED
        BY <2>1, <2>2, <2>3
<1>3. threads[m] = <<>> /\ row[m] # "NONE" /\ ~InQueue(m)
    BY <1>1 DEF Safe, OneHand, HandlerAlone, Untouched, WorkerAlone
<1>4. /\ threads'[m] = <<>> \/ handler'[m].pc = "none"
      /\ Len(threads'[m]) <= 1
    <2>1. CASE FindOpen(m) \/ HandlerFails(m)
        <3>1. threads' = threads
            BY <2>1 DEF FindOpen, HandlerFails, store
        <3>q. QED
            BY <3>1, <1>3
    <2>2. ASSUME NEW e \in Nat, Thread(m, e), handler' = [handler EXCEPT ![m] = NoHandler]
          PROVE  handler'[m].pc = "none" /\ Len(threads'[m]) <= 1
        <3>1. threads'[m] = Append(<<>>, e)
            BY <2>2, <1>3, ThreadAppends DEF TypeInv
        <3>2. handler'[m].pc = "none"
            BY <2>2 DEF TypeInv, TypeOK, NoHandler
        <3>q. QED
            BY <3>1, <3>2
    <2>3. handler[m].enquiry \in Nat /\ Len(enquiries) + 1 \in Nat
        BY DEF TypeInv, TypeOK
    <2>q. QED
        BY <2>1, <2>2, <2>3 DEF HandleQualified, AppendQualified, CreateQualified
<1>5. CarrierAlone'
    <2>1. ASSUME NEW s \in Requests, Carries(s)'
          PROVE  Carries(s) /\ Msg(s)' = Msg(s) /\ Msg(s) \in Messages \ {m}
        BY <2>1, <1>1, <1>2 DEF TypeInv, Busy, Carries, Carrying, Msg, Safe, OneHand, CarrierAlone
    <2>q. QED
        BY <2>1, <1>2 DEF Safe, OneHand, CarrierAlone
<1>6. Untouched' /\ WorkerAlone' /\ HandlerAlone' /\ ThreadedOnce'
    BY <1>2, <1>3, <1>4
       DEF Safe, OneHand, Untouched, WorkerAlone, HandlerAlone, ThreadedOnce, InQueue
<1>7. Stored'
    BY <1>2 DEF Safe, Stored, StampStored, AcceptedIsStored, InProgress, Msg
<1>q. QED
    BY <1>5, <1>6, <1>7 DEF Safe, OneHand

(* A restart takes the message out of every hand but the worker's.         *)
LEMMA CrashSafe ==
    ASSUME TypeInv, Safe, Crash
    PROVE  Safe'
<1>1. /\ UNCHANGED <<answer, row, threads>>
      /\ \A r \in Requests : request'[r].pc = "idle"
      /\ \A m \in Messages : handler'[m].pc = "none"
    BY DEF Crash, store, Idle, NoHandler
<1>2. \A m \in Messages : job'[m].pc = IF Working(m) THEN "waiting" ELSE job[m].pc
    BY DEF Crash, TypeInv, TypeOK
<1>3. \A m \in Messages : /\ InQueue(m)' <=> InQueue(m)
                          /\ job[m].pc = "none" => job'[m].pc = "none"
                          /\ job'[m].pc \notin {"classify", "review"}
    BY <1>2 DEF InQueue, Working
<1>4. CarrierAlone' /\ StampStored'
    BY <1>1 DEF CarrierAlone, StampStored, Carries, Carrying
<1>5. Untouched' /\ WorkerAlone' /\ HandlerAlone' /\ ThreadedOnce'
    BY <1>1, <1>3 DEF Safe, OneHand, Untouched, WorkerAlone, HandlerAlone, ThreadedOnce
<1>6. AcceptedIsStored' /\ InProgress'
    BY <1>1, <1>3 DEF Safe, Stored, AcceptedIsStored, InProgress
<1>q. QED
    BY <1>4, <1>5, <1>6 DEF Safe, OneHand, Stored

LEMMA SafeInit ==
    ASSUME InboundAssumption, Init
    PROVE  Safe
<1>1. /\ \A m \in Messages : /\ threads[m] = <<>> /\ Len(threads[m]) <= 1
                             /\ job[m].pc = "none" /\ handler[m].pc = "none"
                             /\ answer[m] = "none"
      /\ \A r \in Requests : request[r].pc = "idle"
    BY DEF Init, NoJob, NoHandler, Idle
<1>q. QED
    BY <1>1 DEF Safe, OneHand, Untouched, CarrierAlone, WorkerAlone, HandlerAlone, ThreadedOnce,
                Stored, StampStored, AcceptedIsStored, InProgress, Carries, Carrying, InQueue

LEMMA SafeUntouched ==
    ASSUME Safe, UNCHANGED <<answer, row, threads, job, handler, request>>
    PROVE  Safe'
BY DEF Safe, OneHand, Untouched, CarrierAlone, WorkerAlone, HandlerAlone, ThreadedOnce, Stored,
       StampStored, AcceptedIsStored, InProgress, Carries, InQueue, Msg

LEMMA SafeStep ==
    ASSUME InboundAssumption, TypeInv, Safe, [Next]_vars
    PROVE  Safe'
<1>1. ASSUME NEW m \in Messages, Qualify(m) \/ JobFails(m) \/ SettleFails(m)
      PROVE  Safe'
    BY <1>1, StartQualifySafe, SettleSafe, FinishSafe, ReviewSafe, JobFailsSafe, SettleFailsSafe
       DEF Qualify
<1>2. ASSUME NEW r \in Requests, Serve(r)
      PROVE  Safe'
    BY <1>2, AskingSafe, StoringSafe, ThreadingSafe, AddJobSafe, StampSafe DEF Serve
<1>3. ASSUME Staff \/ (\E m \in Messages : Expire(m)) \/ UNCHANGED vars
      PROVE  Safe'
    <2>1. UNCHANGED <<answer, row, threads, job, handler, request>>
        BY <1>3 DEF Staff, CheckNoOpenEnquiry, Create, Close, Reopen, Toggle, Expire, store, web,
                    vars
    <2>q. QED
        BY <2>1, SafeUntouched
<1>4. ASSUME Fault
      PROVE  Safe'
    BY <1>4, <1>1, AskingSafe, HandlerSafe, CrashSafe DEF Fault
<1>q. QED
    BY <1>1, <1>2, <1>3, <1>4, HandlerSafe, DeliverSafe DEF Next

LEMMA SpecSafe == Spec => [](TypeInv /\ Safe)
<1>1. Init => TypeInv /\ Safe
    BY InboundAssumption, TypesInit, SafeInit
<1>2. TypeInv /\ Safe /\ [Next]_vars => (TypeInv /\ Safe)'
    BY InboundAssumption, TypesStep, SafeStep
<1>q. QED
    BY <1>1, <1>2, PTL DEF Spec

(* IdempotencyGuard, InboundMessage.externalId and the qualification job's *)
(* check for a decided message: a message is in one thread at most.        *)
THEOREM MessagesThreadOnce == Spec => []ThreadedOnce
<1>1. TypeInv /\ Safe => ThreadedOnce
    BY DEF Safe, OneHand
<1>q. QED
    BY <1>1, SpecSafe, PTL

(* ingest stores before the webhook answers: an accepted message has a     *)
(* row, although the process may fail or restart at any step.              *)
THEOREM AcceptedMessagesStored == Spec => []AcceptedIsStored
<1>1. TypeInv /\ Safe => AcceptedIsStored
    BY DEF Safe, Stored
<1>q. QED
    BY <1>1, SpecSafe, PTL

(* qualify, AlreadyFinal: a step of whatever attempt leaves a message that *)
(* has its result as it was filed.                                         *)
LEMMA FilingStep ==
    ASSUME TypeInv, Safe, [Next]_vars, NEW m \in Messages, m \in result, row[m] \in Final
    PROVE  row'[m] = row[m]
<1>1. row[m] # "NONE" /\ job[m].pc \notin {"classify", "review"}
    BY DEF Final, Safe, Stored, InProgress
<1>2. ASSUME NEW n \in Messages, Qualify(n) \/ JobFails(n) \/ SettleFails(n)
      PROVE  row'[m] = row[m]
    <2>1. CASE n # m
        BY <1>2, <2>1, WorkerMoves DEF OnlyJob
    <2>2. CASE n = m
        BY <1>1, <1>2, <2>2 DEF Qualify, StartQualify, AlreadyFinal, Settle, Finish, Review,
                                JobFails, SettleFails, store
    <2>q. QED
        BY <2>1, <2>2
<1>3. ASSUME NEW r \in Requests, Serve(r)
      PROVE  row'[m] = row[m]
    <2>1. CASE StoreForAppend(r) \/ StoreForReopen(r) \/ StoreForQualification(r)
        BY <1>1, <2>1 DEF StoreForAppend, StoreForReopen, StoreForQualification, Insert, TypeInv,
                          TypeOK
    <2>2. CASE row' = row
        BY <2>2
    <2>q. QED
        BY <1>3, <2>1, <2>2
           DEF Serve, ReadKey, ClaimKey, CheckEnabled, FindContact, CreateContact, FindActive,
               FindClosed, AppendMessage, ReopenMessage, AddJob, Stamp, Complete, store
<1>4. ASSUME NEW n \in Messages, HandleQualified(n) \/ HandlerFails(n)
      PROVE  row'[m] = row[m]
    BY <1>4 DEF HandleQualified, FindOpen, AppendQualified, CreateQualified, HandlerFails, store
<1>5. ASSUME NEW n \in Messages, NEW r \in Requests, Deliver(r, n)
      PROVE  row'[m] = row[m]
    BY <1>5 DEF Deliver, store
<1>6. ASSUME NEW r \in Requests, RequestFails(r)
      PROVE  row'[m] = row[m]
    BY <1>6 DEF RequestFails, store
<1>7. ASSUME Staff \/ (\E n \in Messages : Expire(n)) \/ Crash \/ UNCHANGED vars
      PROVE  row'[m] = row[m]
    BY <1>7 DEF Staff, CheckNoOpenEnquiry, Create, Close, Reopen, Toggle, Expire, Crash, store,
                vars
<1>q. QED
    BY <1>2, <1>3, <1>4, <1>5, <1>6, <1>7 DEF Next, Fault

(* qualification.service.ts, qualify: a later attempt of a job does not    *)
(* undo what an earlier one decided.                                       *)
THEOREM FilingsFinal == Spec => FilingIsFinal
<1>1. TypeInv /\ Safe /\ [Next]_vars
        => [\A m \in Messages : m \in result /\ row[m] \in Final => row'[m] = row[m]]_vars
    BY FilingStep
<1>q. QED
    BY <1>1, SpecSafe, PTL DEF Spec, FilingIsFinal

-----------------------------------------------------------------------------
(* One request past the guard, while no key expires.                       *)

Guarded ==
    /\ expired = {} /\ budget["expiries"] = 0
    /\ \A r \in Requests : Admitted(r) => key[Msg(r)] # "none"
    /\ OneRequestAdmitted

Outside == {"idle", "guard", "claim", "complete"}

(* A request that goes on, or leaves, is not admitted anew. *)
LEMMA AdmittedMove ==
    ASSUME TypeInv, Guarded, NEW r \in Requests, NEW pc, NEW m, Moved(r, pc, m),
           pc \in Outside \/ (Admitted(r) /\ m = Msg(r)),
           \A n \in Messages : key[n] # "none" => key'[n] # "none",
           expired' = expired, budget'["expiries"] = budget["expiries"]
    PROVE  Guarded'
<1>1. ASSUME NEW s \in Requests, Admitted(s)'
      PROVE  Admitted(s) /\ Msg(s)' = Msg(s) /\ Msg(s) \in Messages
    BY <1>1 DEF Admitted, Moved, Msg, Outside, TypeInv, Busy
<1>2. \A s \in Requests : Admitted(s)' => key'[Msg(s)'] # "none"
    BY <1>1 DEF Guarded
<1>3. OneRequestAdmitted'
    BY <1>1 DEF Guarded, OneRequestAdmitted
<1>q. QED
    BY <1>2, <1>3 DEF Guarded

LEMMA ServeGuarded ==
    ASSUME TypeInv, Guarded, NEW r \in Requests, Serve(r), ~ClaimKey(r)
    PROVE  Guarded'
<1>1. /\ \A n \in Messages : key[n] # "none" => key'[n] # "none"
      /\ expired' = expired /\ budget' = budget
    BY DEF Serve, ReadKey, CheckEnabled, FindContact, CreateContact, FindActive, FindClosed,
           StoreForAppend, StoreForReopen, StoreForQualification, AppendMessage, ReopenMessage,
           AddJob, Stamp, Complete, TypeInv, TypeOK
<1>2. CASE Return(r)
    BY <1>1, <1>2, ReturnMoves, AdmittedMove DEF TypeInv, Outside
<1>3. CASE Goto(r, "claim") \/ Goto(r, "complete")
    BY <1>1, <1>3, GotoMoves, AdmittedMove DEF TypeInv, Outside, RequestPc
<1>4. ASSUME NEW pc \in RequestPc, Admitted(r), Goto(r, pc)
      PROVE  Guarded'
    BY <1>1, <1>4, GotoMoves, AdmittedMove DEF TypeInv
<1>5. ASSUME NEW pc \in RequestPc, NEW e \in DOMAIN enquiries, Admitted(r), GotoWith(r, pc, e)
      PROVE  Guarded'
    BY <1>1, <1>5, EnquiryIndex, GotoWithMoves, AdmittedMove DEF TypeInv
<1>6. CASE ReadKey(r) \/ Complete(r)
    BY <1>2, <1>3, <1>6 DEF ReadKey, Complete, Guarded
<1>7. CASE CheckEnabled(r) \/ FindContact(r) \/ CreateContact(r)
    BY <1>4, <1>7 DEF CheckEnabled, FindContact, CreateContact, RequestPc, At, Admitted
<1>8. CASE FindActive(r) \/ FindClosed(r)
    BY <1>4, <1>5, <1>8 DEF FindActive, FindClosed, Open, EnquiriesOf, RequestPc, At, Admitted
<1>9. CASE StoreForAppend(r) \/ StoreForReopen(r) \/ StoreForQualification(r)
    BY <1>2, <1>4, <1>9
       DEF StoreForAppend, StoreForReopen, StoreForQualification, Insert, RequestPc, At, Admitted
<1>10. CASE AppendMessage(r) \/ ReopenMessage(r) \/ AddJob(r) \/ Stamp(r)
    BY <1>4, <1>10 DEF AppendMessage, ReopenMessage, AddJob, Stamp, RequestPc, At, Admitted
<1>q. QED
    BY <1>6, <1>7, <1>8, <1>9, <1>10 DEF Serve

(* The claim succeeds for one request: the key's uniqueness. *)
LEMMA ClaimGuarded ==
    ASSUME TypeInv, Guarded, NEW r \in Requests, ClaimKey(r)
    PROVE  Guarded'
<1>1. Msg(r) \in Messages /\ expired' = expired /\ budget' = budget
    BY DEF ClaimKey, TypeInv, Busy, At
<1>2. CASE key[Msg(r)] # "none"
    BY <1>1, <1>2, ReturnMoves, AdmittedMove DEF ClaimKey, TypeInv, Outside
<1>3. CASE key[Msg(r)] = "none"
    <2>1. Moved(r, "toggle", Msg(r))
        BY <1>3, GotoMoves DEF ClaimKey, TypeInv, RequestPc
    <2>2. key'[Msg(r)] = "PROCESSING" /\ \A n \in Messages : key[n] # "none" => key'[n] # "none"
        BY <1>1, <1>3 DEF ClaimKey, TypeInv, TypeOK
    <2>3. ASSUME NEW s \in Requests \ {r}, Admitted(s)'
          PROVE  Admitted(s) /\ Msg(s)' = Msg(s) /\ Msg(s) \in Messages \ {Msg(r)}
        BY <1>3, <2>1, <2>3 DEF Admitted, Moved, Msg, TypeInv, Busy, Guarded
    <2>4. Msg(r)' = Msg(r)
        BY <2>1 DEF Moved, Msg
    <2>5. \A s \in Requests : Admitted(s)' => key'[Msg(s)'] # "none"
        BY <2>2, <2>3, <2>4 DEF Guarded
    <2>6. OneRequestAdmitted'
        BY <2>3, <2>4 DEF Guarded, OneRequestAdmitted
    <2>q. QED
        BY <1>1, <2>5, <2>6 DEF Guarded
<1>q. QED
    BY <1>2, <1>3

LEMMA SpendOther ==
    ASSUME TypeInv, NEW what \in Limited \ {"expiries"}, Spend(what)
    PROVE  budget'["expiries"] = budget["expiries"]
BY DEF TypeInv, TypeOK, Budgets, Spend, Limited

LEMMA GuardedStep ==
    ASSUME InboundAssumption, TypeInv, Guarded, [Next]_vars
    PROVE  Guarded'
<1>1. ASSUME NEW r \in Requests, Serve(r)
      PROVE  Guarded'
    BY <1>1, ServeGuarded, ClaimGuarded
<1>2. ASSUME NEW r \in Requests, NEW m \in Messages, Deliver(r, m)
      PROVE  Guarded'
    <2>1. Moved(r, "guard", m) /\ key' = key /\ expired' = expired
        BY <1>2, DeliverTypes DEF Deliver
    <2>2. budget'["expiries"] = budget["expiries"]
        BY <1>2, SpendOther DEF Deliver, Limited
    <2>q. QED
        BY <2>1, <2>2, AdmittedMove DEF Outside
<1>3. ASSUME NEW r \in Requests, RequestFails(r)
      PROVE  Guarded'
    <2>1. Moved(r, "idle", NoMessage) /\ key' = key /\ expired' = expired
        BY <1>3, ReturnMoves DEF RequestFails, TypeInv
    <2>2. budget'["expiries"] = budget["expiries"]
        BY <1>3, SpendOther DEF RequestFails, Limited
    <2>q. QED
        BY <2>1, <2>2, AdmittedMove DEF Outside
<1>4. CASE Crash
    <2>1. budget'["expiries"] = budget["expiries"] /\ expired' = expired
        BY <1>4, SpendOther DEF Crash, Limited
    <2>2. \A r \in Requests : ~Admitted(r)'
        BY <1>4 DEF Crash, Idle, Admitted
    <2>q. QED
        BY <2>1, <2>2 DEF Guarded, OneRequestAdmitted
<1>5. ~\E m \in Messages : Expire(m)
    BY DEF Guarded, Expire, Spend
<1>6. ASSUME \/ \E m \in Messages : \/ Qualify(m) \/ HandleQualified(m)
                                    \/ JobFails(m) \/ SettleFails(m) \/ HandlerFails(m)
             \/ Staff
             \/ UNCHANGED vars
      PROVE  Guarded'
    <2>1. request' = request /\ key' = key /\ expired' = expired
        BY <1>6 DEF Qualify, StartQualify, Settle, Finish, Review, HandleQualified, FindOpen,
                    AppendQualified, CreateQualified, JobFails, SettleFails, HandlerFails, Staff,
                    CheckNoOpenEnquiry, Create, Close, Reopen, Toggle, web, vars
    <2>2. budget'["expiries"] = budget["expiries"]
        BY <1>6, SpendOther
           DEF Qualify, StartQualify, Settle, Finish, Review, HandleQualified, FindOpen,
               AppendQualified, CreateQualified, JobFails, SettleFails, HandlerFails, Staff,
               CheckNoOpenEnquiry, Create, Close, Reopen, Toggle, Limited, vars
    <2>q. QED
        BY <2>1, <2>2 DEF Guarded, OneRequestAdmitted, Admitted, Msg
<1>q. QED
    BY <1>1, <1>2, <1>3, <1>4, <1>5, <1>6 DEF Next, Fault

(* IdempotencyGuard and the uniqueness of IdempotencyKey: however many     *)
(* requests, one is admitted with a message, unless its key expires.       *)
THEOREM OneAdmitted ==
    ASSUME Budget["expiries"] = 0
    PROVE  Spec => []OneRequestAdmitted
<1>1. Init => TypeInv /\ Guarded
    BY InboundAssumption, TypesInit DEF Init, Guarded, OneRequestAdmitted, Admitted, Idle
<1>2. TypeInv /\ Guarded /\ [Next]_vars => (TypeInv /\ Guarded)'
    BY InboundAssumption, TypesStep, GuardedStep
<1>3. Guarded => OneRequestAdmitted
    BY DEF Guarded
<1>q. QED
    BY <1>1, <1>2, <1>3, PTL DEF Spec

-----------------------------------------------------------------------------
(* Nothing stored is lost, while nothing fails or restarts.                *)

Placed(m) == threads[m] # <<>> \/ SetAside(m) \/ OnItsWay(m)

(* Before a message is classified it has no result; with the result comes  *)
(* a filing; and the catch of qualify is not reached.                      *)
Undecided == \A m \in Messages : job[m].pc \in {"none", "waiting", "classify"} => m \notin result
Decided == \A m \in Messages : job[m].pc = "finish" => row[m] \in Final
Faultless ==
    /\ budget["faults"] = 0 /\ budget["crashes"] = 0
    /\ \A m \in Messages : job[m].pc # "review"

Whole == Faultless /\ Undecided /\ Decided /\ NothingLost

LEMMA PlacedKept ==
    ASSUME NEW n \in Messages, Placed(n),
           row'[n] = row[n], threads'[n] = threads[n], job'[n] = job[n], handler'[n] = handler[n],
           \A s \in Requests : Carries(s) /\ Msg(s) = n => Carries(s)' /\ Msg(s)' = n
    PROVE  Placed(n)'
BY DEF Placed, SetAside, OnItsWay, Working, Carries, Carrying

(* A step about one message, which places it. *)
LEMMA WholeStep ==
    ASSUME TypeInv, Whole, NEW m \in Messages, Placed(m)',
           \A n \in Messages \ {m} : /\ row'[n] = row[n] /\ threads'[n] = threads[n]
                                     /\ job'[n] = job[n] /\ handler'[n] = handler[n],
           \A n \in Messages \ {m} : n \in result' <=> n \in result,
           \A s \in Requests : Carries(s) /\ Msg(s) # m => Carries(s)' /\ Msg(s)' = Msg(s),
           job'[m].pc \in {"none", "waiting", "classify"} => m \notin result',
           job'[m].pc = "finish" => row'[m] \in Final,
           job'[m].pc # "review",
           budget' = budget
    PROVE  Whole'
<1>1. \A n \in Messages \ {m} : row'[n] # "NONE" => Placed(n)'
    BY PlacedKept DEF Whole, NothingLost, Placed
<1>2. NothingLost'
    BY <1>1 DEF NothingLost, Placed
<1>3. Undecided' /\ Decided' /\ Faultless'
    BY DEF Whole, Undecided, Decided, Faultless
<1>q. QED
    BY <1>2, <1>3 DEF Whole

(* A step that stores nothing and takes no message out of a hand. *)
LEMMA WholeUntouched ==
    ASSUME TypeInv, Whole, UNCHANGED <<row, threads, job, handler, result>>,
           \A s \in Requests : Carries(s) => Carries(s)' /\ Msg(s)' = Msg(s),
           budget'["faults"] = 0, budget'["crashes"] = 0
    PROVE  Whole'
<1>1. \A n \in Messages : row'[n] # "NONE" => Placed(n)'
    BY PlacedKept DEF Whole, NothingLost, Placed
<1>2. NothingLost'
    BY <1>1 DEF NothingLost, Placed
<1>3. Undecided' /\ Decided' /\ Faultless'
    BY DEF Whole, Undecided, Decided, Faultless
<1>q. QED
    BY <1>2, <1>3 DEF Whole

LEMMA AskingWhole ==
    ASSUME TypeInv, Whole, NEW r \in Requests,
           ReadKey(r) \/ ClaimKey(r) \/ CheckEnabled(r) \/ FindContact(r)
             \/ CreateContact(r) \/ FindActive(r) \/ FindClosed(r) \/ Stamp(r) \/ Complete(r)
    PROVE  Whole'
<1>1. UNCHANGED <<row, threads, job, handler, result, budget>> /\ ~Carries(r)
    BY DEF ReadKey, ClaimKey, CheckEnabled, FindContact, CreateContact, FindActive,
           FindClosed, Stamp, Complete, store, At, Carries, Carrying
<1>2. \A s \in Requests \ {r} : request'[s] = request[s]
    BY DEF ReadKey, ClaimKey, CheckEnabled, FindContact, CreateContact, FindActive,
           FindClosed, Stamp, Complete, Goto, GotoWith, Return, TypeInv, TypeOK
<1>3. \A s \in Requests : Carries(s) => Carries(s)' /\ Msg(s)' = Msg(s)
    BY <1>1, <1>2 DEF Carries, Msg
<1>q. QED
    BY <1>1, <1>3, WholeUntouched DEF Whole, Faultless

LEMMA StoringWhole ==
    ASSUME TypeInv, Safe, Whole, NEW r \in Requests,
           StoreForAppend(r) \/ StoreForReopen(r) \/ StoreForQualification(r)
    PROVE  Whole'
<1>1. Msg(r) \in Messages /\ ~Carries(r)
    BY DEF StoreForAppend, StoreForReopen, StoreForQualification, TypeInv, Busy, At, Carries,
           Carrying
<1>2. UNCHANGED <<threads, job, handler, result, budget>>
    BY DEF StoreForAppend, StoreForReopen, StoreForQualification
<1>3. PICK status \in RowStatus \ {"NONE"}, pc \in Carrying : Insert(r, status, pc)
    BY DEF StoreForAppend, StoreForReopen, StoreForQualification, RowStatus, Carrying
<1>4. \A s \in Requests \ {r} : request'[s] = request[s]
    BY <1>3 DEF Insert, Goto, Return, TypeInv, TypeOK
<1>5. \A s \in Requests : Carries(s) => Carries(s)' /\ Msg(s)' = Msg(s)
    BY <1>1, <1>4 DEF Carries, Msg
<1>6. CASE row[Msg(r)] # "NONE"
    BY <1>2, <1>3, <1>5, <1>6, WholeUntouched DEF Whole, Faultless, Insert
<1>7. CASE row[Msg(r)] = "NONE"
    <2>1. Moved(r, pc, Msg(r))
        BY <1>3, <1>7, GotoMoves DEF Insert, TypeInv, Carrying, RequestPc
    <2>2. PICK m : m = Msg(r)
        OBVIOUS
    <2>3. Placed(m)'
        BY <2>1, <2>2 DEF Placed, OnItsWay, Moved, Msg, Carrying
    <2>4. \A n \in Messages \ {m} : row'[n] = row[n]
        BY <1>3, <1>7, <2>2 DEF Insert, TypeInv, TypeOK
    <2>5. job[m].pc = "none"
        BY <1>1, <1>7, <2>2 DEF Safe, OneHand, Untouched
    <2>q. QED
        BY <1>1, <1>2, <1>5, <2>2, <2>3, <2>4, <2>5, WholeStep DEF Whole, Undecided
<1>q. QED
    BY <1>6, <1>7

LEMMA ThreadingWhole ==
    ASSUME TypeInv, Safe, Whole, NEW r \in Requests, AppendMessage(r) \/ ReopenMessage(r)
    PROVE  Whole'
<1>1. PICK m : m = Msg(r)
    OBVIOUS
<1>2. PICK e : e = request[r].enquiry
    OBVIOUS
<1>3. m \in Messages /\ Carries(r) /\ Goto(r, "stamp") /\ e \in Nat /\ Thread(m, e)
    BY <1>1, <1>2 DEF AppendMessage, ReopenMessage, TypeInv, TypeOK, Busy, At, Carries, Carrying
<1>4. threads'[m] = Append(threads[m], e) /\ \A n \in Messages \ {m} : threads'[n] = threads[n]
    BY <1>3, ThreadAppends DEF TypeInv
<1>5. threads[m] = <<>> /\ job[m].pc = "none"
    BY <1>1, <1>3 DEF Safe, OneHand, CarrierAlone
<1>6. Placed(m)'
    BY <1>3, <1>4, <1>5 DEF Placed
<1>7. UNCHANGED <<row, job, handler, result, budget>>
    BY DEF AppendMessage, ReopenMessage
<1>8. \A s \in Requests : Carries(s) /\ Msg(s) # m => Carries(s)' /\ Msg(s)' = Msg(s)
    BY <1>1, <1>3 DEF Goto, TypeInv, TypeOK, Carries, Msg
<1>q. QED
    BY <1>3, <1>4, <1>5, <1>6, <1>7, <1>8, WholeStep DEF Whole, Undecided

LEMMA AddJobWhole ==
    ASSUME TypeInv, Safe, Whole, NEW r \in Requests, AddJob(r)
    PROVE  Whole'
<1>1. PICK m : m = Msg(r)
    OBVIOUS
<1>2. m \in Messages /\ Carries(r) /\ Goto(r, "stamp")
    BY <1>1 DEF AddJob, TypeInv, Busy, At, Carries, Carrying
<1>3. job'[m].pc = "waiting" /\ \A n \in Messages \ {m} : job'[n] = job[n]
    BY <1>1, <1>2 DEF AddJob, TypeInv, TypeOK
<1>4. job[m].pc = "none"
    BY <1>1, <1>2 DEF Safe, OneHand, CarrierAlone
<1>5. Placed(m)'
    BY <1>3 DEF Placed, OnItsWay
<1>6. UNCHANGED <<row, threads, handler, result, budget>>
    BY DEF AddJob, store
<1>7. \A s \in Requests : Carries(s) /\ Msg(s) # m => Carries(s)' /\ Msg(s)' = Msg(s)
    BY <1>1, <1>2 DEF Goto, TypeInv, TypeOK, Carries, Msg
<1>q. QED
    BY <1>2, <1>3, <1>4, <1>5, <1>6, <1>7, WholeStep DEF Whole, Undecided

LEMMA WorkerWhole ==
    ASSUME TypeInv, Safe, Whole, NEW m \in Messages, Qualify(m)
    PROVE  Whole'
<1>1. OnlyJob(m)
    BY WorkerMoves
<1>2. \A s \in Requests : Carries(s) => Carries(s)' /\ Msg(s)' = Msg(s)
    BY <1>1 DEF OnlyJob, Carries, Msg
<1>3. budget' = budget /\ \A n \in Messages \ {m} : n \in result' <=> n \in result
    BY DEF Qualify, StartQualify, Settle, Finish, Review, store
<1>4. CASE StartQualify(m)
    <2>1. m \notin result /\ result' = result
        BY <1>4 DEF StartQualify, Whole, Undecided
    <2>2. job'[m].pc = "classify"
        BY <1>4, <2>1, GoOnMoves DEF StartQualify, AlreadyFinal, TypeInv, JobPc
    <2>3. Placed(m)'
        BY <2>2 DEF Placed, OnItsWay, Working
    <2>q. QED
        BY <1>1, <1>2, <1>3, <2>1, <2>2, <2>3, WholeStep DEF OnlyJob
<1>5. CASE Settle(m)
    <2>1. job'[m].pc = "finish" /\ row'[m] \in Final
        BY <1>5, GoOnMoves DEF Settle, TypeInv, TypeOK, JobPc
    <2>2. Placed(m)'
        BY <2>1 DEF Placed, OnItsWay, Working
    <2>q. QED
        BY <1>1, <1>2, <1>3, <2>1, <2>2, WholeStep DEF OnlyJob
<1>6. CASE Finish(m)
    <2>1. job'[m].pc = "completed" /\ row' = row /\ row[m] \in Final
        BY <1>6, GoOnMoves DEF Finish, TypeInv, JobPc, store, Whole, Decided
    <2>2. row[m] = "REAL_ENQUIRY" => handler'[m].pc = "find"
        BY <1>6 DEF Finish, TypeInv, TypeOK
    <2>3. Placed(m)'
        BY <2>1, <2>2 DEF Placed, OnItsWay, SetAside, Final
    <2>q. QED
        BY <1>1, <1>2, <1>3, <2>1, <2>3, WholeStep DEF OnlyJob
<1>7. ~Review(m)
    BY DEF Review, Whole, Faultless
<1>q. QED
    BY <1>4, <1>5, <1>6, <1>7 DEF Qualify

LEMMA HandlerWhole ==
    ASSUME TypeInv, Safe, Whole, NEW m \in Messages, HandleQualified(m)
    PROVE  Whole'
<1>1. UNCHANGED <<row, job, request, result, budget>>
    BY DEF HandleQualified, FindOpen, AppendQualified, CreateQualified, store, web
<1>2. \A s \in Requests : Carries(s) => Carries(s)' /\ Msg(s)' = Msg(s)
    BY <1>1 DEF Carries, Msg
<1>3. \A n \in Messages \ {m} : handler'[n] = handler[n]
    BY DEF HandleQualified, FindOpen, AppendQualified, CreateQualified, TypeInv, TypeOK
<1>4. Placed(m)' /\ \A n \in Messages \ {m} : threads'[n] = threads[n]
    <2>1. CASE FindOpen(m)
        <3>1. threads' = threads /\ handler'[m].pc # "none"
            BY <2>1 DEF FindOpen, store, TypeInv, TypeOK
        <3>q. QED
            BY <3>1 DEF Placed, OnItsWay
    <2>2. ASSUME NEW e \in Nat, Thread(m, e)
          PROVE  Placed(m)' /\ \A n \in Messages \ {m} : threads'[n] = threads[n]
        <3>1. threads[m] \in Seq(Nat)
            BY DEF TypeInv, TypeOK
        <3>2. Append(threads[m], e) # <<>>
            BY <3>1
        <3>q. QED
            BY <2>2, <3>2, ThreadAppends DEF TypeInv, Placed
    <2>3. handler[m].enquiry \in Nat /\ Len(enquiries) + 1 \in Nat
        BY DEF TypeInv, TypeOK
    <2>q. QED
        BY <2>1, <2>2, <2>3 DEF HandleQualified, AppendQualified, CreateQualified
<1>5. /\ job[m].pc \in {"none", "waiting", "classify"} => m \notin result
      /\ job[m].pc = "finish" => row[m] \in Final
      /\ job[m].pc # "review"
    BY DEF Whole, Undecided, Decided, Faultless
<1>q. QED
    BY <1>1, <1>2, <1>3, <1>4, <1>5, WholeStep

LEMMA SpendGood ==
    ASSUME TypeInv, NEW what \in Limited \ {"faults", "crashes"}, Spend(what)
    PROVE  budget'["faults"] = budget["faults"] /\ budget'["crashes"] = budget["crashes"]
BY DEF TypeInv, TypeOK, Budgets, Spend, Limited

LEMMA DeliverWhole ==
    ASSUME InboundAssumption, TypeInv, Whole, NEW r \in Requests, NEW m \in Messages, Deliver(r, m)
    PROVE  Whole'
<1>1. Moved(r, "guard", m) /\ ~Carries(r)
    BY DeliverTypes DEF Deliver, At, Carries, Carrying
<1>2. UNCHANGED <<row, threads, job, handler, result>>
    BY DEF Deliver, store
<1>3. \A s \in Requests : Carries(s) => Carries(s)' /\ Msg(s)' = Msg(s)
    BY <1>1 DEF Moved, Carries, Msg
<1>4. budget'["faults"] = 0 /\ budget'["crashes"] = 0
    BY SpendGood DEF Deliver, Limited, Whole, Faultless
<1>q. QED
    BY <1>2, <1>3, <1>4, WholeUntouched

LEMMA OutsideWhole ==
    ASSUME TypeInv, Whole, Staff \/ (\E m \in Messages : Expire(m)) \/ UNCHANGED vars
    PROVE  Whole'
<1>1. UNCHANGED <<row, threads, job, handler, result, request>>
    BY DEF Staff, CheckNoOpenEnquiry, Create, Close, Reopen, Toggle, Expire, store, web, vars
<1>2. budget'["faults"] = 0 /\ budget'["crashes"] = 0
    BY SpendGood DEF Staff, CheckNoOpenEnquiry, Create, Close, Reopen, Toggle, Expire, Limited,
                     vars, Whole, Faultless
<1>3. \A s \in Requests : Carries(s) => Carries(s)' /\ Msg(s)' = Msg(s)
    BY <1>1 DEF Carries, Msg
<1>q. QED
    BY <1>1, <1>2, <1>3, WholeUntouched

LEMMA WholeNext ==
    ASSUME InboundAssumption, TypeInv, Safe, Whole, [Next]_vars
    PROVE  Whole'
<1>1. ~Fault
    BY DEF Fault, RequestFails, JobFails, SettleFails, HandlerFails, Crash, Spend, Whole, Faultless
<1>2. ASSUME NEW r \in Requests, Serve(r)
      PROVE  Whole'
    BY <1>2, AskingWhole, StoringWhole, ThreadingWhole, AddJobWhole DEF Serve
<1>q. QED
    BY <1>1, <1>2, WorkerWhole, HandlerWhole, DeliverWhole, OutsideWhole DEF Next

(* ingest, qualify and handleQualified hand a message over without letting *)
(* go of it: only a fault or a restart can lose one that is stored.        *)
THEOREM NothingIsLost ==
    ASSUME Budget["faults"] = 0, Budget["crashes"] = 0
    PROVE  Spec => []NothingLost
<1>1. Init => Whole
    <2>1. ASSUME Init PROVE Whole
        <3>1. \A m \in Messages : row[m] = "NONE" /\ job[m].pc = "none" /\ m \notin result
            BY <2>1 DEF Init, NoJob
        <3>2. budget = Budget
            BY <2>1 DEF Init
        <3>q. QED
            BY <3>1, <3>2 DEF Whole, Faultless, Undecided, Decided, NothingLost
    <2>q. QED
        BY <2>1
<1>2. TypeInv /\ Safe /\ Whole /\ [Next]_vars => Whole'
    BY InboundAssumption, WholeNext
<1>3. Whole => NothingLost
    BY DEF Whole
<1>q. QED
    BY <1>1, <1>2, <1>3, SpecSafe, PTL DEF Spec

-----------------------------------------------------------------------------
(* The inbound path keeps the promise of Intake.                           *)

Standing == [m \in Messages |-> StandingOf(row[m])]
Owners == [e \in DOMAIN enquiries |-> enquiries[e].contact]

(* Enquiry e is one of the sender of m. *)
Own(m, e) == e \in DOMAIN enquiries /\ enquiries[e].contact = From[m]

(* A request that has found an enquiry has one of its sender, and one that *)
(* is about to thread or to queue a message has given its row the status   *)
(* that this takes.                                                        *)
Honest(r) ==
    /\ request[r].pc \in {"append", "reopen", "thread", "rethread"}
          => Own(Msg(r), request[r].enquiry)
    /\ request[r].pc \in {"thread", "rethread"} => row[Msg(r)] = "REAL_ENQUIRY"
    /\ request[r].pc = "add" => row[Msg(r)] = "PENDING"

(* The handler has a real message, and an enquiry of its sender; and a     *)
(* message in the queue that is filed has its result.                      *)
Handled(m) ==
    /\ handler[m].pc # "none" => row[m] = "REAL_ENQUIRY"
    /\ handler[m].pc = "append" => Own(m, handler[m].enquiry)
    /\ InQueue(m) /\ row[m] \in Final => m \in result

Kept == (\A r \in Requests : Honest(r)) /\ (\A m \in Messages : Handled(m))

(* An enquiry stays, with its customer. *)
EnquiriesStay == \A e \in DOMAIN enquiries : /\ e \in DOMAIN enquiries'
                                             /\ enquiries'[e].contact = enquiries[e].contact

LEMMA SetStays ==
    ASSUME TypeOK, NEW e, NEW st, enquiries' = [enquiries EXCEPT ![e].state = st]
    PROVE  EnquiriesStay /\ Owners' = Owners
<1>1. enquiries \in [1 .. Len(enquiries) -> EnquiryRow]
    BY DEF TypeOK
<1>2. DOMAIN enquiries' = DOMAIN enquiries
    BY <1>1
<1>3. \A i \in DOMAIN enquiries : enquiries'[i].contact = enquiries[i].contact
    BY <1>1 DEF EnquiryRow
<1>q. QED
    BY <1>2, <1>3 DEF EnquiriesStay, Owners

LEMMA AppendStays ==
    ASSUME TypeOK, NEW k \in Contacts, enquiries' = Append(enquiries, NewEnquiry(k))
    PROVE  /\ EnquiriesStay
           /\ Owners' = Append(Owners, k)
           /\ Len(Owners) = Len(enquiries)
<1>1. enquiries \in Seq(EnquiryRow) /\ Len(enquiries) \in Nat
    BY DEF TypeOK
<1>2. Owners \in [1 .. Len(enquiries) -> Contacts]
    <2>1. DOMAIN enquiries = 1 .. Len(enquiries)
        BY <1>1
    <2>2. \A e \in 1 .. Len(enquiries) : enquiries[e].contact \in Contacts
        <3>1. \A e \in 1 .. Len(enquiries) : enquiries[e] \in EnquiryRow
            BY <1>1
        <3>q. QED
            BY <3>1 DEF EnquiryRow
    <2>q. QED
        BY <2>1, <2>2 DEF Owners
<1>3. Owners \in Seq(Contacts) /\ Len(Owners) = Len(enquiries)
    BY <1>1, <1>2
<1>4. /\ DOMAIN enquiries' = 1 .. Len(enquiries) + 1
      /\ \A e \in 1 .. Len(enquiries) : enquiries'[e] = enquiries[e]
      /\ enquiries'[Len(enquiries) + 1] = NewEnquiry(k)
    BY <1>1 DEF NewEnquiry, EnquiryRow
<1>5. EnquiriesStay
    BY <1>1, <1>4 DEF EnquiriesStay
<1>6. Owners' = [e \in 1 .. Len(enquiries) + 1 |->
                    IF e = Len(enquiries) + 1 THEN k ELSE Owners[e]]
    <2>1. NewEnquiry(k).contact = k
        BY DEF NewEnquiry
    <2>2. \A e \in 1 .. Len(enquiries) + 1 :
             enquiries'[e].contact = IF e = Len(enquiries) + 1 THEN k ELSE Owners[e]
        BY <1>1, <1>4, <2>1 DEF Owners
    <2>q. QED
        BY <1>4, <2>2 DEF Owners
<1>7. Append(Owners, k) = [e \in 1 .. Len(enquiries) + 1 |->
                              IF e = Len(enquiries) + 1 THEN k ELSE Owners[e]]
    <2> DEFINE new == Append(Owners, k)
    <2>1. /\ new \in Seq(Contacts) /\ Len(new) = Len(enquiries) + 1
          /\ \A e \in 1 .. Len(enquiries) : new[e] = Owners[e]
          /\ new[Len(enquiries) + 1] = k
        BY <1>1, <1>3
    <2> HIDE DEF new
    <2>2. new = [e \in 1 .. Len(enquiries) + 1 |-> new[e]]
        BY <2>1
    <2>3. \A e \in 1 .. Len(enquiries) + 1 :
             new[e] = IF e = Len(enquiries) + 1 THEN k ELSE Owners[e]
        BY <1>1, <2>1
    <2>4. new = [e \in 1 .. Len(enquiries) + 1 |->
                    IF e = Len(enquiries) + 1 THEN k ELSE Owners[e]]
        BY <2>2, <2>3
    <2>q. QED
        BY <2>4 DEF new
<1>q. QED
    BY <1>3, <1>5, <1>6, <1>7

LEMMA SameStays ==
    ASSUME enquiries' = enquiries
    PROVE  EnquiriesStay /\ Owners' = Owners
BY DEF EnquiriesStay, Owners

(* What a step that leaves a request, or a message, alone leaves true.     *)
LEMMA HonestStays ==
    ASSUME EnquiriesStay, NEW r \in Requests, Honest(r), request'[r] = request[r],
           Carries(r) => row'[Msg(r)] = row[Msg(r)]
    PROVE  Honest(r)'
BY DEF EnquiriesStay, Honest, Own, Carries, Carrying, Msg

LEMMA HonestElsewhere ==
    ASSUME NEW r \in Requests,
           request'[r].pc \notin {"append", "reopen", "thread", "rethread", "add"}
    PROVE  Honest(r)'
BY DEF Honest

LEMMA HandledStays ==
    ASSUME EnquiriesStay, NEW m \in Messages, Handled(m), handler'[m] = handler[m],
           row'[m] = row[m], InQueue(m)' => InQueue(m), m \in result => m \in result'
    PROVE  Handled(m)'
BY DEF EnquiriesStay, Handled, Own

(* A step of one request that touches neither rows, jobs nor handlers.     *)
LEMMA KeptByMove ==
    ASSUME Kept, EnquiriesStay, NEW r \in Requests, Honest(r)',
           \A s \in Requests \ {r} : request'[s] = request[s],
           UNCHANGED <<row, result, job, handler>>
    PROVE  Kept'
<1>1. \A s \in Requests \ {r} : Honest(s)'
    BY HonestStays DEF Kept
<1>2. \A m \in Messages : Handled(m)'
    BY HandledStays DEF Kept, InQueue
<1>q. QED
    BY <1>1, <1>2 DEF Kept

LEMMA AskingKept ==
    ASSUME TypeInv, Kept, NEW r \in Requests,
           ReadKey(r) \/ ClaimKey(r) \/ CheckEnabled(r) \/ FindContact(r)
             \/ CreateContact(r) \/ Stamp(r) \/ Complete(r) \/ RequestFails(r)
    PROVE  Kept'
<1>1. UNCHANGED <<row, result, job, handler, enquiries>>
    BY DEF ReadKey, ClaimKey, CheckEnabled, FindContact, CreateContact, Stamp, Complete,
           RequestFails, store
<1> DEFINE Elsewhere == RequestPc \ {"append", "reopen", "thread", "rethread", "add"}
<1>2. ASSUME NEW pc \in Elsewhere, NEW m, Moved(r, pc, m) PROVE Kept'
    <2>1. Honest(r)'
        BY <1>2, HonestElsewhere DEF Moved
    <2>q. QED
        BY <1>1, <1>2, <2>1, SameStays, KeptByMove DEF Moved
<1>3. ASSUME NEW pc \in Elsewhere, Goto(r, pc) PROVE Kept'
    BY <1>2, <1>3, GotoMoves DEF TypeInv
<1>4. CASE Return(r)
    BY <1>2, <1>4, ReturnMoves DEF TypeInv, RequestPc
<1>5. \A pc \in {"idle", "claim", "toggle", "resolve", "contact", "active", "queue", "complete"} :
         pc \in Elsewhere
    BY DEF RequestPc
<1> HIDE DEF Elsewhere
<1>6. CASE ReadKey(r) \/ ClaimKey(r) \/ Complete(r) \/ RequestFails(r)
    BY <1>6, <1>3, <1>4, <1>5 DEF ReadKey, ClaimKey, Complete, RequestFails
<1>7. CASE CheckEnabled(r) \/ FindContact(r) \/ CreateContact(r) \/ Stamp(r)
    BY <1>7, <1>3, <1>5 DEF CheckEnabled, FindContact, CreateContact, Stamp
<1>q. QED
    BY <1>6, <1>7

(* The searches find enquiries of the sender. *)
LEMMA FindingKept ==
    ASSUME TypeInv, Kept, NEW r \in Requests, FindActive(r) \/ FindClosed(r)
    PROVE  Kept'
<1>1. UNCHANGED <<row, result, job, handler, enquiries>>
    BY DEF FindActive, FindClosed, store
<1>2. ASSUME NEW pc \in {"closed", "queue"}, Goto(r, pc) PROVE Kept'
    <2>1. Moved(r, pc, Msg(r))
        BY <1>2, GotoMoves DEF TypeInv, RequestPc
    <2>2. Honest(r)'
        BY <2>1, HonestElsewhere DEF Moved
    <2>q. QED
        BY <1>1, <2>1, <2>2, SameStays, KeptByMove DEF Moved
<1>3. ASSUME NEW pc \in {"append", "reopen"}, NEW e \in EnquiriesOf(Sender(r)), GotoWith(r, pc, e)
      PROVE  Kept'
    <2>1. e \in DOMAIN enquiries /\ enquiries[e].contact = From[Msg(r)]
        BY DEF EnquiriesOf, Sender
    <2>2. Moved(r, pc, Msg(r))
        BY <1>3, <2>1, EnquiryIndex, GotoWithMoves DEF TypeInv, RequestPc
    <2>3. request'[r].enquiry = e
        BY <1>3 DEF GotoWith, TypeInv, TypeOK
    <2>4. Honest(r)'
        BY <1>1, <2>1, <2>2, <2>3 DEF Honest, Own, Moved, Msg
    <2>q. QED
        BY <1>1, <2>2, <2>4, SameStays, KeptByMove DEF Moved
<1>q. QED
    BY <1>2, <1>3 DEF FindActive, FindClosed, Open

LEMMA StoringKept ==
    ASSUME TypeInv, Safe, Kept, NEW r \in Requests,
           StoreForAppend(r) \/ StoreForReopen(r) \/ StoreForQualification(r)
    PROVE  Kept'
<1>1. UNCHANGED <<result, job, handler, enquiries>> /\ EnquiriesStay
    BY SameStays DEF StoreForAppend, StoreForReopen, StoreForQualification
<1>2. Msg(r) \in Messages
    BY DEF StoreForAppend, StoreForReopen, StoreForQualification, TypeInv, Busy, At
<1>3. PICK status \in RowStatus, pc \in Carrying :
          /\ Insert(r, status, pc)
          /\ pc = "add" => status = "PENDING"
          /\ pc # "add" => status = "REAL_ENQUIRY" /\ request[r].pc \in {"append", "reopen"}
    BY DEF StoreForAppend, StoreForReopen, StoreForQualification, RowStatus, Carrying, At
<1>4. CASE row[Msg(r)] # "NONE"
    <2>1. Moved(r, "idle", NoMessage) /\ row' = row
        BY <1>3, <1>4, ReturnMoves DEF Insert, TypeInv
    <2>2. Honest(r)'
        BY <2>1, HonestElsewhere DEF Moved
    <2>q. QED
        BY <1>1, <2>1, <2>2, KeptByMove DEF Moved
<1>5. CASE row[Msg(r)] = "NONE"
    <2>1. Moved(r, pc, Msg(r)) /\ request'[r].enquiry = request[r].enquiry
        BY <1>3, <1>5, GotoMoves DEF Insert, Goto, TypeInv, TypeOK, Carrying, RequestPc
    <2>2. row'[Msg(r)] = status /\ \A n \in Messages \ {Msg(r)} : row'[n] = row[n]
        BY <1>2, <1>3, <1>5 DEF Insert, TypeInv, TypeOK
    <2>3. /\ job[Msg(r)].pc = "none" /\ handler[Msg(r)].pc = "none"
          /\ \A s \in Requests : Carries(s) => Msg(s) # Msg(r)
        BY <1>2, <1>5 DEF Safe, OneHand, Untouched, CarrierAlone
    <2>4. Honest(r)'
        BY <1>1, <1>3, <2>1, <2>2 DEF Kept, Honest, Own, Moved, Msg, Carrying
    <2>5. ASSUME NEW s \in Requests \ {r} PROVE Honest(s)'
        <3>1. Carries(s) => Msg(s) \in Messages \ {Msg(r)}
            BY <2>3 DEF TypeInv, Busy, Carries, Carrying
        <3>q. QED
            BY <1>1, <2>1, <2>2, <3>1, HonestStays DEF Kept, Moved
    <2>6. ASSUME NEW n \in Messages \ {Msg(r)} PROVE Handled(n)'
        BY <1>1, <2>2, HandledStays DEF Kept, InQueue
    <2>7. \A n \in Messages : Handled(n)'
        <3>1. PICK m : m = Msg(r)
            OBVIOUS
        <3>2. Handled(m)'
            BY <1>1, <2>3, <3>1 DEF Handled, InQueue
        <3>q. QED
            BY <2>6, <3>1, <3>2
    <2>q. QED
        BY <2>4, <2>5, <2>7 DEF Kept
<1>q. QED
    BY <1>4, <1>5

LEMMA ThreadingKept ==
    ASSUME TypeInv, Kept, NEW r \in Requests, AppendMessage(r) \/ ReopenMessage(r)
    PROVE  Kept' /\ Owners' = Owners
<1>1. UNCHANGED <<row, result, job, handler>> /\ Goto(r, "stamp")
    BY DEF AppendMessage, ReopenMessage
<1>2. \/ enquiries' = enquiries
      \/ \E e : enquiries' = [enquiries EXCEPT ![e].state = "open"]
    BY DEF AppendMessage, ReopenMessage
<1>3. EnquiriesStay /\ Owners' = Owners
    BY <1>2, SameStays, SetStays DEF TypeInv
<1>4. Moved(r, "stamp", Msg(r))
    BY <1>1, GotoMoves DEF TypeInv, RequestPc
<1>5. Honest(r)'
    BY <1>4, HonestElsewhere DEF Moved
<1>q. QED
    BY <1>1, <1>3, <1>4, <1>5, KeptByMove DEF Moved

LEMMA AddJobKept ==
    ASSUME TypeInv, Safe, Kept, NEW r \in Requests, AddJob(r)
    PROVE  Kept'
<1>1. UNCHANGED <<row, result, enquiries, handler>> /\ EnquiriesStay
    BY SameStays DEF AddJob, store
<1>2. PICK m : m = Msg(r)
    OBVIOUS
<1>3. m \in Messages /\ row[m] = "PENDING"
    BY <1>2 DEF AddJob, TypeInv, Busy, At, Kept, Honest
<1>4. Moved(r, "stamp", Msg(r))
    BY GotoMoves DEF AddJob, TypeInv, RequestPc
<1>5. \A n \in Messages \ {m} : job'[n] = job[n]
    BY <1>2, <1>3 DEF AddJob, TypeInv, TypeOK
<1>6. \A s \in Requests : Honest(s)'
    BY <1>1, <1>4, HonestElsewhere, HonestStays DEF Kept, Moved
<1>7. \A n \in Messages \ {m} : Handled(n)'
    BY <1>1, <1>5, HandledStays DEF Kept, InQueue
<1>8. Handled(m)'
    BY <1>1, <1>3 DEF Kept, Handled, Own, Final
<1>q. QED
    BY <1>6, <1>7, <1>8 DEF Kept

(* The worker. *)
LEMMA WorkerKept ==
    ASSUME TypeInv, Safe, Kept, NEW m \in Messages, Qualify(m) \/ JobFails(m) \/ SettleFails(m)
    PROVE  Kept'
<1>1. OnlyJob(m) /\ UNCHANGED <<enquiries>> /\ EnquiriesStay
    BY WorkerMoves, SameStays
       DEF Qualify, StartQualify, Settle, Finish, Review, JobFails, SettleFails, store
<1>2. InQueue(m) /\ job[m].pc # "none" /\ handler[m].pc = "none"
    BY DEF Qualify, StartQualify, Settle, Finish, Review, JobFails, SettleFails, InQueue,
           Safe, OneHand, WorkerAlone
<1>3. \A n \in Messages : n \in result => n \in result'
    BY DEF Qualify, StartQualify, Settle, Finish, Review, JobFails, SettleFails, store
<1>4. \A s \in Requests : Honest(s)'
    <2>1. ASSUME NEW s \in Requests PROVE Honest(s)'
        <3>1. Carries(s) => Msg(s) \in Messages \ {m}
            BY <1>2 DEF Safe, OneHand, CarrierAlone, TypeInv, Busy, Carries, Carrying
        <3>q. QED
            BY <1>1, <3>1, HonestStays DEF OnlyJob, Kept
    <2>q. QED
        BY <2>1
<1>5. \A n \in Messages \ {m} : Handled(n)'
    BY <1>1, <1>3, HandledStays DEF Kept, OnlyJob, InQueue
<1>6. Handled(m)'
    <2>1. CASE StartQualify(m)
        <3>1. row'[m] \in Final /\ InQueue(m)' => m \in result'
            <4>1. CASE AlreadyFinal(m)
                BY <2>1, <4>1 DEF StartQualify, AlreadyFinal
            <4>2. CASE ~AlreadyFinal(m)
                <5>1. row'[m] = "PROCESSING"
                    BY <2>1, <4>2 DEF StartQualify, TypeInv, TypeOK
                <5>q. QED
                    BY <5>1 DEF Final
            <4>q. QED
                BY <4>1, <4>2
        <3>2. handler' = handler
            BY <2>1 DEF StartQualify
        <3>q. QED
            BY <1>2, <3>1, <3>2 DEF Handled
    <2>2. CASE Settle(m)
        <3>1. m \in result' /\ handler' = handler
            BY <2>2 DEF Settle
        <3>q. QED
            BY <1>2, <3>1 DEF Handled
    <2>3. CASE Finish(m)
        <3>1. job'[m].pc = "completed" /\ row' = row
            BY <2>3, GoOnMoves DEF Finish, TypeInv, JobPc, store
        <3>2. /\ handler'[m].pc # "none" => row[m] = "REAL_ENQUIRY"
              /\ handler'[m].pc # "append"
            BY <1>2, <2>3 DEF Finish, TypeInv, TypeOK
        <3>q. QED
            BY <3>1, <3>2 DEF Handled, InQueue
    <2>4. CASE Review(m)
        <3>1. m \in result' /\ handler' = handler
            BY <2>4 DEF Review
        <3>q. QED
            BY <1>2, <3>1 DEF Handled
    <2>5. CASE JobFails(m) \/ SettleFails(m)
        <3>1. UNCHANGED <<row, handler, result>>
            BY <2>5 DEF JobFails, SettleFails, store
        <3>q. QED
            BY <1>2, <3>1 DEF Kept, Handled
    <2>q. QED
        BY <2>1, <2>2, <2>3, <2>4, <2>5 DEF Qualify
<1>q. QED
    BY <1>4, <1>5, <1>6 DEF Kept

(* The handler of the event. *)
LEMMA HandlerKept ==
    ASSUME InboundAssumption, TypeInv, Kept, NEW m \in Messages,
           HandleQualified(m) \/ HandlerFails(m)
    PROVE  Kept'
<1>1. UNCHANGED <<row, job, result, request>>
    BY DEF HandleQualified, FindOpen, AppendQualified, CreateQualified, HandlerFails, store, web
<1>2. EnquiriesStay
    <2>1. CASE CreateQualified(m)
        <3>1. From[m] \in Contacts
            BY DEF InboundAssumption
        <3>q. QED
            BY <2>1, <3>1, AppendStays DEF CreateQualified, TypeInv
    <2>2. CASE FindOpen(m) \/ AppendQualified(m) \/ HandlerFails(m)
        BY <2>2, SameStays DEF FindOpen, AppendQualified, HandlerFails, store
    <2>q. QED
        BY <2>1, <2>2 DEF HandleQualified
<1>3. \A n \in Messages \ {m} : handler'[n] = handler[n]
    BY DEF HandleQualified, FindOpen, AppendQualified, CreateQualified, HandlerFails, TypeInv, TypeOK
<1>4. \A s \in Requests : Honest(s)'
    BY <1>1, <1>2, HonestStays DEF Kept
<1>5. \A n \in Messages \ {m} : Handled(n)'
    BY <1>1, <1>2, <1>3, HandledStays DEF Kept, InQueue
<1>6. Handled(m)'
    <2>1. row[m] = "REAL_ENQUIRY"
        BY DEF Kept, Handled, HandleQualified, FindOpen, AppendQualified, CreateQualified,
               HandlerFails
    <2>2. InQueue(m)' /\ row'[m] \in Final => m \in result'
        BY <1>1 DEF Kept, Handled, InQueue
    <2>3. handler'[m].pc = "append" => Own(m, handler'[m].enquiry)
        <3>1. ASSUME NEW e \in Open(From[m]),
                     handler' = [handler EXCEPT ![m] = [pc |-> "append", enquiry |-> e]]
              PROVE  Own(m, handler'[m].enquiry)
            BY <3>1 DEF Open, EnquiriesOf, Own, TypeInv, TypeOK
        <3>2. \/ handler' = [handler EXCEPT ![m].pc = "create"]
              \/ handler' = [handler EXCEPT ![m] = NoHandler]
              \/ \E e \in Open(From[m]) :
                    handler' = [handler EXCEPT ![m] = [pc |-> "append", enquiry |-> e]]
            BY DEF HandleQualified, FindOpen, AppendQualified, CreateQualified, HandlerFails
        <3>3. CASE handler' = [handler EXCEPT ![m].pc = "create"]
            BY <3>3 DEF TypeInv, TypeOK
        <3>4. CASE handler' = [handler EXCEPT ![m] = NoHandler]
            BY <3>4 DEF TypeInv, TypeOK, NoHandler
        <3>q. QED
            BY <3>1, <3>2, <3>3, <3>4
    <2>4. handler'[m].pc = "append" => enquiries' = enquiries
        <3>1. CASE CreateQualified(m)
            BY <3>1 DEF CreateQualified, TypeInv, TypeOK, NoHandler
        <3>2. CASE FindOpen(m) \/ AppendQualified(m) \/ HandlerFails(m)
            BY <3>2 DEF FindOpen, AppendQualified, HandlerFails, store
        <3>q. QED
            BY <3>1, <3>2 DEF HandleQualified
    <2>q. QED
        BY <1>1, <2>1, <2>2, <2>3, <2>4 DEF Handled, Own
<1>q. QED
    BY <1>4, <1>5, <1>6 DEF Kept

LEMMA DeliverKept ==
    ASSUME InboundAssumption, TypeInv, Kept, NEW r \in Requests, NEW m \in Messages, Deliver(r, m)
    PROVE  Kept'
<1>1. Moved(r, "guard", m)
    BY DeliverTypes
<1>2. UNCHANGED <<row, result, job, handler, enquiries>>
    BY DEF Deliver, store
<1>3. Honest(r)'
    BY <1>1, HonestElsewhere DEF Moved
<1>q. QED
    BY <1>1, <1>2, <1>3, SameStays, KeptByMove DEF Moved

(* Staff close and reopen enquiries, and open new ones. *)
OwnersGrow == Owners' = Owners \/ \E k \in Contacts : Owners' = Append(Owners, k)

LEMMA StaffStays ==
    ASSUME TypeInv, Staff \/ (\E m \in Messages : Expire(m)) \/ UNCHANGED vars
    PROVE  EnquiriesStay /\ OwnersGrow
<1>1. \/ enquiries' = enquiries
      \/ \E e, st : enquiries' = [enquiries EXCEPT ![e].state = st]
      \/ \E k \in Contacts : enquiries' = Append(enquiries, NewEnquiry(k))
    BY DEF Staff, CheckNoOpenEnquiry, Create, Close, Reopen, Toggle, Expire, store, vars
<1>2. ASSUME NEW e, NEW st, enquiries' = [enquiries EXCEPT ![e].state = st]
      PROVE  EnquiriesStay /\ OwnersGrow
    BY <1>2, SetStays DEF TypeInv, OwnersGrow
<1>3. ASSUME NEW k \in Contacts, enquiries' = Append(enquiries, NewEnquiry(k))
      PROVE  EnquiriesStay /\ OwnersGrow
    BY <1>3, AppendStays DEF TypeInv, OwnersGrow
<1>4. CASE enquiries' = enquiries
    BY <1>4, SameStays DEF OwnersGrow
<1>q. QED
    BY <1>1, <1>2, <1>3, <1>4

LEMMA OutsideKept ==
    ASSUME TypeInv, Kept, Staff \/ (\E m \in Messages : Expire(m)) \/ UNCHANGED vars
    PROVE  Kept'
<1>1. UNCHANGED <<row, result, job, handler, request>>
    BY DEF Staff, CheckNoOpenEnquiry, Create, Close, Reopen, Toggle, Expire, store, web, vars
<1>2. EnquiriesStay
    BY StaffStays
<1>q. QED
    BY <1>1, <1>2, HonestStays, HandledStays DEF Kept, InQueue

LEMMA CrashKept ==
    ASSUME TypeInv, Kept, Crash
    PROVE  Kept'
<1>1. UNCHANGED <<row, result, enquiries>>
    BY DEF Crash, store
<1>2. \A s \in Requests : Honest(s)'
    BY HonestElsewhere DEF Crash, Idle
<1>3. \A n \in Messages : InQueue(n)' => InQueue(n)
    BY DEF Crash, TypeInv, TypeOK, InQueue, Working
<1>4. \A n \in Messages : handler'[n].pc = "none"
    BY DEF Crash, NoHandler
<1>5. \A n \in Messages : Handled(n)'
    BY <1>1, <1>3, <1>4 DEF Kept, Handled
<1>q. QED
    BY <1>2, <1>5 DEF Kept

LEMMA KeptStep ==
    ASSUME InboundAssumption, TypeInv, Safe, Kept, [Next]_vars
    PROVE  Kept'
<1>1. ASSUME NEW m \in Messages,
             Qualify(m) \/ HandleQualified(m) \/ Expire(m) \/ \E r \in Requests : Deliver(r, m)
      PROVE  Kept'
    BY <1>1, WorkerKept, HandlerKept, OutsideKept, DeliverKept
<1>2. ASSUME NEW r \in Requests, Serve(r)
      PROVE  Kept'
    BY <1>2, AskingKept, FindingKept, StoringKept, ThreadingKept, AddJobKept DEF Serve
<1>3. ASSUME Fault
      PROVE  Kept'
    BY <1>3, AskingKept, WorkerKept, HandlerKept, CrashKept DEF Fault
<1>q. QED
    BY <1>1, <1>2, <1>3, OutsideKept DEF Next

-----------------------------------------------------------------------------
(* Each step as a step of Intake.                                          *)

Unseen == Promise!Next \/ UNCHANGED <<answer, Standing, Owners, threads>>

(* Writing the status of a row shows as its standing. *)
LEMMA StandingSets ==
    ASSUME TypeOK, NEW m \in Messages, NEW s, row' = [row EXCEPT ![m] = s]
    PROVE  Standing' = [Standing EXCEPT ![m] = StandingOf(s)]
<1>1. /\ row'[m] = s
      /\ \A n \in Messages : n # m => row'[n] = row[n]
    BY DEF TypeOK
<1>2. PICK w : w = StandingOf(s)
    OBVIOUS
<1>3. \A n \in Messages : StandingOf(row'[n]) = IF n = m THEN w ELSE StandingOf(row[n])
    BY <1>1, <1>2
<1>4. Standing' = [n \in Messages |-> IF n = m THEN w ELSE StandingOf(row[n])]
    BY <1>3 DEF Standing
<1>5. [Standing EXCEPT ![m] = w] = [n \in Messages |-> IF n = m THEN w ELSE StandingOf(row[n])]
    BY DEF Standing
<1>q. QED
    BY <1>2, <1>4, <1>5

LEMMA Verdict ==
    /\ \A s \in Final : StandingOf(s) = s
    /\ StandingOf("NONE") = "unknown"
    /\ StandingOf("PENDING") = "received" /\ StandingOf("PROCESSING") = "received"
BY DEF StandingOf, Final

(* The actions of Intake, in the words of this module. *)
LEMMA ToldOf ==
    ASSUME NEW m \in Messages, NEW what \in {"accepted", "skipped"},
           what = "accepted" => Standing[m] # "unknown",
           answer' = [answer EXCEPT ![m] = what],
           UNCHANGED <<Standing, Owners, threads>>
    PROVE  Promise!Next
<1>1. Promise!Tell(m, what)
    BY DEF Promise!Tell, Standing, Owners
<1>q. QED
    BY <1>1 DEF Promise!Next

LEMMA StandsAs ==
    ASSUME NEW m \in Messages, NEW s,
           Standing' = [Standing EXCEPT ![m] = s],
           UNCHANGED <<answer, Owners, threads>>,
           \/ Standing[m] = "unknown" /\ s = "received"
           \/ /\ Standing[m] = "unknown" /\ s = "REAL_ENQUIRY"
              /\ \E e \in DOMAIN enquiries : Own(m, e)
           \/ Standing[m] = "received" /\ s \in Final
    PROVE  Promise!Next
<1>1. Promise!Stand(m, s)
    BY DEF Promise!Stand, Standing, Owners
<1>2. CASE Standing[m] = "unknown" /\ s = "received"
    <2>1. Promise!Receive(m)
        BY <1>1, <1>2 DEF Promise!Receive, Standing
    <2>q. QED
        BY <2>1 DEF Promise!Next
<1>3. CASE Standing[m] = "unknown" /\ s = "REAL_ENQUIRY" /\ \E e \in DOMAIN enquiries : Own(m, e)
    <2>1. PICK e \in DOMAIN enquiries : Own(m, e)
        BY <1>3
    <2>2. Promise!Belongs(m, e) /\ e \in DOMAIN Owners
        BY <2>1 DEF Own, Owners, Promise!Belongs
    <2>3. Promise!Recognise(m)
        BY <1>1, <1>3, <2>2 DEF Promise!Recognise, Standing, Owners
    <2>q. QED
        BY <2>3 DEF Promise!Next
<1>4. CASE Standing[m] = "received" /\ s \in Final
    <2>1. Promise!Judge(m, s) /\ s \in Promise!Verdicts
        BY <1>1, <1>4 DEF Promise!Judge, Standing, Promise!Verdicts, Final
    <2>q. QED
        BY <2>1 DEF Promise!Next
<1>q. QED
    BY <1>2, <1>3, <1>4

LEMMA PlacedAt ==
    ASSUME NEW m \in Messages, NEW e \in DOMAIN enquiries, Own(m, e),
           Standing[m] = "REAL_ENQUIRY", threads[m] = <<>>,
           threads' = [threads EXCEPT ![m] = <<e>>],
           UNCHANGED <<answer, Standing, Owners>>
    PROVE  Promise!Next
<1>1. Promise!Belongs(m, e) /\ e \in DOMAIN Owners
    BY DEF Own, Owners, Promise!Belongs
<1>2. Promise!Unplaced(m)
    BY DEF Promise!Unplaced, Standing
<1>3. Promise!Put(m, e)
    BY DEF Promise!Put, Standing
<1>4. Promise!Place(m, e)
    BY <1>1, <1>2, <1>3 DEF Promise!Place, Owners
<1>q. QED
    BY <1>1, <1>4 DEF Promise!Next, Owners

LEMMA PlacedNew ==
    ASSUME NEW m \in Messages,
           Standing[m] = "REAL_ENQUIRY", threads[m] = <<>>,
           threads' = [threads EXCEPT ![m] = <<Len(Owners) + 1>>],
           Owners' = Append(Owners, From[m]),
           UNCHANGED <<answer, Standing>>
    PROVE  Promise!Next
<1>1. Promise!Unplaced(m)
    BY DEF Promise!Unplaced, Standing
<1>2. Promise!PlaceInNew(m)
    BY <1>1 DEF Promise!PlaceInNew, Promise!Put, Standing, Owners
<1>q. QED
    BY <1>2 DEF Promise!Next

LEMMA OpenedFor ==
    ASSUME NEW k \in Contacts, Owners' = Append(Owners, k),
           UNCHANGED <<answer, Standing, threads>>
    PROVE  Promise!Next
<1>1. Promise!OpenFor(k)
    BY DEF Promise!OpenFor, Standing, Owners
<1>q. QED
    BY <1>1 DEF Promise!Next

(* Before the row there is nothing to see but what a provider is told.     *)
LEMMA AskingShows ==
    ASSUME TypeInv, NEW r \in Requests,
           ReadKey(r) \/ ClaimKey(r) \/ CheckEnabled(r) \/ FindContact(r) \/ CreateContact(r)
             \/ FindActive(r) \/ FindClosed(r) \/ AddJob(r) \/ Complete(r) \/ RequestFails(r)
    PROVE  Unseen
<1>1. UNCHANGED <<row, enquiries, threads>>
    BY DEF ReadKey, ClaimKey, CheckEnabled, FindContact, CreateContact, FindActive, FindClosed,
           AddJob, Complete, RequestFails, store
<1>2. UNCHANGED <<Standing, Owners, threads>>
    BY <1>1 DEF Standing, Owners
<1>3. CASE answer' = answer
    BY <1>2, <1>3 DEF Unseen
<1>4. CASE answer' # answer
    <2>1. Msg(r) \in Messages /\ answer' = [answer EXCEPT ![Msg(r)] = "skipped"]
        BY <1>4 DEF ReadKey, ClaimKey, CheckEnabled, FindContact, CreateContact, FindActive,
                    FindClosed, AddJob, Complete, RequestFails, TypeInv, Busy, At
    <2>q. QED
        BY <1>2, <2>1, ToldOf DEF Unseen
<1>q. QED
    BY <1>3, <1>4

(* The 200 comes after the row. *)
LEMMA StampShows ==
    ASSUME TypeInv, Safe, NEW r \in Requests, Stamp(r)
    PROVE  Unseen
<1>1. Msg(r) \in Messages /\ row[Msg(r)] # "NONE"
    BY DEF Stamp, TypeInv, Busy, At, Safe, Stored, StampStored
<1>2. UNCHANGED <<Standing, Owners, threads>>
    BY DEF Stamp, store, Standing, Owners
<1>3. Standing[Msg(r)] # "unknown"
    BY <1>1, Verdict DEF Standing, TypeInv, TypeOK, RowStatus, Final
<1>q. QED
    BY <1>1, <1>2, <1>3, ToldOf DEF Stamp, Unseen

LEMMA StoringShows ==
    ASSUME TypeInv, Safe, Kept, NEW r \in Requests,
           StoreForAppend(r) \/ StoreForReopen(r) \/ StoreForQualification(r)
    PROVE  Unseen
<1>1. PICK m : m = Msg(r)
    OBVIOUS
<1>2. m \in Messages /\ UNCHANGED <<answer, enquiries, threads>>
    BY <1>1 DEF StoreForAppend, StoreForReopen, StoreForQualification, TypeInv, Busy, At
<1>3. UNCHANGED <<answer, Owners, threads>>
    BY <1>2 DEF Owners
<1>4. CASE row' = row
    BY <1>3, <1>4 DEF Unseen, Standing
<1>5. CASE row' # row
    <2>1. row[m] = "NONE"
        BY <1>1, <1>5 DEF StoreForAppend, StoreForReopen, StoreForQualification, Insert
    <2>2. Standing[m] = "unknown"
        BY <1>2, <2>1, Verdict DEF Standing
    <2>3. CASE StoreForQualification(r)
        <3>1. row' = [row EXCEPT ![m] = "PENDING"]
            BY <1>1, <2>1, <2>3 DEF StoreForQualification, Insert
        <3>2. Standing' = [Standing EXCEPT ![m] = "received"]
            BY <1>2, <3>1, StandingSets, Verdict DEF TypeInv
        <3>q. QED
            BY <1>2, <1>3, <2>2, <3>2, StandsAs DEF Unseen
    <2>4. CASE StoreForAppend(r) \/ StoreForReopen(r)
        <3>1. row' = [row EXCEPT ![m] = "REAL_ENQUIRY"]
            BY <1>1, <2>1, <2>4 DEF StoreForAppend, StoreForReopen, Insert
        <3>2. Standing' = [Standing EXCEPT ![m] = "REAL_ENQUIRY"]
            BY <1>2, <3>1, StandingSets, Verdict DEF TypeInv, Final
        <3>3. Own(m, request[r].enquiry)
            BY <1>1, <2>4 DEF StoreForAppend, StoreForReopen, At, Kept, Honest
        <3>4. \E e \in DOMAIN enquiries : Own(m, e)
            BY <3>3 DEF Own
        <3>q. QED
            BY <1>2, <1>3, <2>2, <3>2, <3>4, StandsAs DEF Unseen
    <2>q. QED
        BY <2>3, <2>4
<1>q. QED
    BY <1>4, <1>5

(* A message that is in no thread is put in one enquiry. *)
LEMMA FirstPlace ==
    ASSUME TypeOK, NEW m \in Messages, NEW e \in Nat, threads[m] = <<>>, Thread(m, e)
    PROVE  threads' = [threads EXCEPT ![m] = <<e>>]
<1>1. Append(threads[m], e) = <<e>>
    OBVIOUS
<1>q. QED
    BY <1>1 DEF Thread

LEMMA ThreadingShows ==
    ASSUME TypeInv, Safe, Kept, NEW r \in Requests, AppendMessage(r) \/ ReopenMessage(r)
    PROVE  Unseen
<1>1. PICK m : m = Msg(r)
    OBVIOUS
<1>2. PICK e : e = request[r].enquiry
    OBVIOUS
<1>3. m \in Messages /\ Carries(r) /\ Thread(m, e) /\ UNCHANGED <<answer, row>>
    BY <1>1, <1>2 DEF AppendMessage, ReopenMessage, TypeInv, Busy, At, Carries, Carrying
<1>4. Own(m, e) /\ row[m] = "REAL_ENQUIRY" /\ threads[m] = <<>>
    BY <1>1, <1>2, <1>3 DEF AppendMessage, ReopenMessage, At, Kept, Honest, Safe, OneHand,
                            CarrierAlone
<1>5. e \in DOMAIN enquiries /\ e \in Nat
    BY <1>4, EnquiryIndex DEF Own, TypeInv
<1>6. threads' = [threads EXCEPT ![m] = <<e>>]
    BY <1>3, <1>4, <1>5, FirstPlace DEF TypeInv
<1>7. UNCHANGED <<answer, Standing, Owners>>
    BY <1>3, ThreadingKept DEF Standing
<1>8. Standing[m] = "REAL_ENQUIRY"
    BY <1>3, <1>4, Verdict DEF Standing, Final
<1>q. QED
    BY <1>3, <1>4, <1>5, <1>6, <1>7, <1>8, PlacedAt DEF Unseen

(* The worker judges a message that is in progress. *)
LEMMA WorkerShows ==
    ASSUME TypeInv, Safe, Kept, NEW m \in Messages, Qualify(m) \/ JobFails(m) \/ SettleFails(m)
    PROVE  Unseen
<1>1. OnlyJob(m)
    BY WorkerMoves
<1>2. UNCHANGED <<answer, enquiries, threads>>
    BY <1>1 DEF OnlyJob, Qualify, StartQualify, Settle, Finish, Review, JobFails, SettleFails, store
<1>3. UNCHANGED <<answer, Owners, threads>>
    BY <1>2 DEF Owners
<1>4. ASSUME NEW s \in Final, row[m] = "PROCESSING", row' = [row EXCEPT ![m] = s]
      PROVE  Unseen
    <2>1. Standing' = [Standing EXCEPT ![m] = StandingOf(s)]
        BY <1>4, StandingSets DEF TypeInv
    <2>2. StandingOf(s) = s
        BY Verdict
    <2>3. Standing[m] = "received"
        BY <1>4, Verdict DEF Standing
    <2>q. QED
        BY <1>3, <2>1, <2>2, <2>3, StandsAs DEF Unseen
<1>5. CASE row' = row
    BY <1>3, <1>5 DEF Unseen, Standing
<1>6. CASE StartQualify(m) /\ row' # row
    <2>1. row' = [row EXCEPT ![m] = "PROCESSING"] /\ ~AlreadyFinal(m)
        BY <1>6 DEF StartQualify
    <2>2. row[m] \in {"PENDING", "PROCESSING"}
        <3>1. InQueue(m) /\ row[m] # "NONE"
            BY <1>6 DEF StartQualify, InQueue, Safe, OneHand, Untouched
        <3>2. row[m] \notin Final
            BY <2>1, <3>1 DEF AlreadyFinal, Kept, Handled
        <3>q. QED
            BY <3>1, <3>2 DEF TypeInv, TypeOK, RowStatus, Final
    <2>3. Standing[m] = "received"
        BY <2>2, Verdict DEF Standing
    <2>4. Standing' = [Standing EXCEPT ![m] = StandingOf("PROCESSING")]
        BY <2>1, StandingSets DEF TypeInv
    <2>5. Standing' = Standing
        BY <2>3, <2>4, Verdict DEF Standing
    <2>q. QED
        BY <1>3, <2>5 DEF Unseen
<1>7. CASE Settle(m)
    <2>1. row[m] = "PROCESSING" /\ \E s \in Final : row' = [row EXCEPT ![m] = s]
        BY <1>7 DEF Settle, Safe, Stored, InProgress
    <2>q. QED
        BY <1>4, <2>1
<1>8. CASE Review(m)
    <2>1. row[m] = "PROCESSING" /\ row' = [row EXCEPT ![m] = "NEEDS_REVIEW"]
        BY <1>8 DEF Review, Safe, Stored, InProgress
    <2>q. QED
        BY <1>4, <2>1 DEF Final
<1>9. CASE Finish(m) \/ JobFails(m) \/ SettleFails(m)
    BY <1>5, <1>9 DEF Finish, JobFails, SettleFails, store
<1>q. QED
    BY <1>5, <1>6, <1>7, <1>8, <1>9 DEF Qualify

(* The handler places it, in an enquiry of the sender that it has found or *)
(* made.                                                                   *)
LEMMA HandlerShows ==
    ASSUME InboundAssumption, TypeInv, Safe, Kept, NEW m \in Messages,
           HandleQualified(m) \/ HandlerFails(m)
    PROVE  Unseen
<1>1. UNCHANGED <<answer, row>>
    BY DEF HandleQualified, FindOpen, AppendQualified, CreateQualified, HandlerFails, store, web
<1>2. UNCHANGED <<answer, Standing>>
    BY <1>1 DEF Standing
<1>3. handler[m].pc # "none"
    BY DEF HandleQualified, FindOpen, AppendQualified, CreateQualified, HandlerFails
<1>4. row[m] = "REAL_ENQUIRY" /\ threads[m] = <<>>
    BY <1>3 DEF Kept, Handled, Safe, OneHand, HandlerAlone
<1>5. Standing[m] = "REAL_ENQUIRY"
    BY <1>4, Verdict DEF Standing, Final
<1>6. CASE FindOpen(m) \/ HandlerFails(m)
    <2>1. UNCHANGED <<enquiries, threads>>
        BY <1>6 DEF FindOpen, HandlerFails, store
    <2>q. QED
        BY <1>2, <2>1 DEF Unseen, Owners
<1>7. CASE AppendQualified(m)
    <2>1. PICK e : e = handler[m].enquiry
        OBVIOUS
    <2>2. Own(m, e) /\ Thread(m, e) /\ enquiries' = enquiries
        BY <1>7, <2>1 DEF AppendQualified, Kept, Handled
    <2>3. e \in DOMAIN enquiries /\ e \in Nat
        BY <2>2, EnquiryIndex DEF Own, TypeInv
    <2>4. threads' = [threads EXCEPT ![m] = <<e>>]
        BY <1>4, <2>2, <2>3, FirstPlace DEF TypeInv
    <2>5. Owners' = Owners
        BY <2>2 DEF Owners
    <2>q. QED
        BY <1>2, <1>4, <1>5, <2>2, <2>3, <2>4, <2>5, PlacedAt DEF Unseen
<1>8. CASE CreateQualified(m)
    <2>1. From[m] \in Contacts
        BY DEF InboundAssumption
    <2>2. Owners' = Append(Owners, From[m]) /\ Len(Owners) = Len(enquiries)
        BY <1>8, <2>1, AppendStays DEF CreateQualified, TypeInv
    <2>3. Len(Owners) + 1 \in Nat /\ Thread(m, Len(Owners) + 1)
        BY <1>8, <2>2 DEF CreateQualified, TypeInv, TypeOK
    <2>4. threads' = [threads EXCEPT ![m] = <<Len(Owners) + 1>>]
        BY <1>4, <2>3, FirstPlace DEF TypeInv
    <2>q. QED
        BY <1>2, <1>4, <1>5, <2>2, <2>4, PlacedNew DEF Unseen
<1>q. QED
    BY <1>6, <1>7, <1>8 DEF HandleQualified

LEMMA OutsideShows ==
    ASSUME TypeInv, Staff \/ (\E m \in Messages : Expire(m)) \/ UNCHANGED vars
    PROVE  Unseen
<1>1. UNCHANGED <<answer, row, threads>>
    BY DEF Staff, CheckNoOpenEnquiry, Create, Close, Reopen, Toggle, Expire, store, web, vars
<1>2. UNCHANGED <<answer, Standing, threads>>
    BY <1>1 DEF Standing
<1>3. OwnersGrow
    BY StaffStays
<1>q. QED
    BY <1>2, <1>3, OpenedFor DEF OwnersGrow, Unseen

LEMMA RestShows ==
    ASSUME Crash \/ \E r \in Requests, m \in Messages : Deliver(r, m)
    PROVE  Unseen
<1>1. UNCHANGED <<answer, row, enquiries, threads>>
    BY DEF Crash, Deliver, store
<1>q. QED
    BY <1>1 DEF Unseen, Standing, Owners

LEMMA StepShows ==
    ASSUME InboundAssumption, TypeInv, Safe, Kept, [Next]_vars
    PROVE  Unseen
<1>1. ASSUME NEW m \in Messages,
             Qualify(m) \/ HandleQualified(m) \/ Expire(m) \/ \E r \in Requests : Deliver(r, m)
      PROVE  Unseen
    BY <1>1, WorkerShows, HandlerShows, OutsideShows, RestShows
<1>2. ASSUME NEW r \in Requests, Serve(r)
      PROVE  Unseen
    BY <1>2, AskingShows, StampShows, StoringShows, ThreadingShows DEF Serve
<1>3. ASSUME Fault
      PROVE  Unseen
    BY <1>3, AskingShows, WorkerShows, HandlerShows, RestShows DEF Fault
<1>q. QED
    BY <1>1, <1>2, <1>3, OutsideShows DEF Next

LEMMA KeptInit ==
    ASSUME InboundAssumption, Init
    PROVE  Kept
BY DEF Init, Kept, Honest, Handled, InQueue, Idle, NoJob, NoHandler

LEMMA ShowsInit ==
    ASSUME Init
    PROVE  Promise!Init
<1>1. Standing = [m \in Messages |-> "unknown"]
    BY Verdict DEF Init, Standing
<1>2. Owners = <<>>
    BY DEF Init, Owners
<1>q. QED
    BY <1>1, <1>2 DEF Init, Promise!Init, Standing, Owners

(* WebhookController, IngestionService, QualificationService and           *)
(* handleQualified keep the promise of Intake, under every repetition,     *)
(* failure and restart: each of their steps is one of Intake, or does not  *)
(* show.                                                                   *)
THEOREM InboundIsIntake == Spec => ImplementsIntake
<1>1. Init => Kept
    BY InboundAssumption, KeptInit
<1>2. TypeInv /\ Safe /\ Kept /\ [Next]_vars => Kept'
    BY InboundAssumption, KeptStep
<1>3. Init => Promise!Init
    BY ShowsInit
<1>4. TypeInv /\ Safe /\ Kept /\ [Next]_vars
          => Promise!Next \/ UNCHANGED <<answer, Standing, Owners, threads>>
    BY InboundAssumption, StepShows DEF Unseen
<1>q. QED
    BY <1>1, <1>2, <1>3, <1>4, SpecSafe, PTL
       DEF Spec, ImplementsIntake, Promise!Spec, Standing, Owners
=============================================================================
