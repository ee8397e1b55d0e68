---------------------------- MODULE InboxProofs ----------------------------
(***************************************************************************)
(* What the transactions and the single statement on a contact's row give  *)
(* for any number of contacts, browsers and handlers: its messages are     *)
(* numbered without a gap, and the read mark only advances.  For that      *)
(* browsers are of no account: the server learns nothing from them but     *)
(* that a mark has arrived.  Then that the rows which the browsers keep    *)
(* follow the contact.                                                     *)
(***************************************************************************)
EXTENDS Inbox, FiniteSetTheorems, TLAPS

Steps == {"begin", "commit", "contact", "latest", "emit", "check", "update", "emitRead"}
CallRec == [op: {"free", "append", "refresh", "enquiry", "mark"}, step: Steps,
            who: Contacts \cup {Nobody}, channel: Channels, row: Row]

(* A handler that has a contact.                                           *)
Busy(r) == r.op # "free" => r.who \in Contacts
Holding(r) == r.op # "free" /\ r.step = "commit"

ServerTypeOK ==
    /\ stored \in [Contacts -> SUBSET Message]
    /\ contact \in [Contacts -> Row]
    /\ locked \in [Contacts -> SUBSET Calls]
    /\ call \in [Calls -> CallRec]
    /\ \A k \in Calls : Busy(call[k])

(* Who is in its transaction holds the contact's row alone, so the number  *)
(* it took is still the next one.                                          *)
NumbersAreHeld ==
    \A k \in Calls : Holding(call[k]) =>
        /\ locked[call[k].who] = {k}
        /\ call[k].row.last = contact[call[k].who].last + 1

Gapless(c) ==
    /\ IsFiniteSet(stored[c])
    /\ {m.seq : m \in stored[c]} = 1..contact[c].last
    /\ Cardinality(stored[c]) = contact[c].last
    /\ contact[c].last > 0
    /\ contact[c].read <= contact[c].last

IInv == ServerTypeOK /\ NumbersAreHeld /\ \A c \in Contacts : Gapless(c)

-----------------------------------------------------------------------------
LEMMA FreeType == Free \in CallRec /\ Free.op = "free"
BY InboxAssumption DEF Free, CallRec, Steps, Nobody, Row

LEMMA CallRecFields ==
    ASSUME NEW r \in CallRec
    PROVE  /\ r.op \in {"free", "append", "refresh", "enquiry", "mark"}
           /\ r.step \in Steps /\ r.who \in Contacts \cup {Nobody}
           /\ r.channel \in Channels /\ r.row \in Row
BY DEF CallRec

LEMMA CallAlone ==
    ASSUME IInv, NEW k \in Calls, NEW r \in CallRec,
           call' = [call EXCEPT ![k] = r], ~Holding(call[k]),
           Busy(r), ~Holding(r), UNCHANGED <<stored, contact, locked>>
    PROVE  IInv'
<1> USE DEF IInv
<1>1. call'[k] = r /\ \A j \in Calls \ {k} : call'[j] = call[j]
  BY DEF ServerTypeOK
<1>2. ServerTypeOK'
  BY <1>1 DEF ServerTypeOK
<1>3. NumbersAreHeld'
  BY <1>1 DEF NumbersAreHeld
<1>4. \A c \in Contacts : Gapless(c)'
  BY DEF Gapless
<1> QED BY <1>2, <1>3, <1>4

LEMMA StartOK ==
    ASSUME IInv, NEW k \in Calls, NEW c \in Contacts, NEW ch \in Channels,
           NEW op \in {"append", "refresh", "enquiry", "mark"},
           NEW step \in Steps \ {"commit"}, Start(k, op, step, c, ch)
    PROVE  IInv'
<1> DEFINE r == [Free EXCEPT !.op = op, !.step = step, !.who = c, !.channel = ch]
<1>1. r \in CallRec /\ r.op = op /\ r.step = step /\ r.who = c
  BY InboxAssumption DEF CallRec, Free, Row
<1>2. call' = [call EXCEPT ![k] = r] /\ call[k] = Free
  BY DEF Start
<1>3. ~Holding(call[k]) /\ ~Holding(r) /\ Busy(r)
  BY <1>1, <1>2, FreeType DEF Holding, Busy
<1> HIDE DEF r
<1> QED BY <1>1, <1>2, <1>3, CallAlone DEF Start

LEMMA FinishOK ==
    ASSUME IInv, NEW k \in Calls, Finish(k), ~Holding(call[k]),
           UNCHANGED <<stored, contact, locked>>
    PROVE  IInv'
BY FreeType, CallAlone DEF Finish, Busy, Holding

-----------------------------------------------------------------------------
LEMMA InitOK == Init => IInv
<1> SUFFICES ASSUME Init PROVE IInv
  OBVIOUS
<1> DEFINE first == [seq |-> 1, channel |-> Chat]
<1>1. first \in Message /\ first.seq = 1
  BY InboxAssumption DEF Message
<1> HIDE DEF first
<1>2. stored = [c \in Contacts |-> {first}]
  BY DEF Init, first
<1>3. ServerTypeOK
  BY <1>1, <1>2, FreeType DEF Init, ServerTypeOK, Row, Busy
<1>4. NumbersAreHeld
  BY FreeType DEF Init, NumbersAreHeld, Holding
<1>5. ASSUME NEW c \in Contacts PROVE Gapless(c)
  <2>1. stored[c] = {first} /\ contact[c] = [last |-> 1, read |-> 1]
    BY <1>2 DEF Init
  <2>2. IsFiniteSet({first}) /\ Cardinality({first}) = 1
    BY FS_Singleton
  <2>3. {m.seq : m \in {first}} = 1..1
    BY <1>1
  <2> QED BY <2>1, <2>2, <2>3 DEF Gapless
<1> QED BY <1>3, <1>4, <1>5 DEF IInv

LEMMA TakeSeqOK ==
    ASSUME IInv, NEW k \in Calls, TakeSeq(k) PROVE IInv'
<1> USE DEF IInv
<1> DEFINE c == call[k].who
           next == contact[c].last + 1
           row == [call[k].row EXCEPT !.last = next]
           r == [call[k] EXCEPT !.step = "commit", !.row = row]
<1>1. call[k] \in CallRec /\ c \in Contacts /\ locked[c] = {}
  BY DEF TakeSeq, At, ServerTypeOK, Busy
<1>2. next \in Nat
  BY <1>1 DEF ServerTypeOK, Row
<1>3. row \in Row /\ row.last = next
  BY <1>1, <1>2 DEF CallRec, Row
<1>4. call' = [call EXCEPT ![k] = r]
  BY <1>1 DEF TakeSeq, CallRec, Row, ServerTypeOK
<1>5. r \in CallRec /\ r.who = c /\ r.row = row
  BY <1>1, <1>3 DEF CallRec, Steps
<1> HIDE DEF r, row, next
<1>6. call'[k] = r /\ \A j \in Calls \ {k} : call'[j] = call[j]
  BY <1>4 DEF ServerTypeOK
<1>7. locked' = [locked EXCEPT ![c] = {k}] /\ UNCHANGED <<stored, contact>>
  BY DEF TakeSeq
<1>8. ServerTypeOK'
  BY <1>1, <1>4, <1>5, <1>6, <1>7 DEF ServerTypeOK, Busy
<1>9. NumbersAreHeld'
  <2> SUFFICES ASSUME NEW j \in Calls, Holding(call'[j])
               PROVE  /\ locked'[call'[j].who] = {j}
                      /\ call'[j].row.last = contact'[call'[j].who].last + 1
    BY DEF NumbersAreHeld
  <2>1. CASE j = k
    BY <2>1, <1>1, <1>3, <1>5, <1>6, <1>7 DEF ServerTypeOK, next
  <2>2. CASE j # k
    <3>1. call'[j] = call[j] /\ locked[call[j].who] = {j}
          /\ call[j].row.last = contact[call[j].who].last + 1
      BY <2>2, <1>6 DEF NumbersAreHeld
    <3>2. call[j].who # c
      BY <3>1, <1>1
    <3> QED BY <3>1, <3>2, <1>7 DEF ServerTypeOK
  <2> QED BY <2>1, <2>2
<1>10. \A d \in Contacts : Gapless(d)'
  BY <1>7 DEF Gapless
<1> QED BY <1>8, <1>9, <1>10

LEMMA CommitOK ==
    ASSUME IInv, NEW k \in Calls, Commit(k) PROVE IInv'
<1> USE DEF IInv
<1> DEFINE c == call[k].who
           n == contact[c].last
           msg == [seq |-> n + 1, channel |-> call[k].channel]
           r == [call[k] EXCEPT !.step = "contact"]
           row == [contact[c] EXCEPT !.last = n + 1]
<1>1. /\ call[k] \in CallRec /\ c \in Contacts
      /\ locked[c] = {k} /\ call[k].row.last = n + 1
  BY DEF Commit, At, ServerTypeOK, Busy, NumbersAreHeld, Holding
<1>2. n \in Nat /\ contact[c] \in Row
  BY <1>1 DEF ServerTypeOK, Row
<1>3. msg \in Message /\ msg.seq = n + 1
  BY <1>1, <1>2 DEF Message, CallRec
<1>4. row \in Row /\ row.last = n + 1 /\ row.read = contact[c].read
  BY <1>2 DEF Row
<1>5. r \in CallRec /\ r.op = call[k].op /\ r.who = c /\ r.step = "contact"
  BY <1>1 DEF CallRec, Steps
<1>6. /\ stored' = [stored EXCEPT ![c] = @ \cup {msg}]
      /\ contact' = [contact EXCEPT ![c] = row]
      /\ locked' = [locked EXCEPT ![c] = {}]
      /\ call' = [call EXCEPT ![k] = r]
  BY <1>1 DEF Commit, Goto
<1> HIDE DEF r, row, msg
<1>7. /\ stored'[c] = stored[c] \cup {msg} /\ contact'[c] = row /\ locked'[c] = {}
      /\ call'[k] = r
      /\ \A d \in Contacts \ {c} :
            stored'[d] = stored[d] /\ contact'[d] = contact[d] /\ locked'[d] = locked[d]
      /\ \A j \in Calls \ {k} : call'[j] = call[j]
  BY <1>1, <1>6 DEF ServerTypeOK
<1>8. ServerTypeOK'
  BY <1>1, <1>3, <1>4, <1>5, <1>6, <1>7 DEF ServerTypeOK, Busy
<1>9. NumbersAreHeld'
  <2> SUFFICES ASSUME NEW j \in Calls, Holding(call'[j])
               PROVE  /\ locked'[call'[j].who] = {j}
                      /\ call'[j].row.last = contact'[call'[j].who].last + 1
    BY DEF NumbersAreHeld
  <2>1. j # k
    BY <1>5, <1>7 DEF Holding
  <2>2. call'[j] = call[j] /\ locked[call[j].who] = {j}
        /\ call[j].row.last = contact[call[j].who].last + 1
        /\ call[j].who \in Contacts
    BY <2>1, <1>7 DEF NumbersAreHeld, ServerTypeOK, Busy, Holding
  <2>3. call[j].who # c
    BY <2>1, <2>2, <1>1
  <2> QED BY <2>2, <2>3, <1>7
<1>10. ASSUME NEW d \in Contacts PROVE Gapless(d)'
  <2>1. CASE d # c
    BY <2>1, <1>7 DEF Gapless
  <2>2. CASE d = c
    <3>1. Gapless(c)
      BY <1>1
    <3>2. msg \notin stored[c]
      BY <3>1, <1>2, <1>3 DEF Gapless
    <3>3. IsFiniteSet(stored[c] \cup {msg})
          /\ Cardinality(stored[c] \cup {msg}) = n + 1
      BY <3>1, <3>2, FS_AddElement DEF Gapless
    <3>4. {m.seq : m \in stored[c] \cup {msg}} = 1..(n + 1)
      <4>1. {m.seq : m \in stored[c] \cup {msg}} = {m.seq : m \in stored[c]} \cup {msg.seq}
        OBVIOUS
      <4> QED BY <4>1, <3>1, <1>2, <1>3 DEF Gapless
    <3>5. n + 1 > 0 /\ contact[c].read <= n + 1
      BY <3>1, <1>2 DEF Gapless, Row
    <3> QED BY <2>2, <3>3, <3>4, <3>5, <1>4, <1>7 DEF Gapless
  <2> QED BY <2>1, <2>2
<1> QED BY <1>8, <1>9, <1>10

LEMMA RollBackOK ==
    ASSUME IInv, NEW k \in Calls, RollBack(k) PROVE IInv'
<1> USE DEF IInv
<1> DEFINE c == call[k].who
<1>1. c \in Contacts /\ locked[c] = {k}
  BY DEF RollBack, At, ServerTypeOK, Busy, NumbersAreHeld, Holding
<1>2. call'[k] = Free /\ \A j \in Calls \ {k} : call'[j] = call[j]
  BY DEF RollBack, Finish, ServerTypeOK
<1>3. locked' = [locked EXCEPT ![c] = {}] /\ UNCHANGED <<stored, contact>>
  BY DEF RollBack
<1>4. ServerTypeOK'
  BY <1>1, <1>2, <1>3, FreeType DEF ServerTypeOK, RollBack, Finish, Busy
<1>5. NumbersAreHeld'
  <2> SUFFICES ASSUME NEW j \in Calls, Holding(call'[j])
               PROVE  /\ locked'[call'[j].who] = {j}
                      /\ call'[j].row.last = contact'[call'[j].who].last + 1
    BY DEF NumbersAreHeld
  <2>1. j # k
    BY <1>2, FreeType DEF Holding
  <2>2. call'[j] = call[j] /\ locked[call[j].who] = {j}
        /\ call[j].row.last = contact[call[j].who].last + 1
    BY <2>1, <1>2 DEF NumbersAreHeld
  <2>3. call[j].who # c
    BY <2>1, <2>2, <1>1
  <2> QED BY <2>2, <2>3, <1>3 DEF ServerTypeOK
<1>6. \A d \in Contacts : Gapless(d)'
  BY <1>3 DEF Gapless
<1> QED BY <1>4, <1>5, <1>6

LEMMA ReadContactOK ==
    ASSUME IInv, NEW k \in Calls, ReadContact(k) PROVE IInv'
<1> DEFINE r == [call[k] EXCEPT !.step = "latest", !.row = contact[call[k].who]]
<1>1. call[k] \in CallRec /\ call[k].who \in Contacts /\ ~Holding(call[k])
  BY DEF ReadContact, At, IInv, ServerTypeOK, Busy, Holding
<1>2. r \in CallRec /\ r.who = call[k].who /\ r.step = "latest"
  BY <1>1 DEF CallRec, Steps, IInv, ServerTypeOK
<1>3. call' = [call EXCEPT ![k] = r]
  BY <1>1 DEF ReadContact, IInv, ServerTypeOK, CallRec
<1> HIDE DEF r
<1>4. Busy(r) /\ ~Holding(r)
  BY <1>1, <1>2 DEF Busy, Holding
<1> QED BY <1>1, <1>2, <1>3, <1>4, CallAlone DEF ReadContact

(* The message with the contact's last number is the latest.               *)
LEMMA LatestExists ==
    ASSUME IInv, NEW c \in Contacts
    PROVE  Latest(c) \in stored[c] /\ Latest(c).channel \in Channels
<1> DEFINE n == contact[c].last
<1>1. n \in Nat /\ n > 0 /\ {m.seq : m \in stored[c]} = 1..n /\ stored[c] \subseteq Message
  BY DEF IInv, ServerTypeOK, Row, Gapless
<1> HIDE DEF n
<1>2. Max(1..n) \in 1..n
  <2>1. \E x \in 1..n : \A y \in 1..n : x >= y
    BY <1>1
  <2> QED BY <2>1 DEF Max
<1>3. \E m \in stored[c] : m.seq = Max({i.seq : i \in stored[c]})
  BY <1>1, <1>2
<1> QED BY <1>1, <1>3 DEF Latest, Message

LEMMA ReadLatestOK ==
    ASSUME IInv, NEW k \in Calls, ReadLatest(k) PROVE IInv'
<1> DEFINE ch == IF call[k].op = "enquiry" THEN call[k].channel ELSE Latest(call[k].who).channel
           r == [call[k] EXCEPT !.step = "emit", !.channel = ch]
<1>1. call[k] \in CallRec /\ call[k].who \in Contacts /\ ~Holding(call[k])
  BY DEF ReadLatest, At, IInv, ServerTypeOK, Busy, Holding
<1>2. ch \in Channels
  BY <1>1, LatestExists DEF CallRec
<1>3. call' = [call EXCEPT ![k] = r]
  BY <1>1 DEF ReadLatest, IInv, ServerTypeOK, CallRec
<1> HIDE DEF ch
<1>4. r \in CallRec /\ r.who = call[k].who /\ r.step = "emit"
  BY <1>1, <1>2 DEF CallRec, Steps
<1> HIDE DEF r
<1>5. Busy(r) /\ ~Holding(r)
  BY <1>1, <1>4 DEF Busy, Holding
<1> QED BY <1>1, <1>3, <1>4, <1>5, CallAlone DEF ReadLatest

LEMMA EmitOK ==
    ASSUME IInv, NEW k \in Calls, EmitUpdated(k) \/ EmitNew(k) \/ EmitRead(k) PROVE IInv'
BY FinishOK DEF EmitUpdated, EmitNew, EmitRead, At, Holding

LEMMA CheckMarkOK ==
    ASSUME IInv, NEW k \in Calls, CheckMark(k) PROVE IInv'
<1> DEFINE r == [call[k] EXCEPT !.step = "update", !.row = contact[call[k].who]]
<1>1. call[k] \in CallRec /\ call[k].who \in Contacts /\ ~Holding(call[k])
  BY DEF CheckMark, At, IInv, ServerTypeOK, Busy, Holding
<1>2. r \in CallRec /\ r.who = call[k].who /\ r.step = "update"
  BY <1>1 DEF CallRec, Steps, IInv, ServerTypeOK
<1>3. Finish(k) \/ call' = [call EXCEPT ![k] = r]
  BY <1>1 DEF CheckMark, IInv, ServerTypeOK, CallRec
<1> HIDE DEF r
<1>4. Busy(r) /\ ~Holding(r)
  BY <1>1, <1>2 DEF Busy, Holding
<1>5. UNCHANGED <<stored, contact, locked>>
  BY DEF CheckMark
<1>6. CASE Finish(k)
  BY <1>1, <1>5, <1>6, FinishOK
<1>7. CASE call' = [call EXCEPT ![k] = r]
  BY <1>1, <1>2, <1>4, <1>5, <1>7, CallAlone
<1> QED BY <1>3, <1>6, <1>7

LEMMA UpdateReadOK ==
    ASSUME IInv, NEW k \in Calls, UpdateRead(k) PROVE IInv'
<1> USE DEF IInv
<1> DEFINE c == call[k].who
           n == contact[c].last
           row == [contact[c] EXCEPT !.read = n]
           seen == [call[k].row EXCEPT !.read = n]
           r == [call[k] EXCEPT !.step = "emitRead", !.row = seen]
<1>1. call[k] \in CallRec /\ c \in Contacts /\ locked[c] = {} /\ ~Holding(call[k])
  BY DEF UpdateRead, At, ServerTypeOK, Busy, Holding
<1>2. n \in Nat /\ contact[c] \in Row
  BY <1>1 DEF ServerTypeOK, Row
<1>3. row \in Row /\ row.last = n /\ row.read = n
  BY <1>2 DEF Row
<1>4. seen \in Row
  BY <1>1, <1>2 DEF CallRec, Row
<1>5. contact' = [contact EXCEPT ![c] = row] /\ UNCHANGED <<stored, locked>>
  BY <1>1 DEF UpdateRead
<1>6. call' = [call EXCEPT ![k] = r]
  BY <1>1 DEF UpdateRead, CallRec, Row, ServerTypeOK
<1> HIDE DEF row, seen
<1>7. r \in CallRec /\ r.who = c /\ r.step = "emitRead"
  BY <1>1, <1>4 DEF CallRec, Steps
<1> HIDE DEF r
<1>8. /\ contact'[c] = row /\ call'[k] = r
      /\ \A d \in Contacts \ {c} : contact'[d] = contact[d]
      /\ \A j \in Calls \ {k} : call'[j] = call[j]
  BY <1>1, <1>5, <1>6 DEF ServerTypeOK
<1>9. ServerTypeOK'
  BY <1>1, <1>3, <1>5, <1>6, <1>7, <1>8 DEF ServerTypeOK, Busy
<1>10. NumbersAreHeld'
  <2> SUFFICES ASSUME NEW j \in Calls, Holding(call'[j])
               PROVE  /\ locked'[call'[j].who] = {j}
                      /\ call'[j].row.last = contact'[call'[j].who].last + 1
    BY DEF NumbersAreHeld
  <2>1. j # k
    BY <1>7, <1>8 DEF Holding
  <2>2. call'[j] = call[j] /\ locked[call[j].who] = {j}
        /\ call[j].row.last = contact[call[j].who].last + 1
        /\ call[j].who \in Contacts
    BY <2>1, <1>8 DEF NumbersAreHeld, ServerTypeOK, Busy, Holding
  <2>3. call[j].who # c
    BY <2>2, <1>1
  <2> QED BY <2>2, <2>3, <1>5, <1>8
<1>11. ASSUME NEW d \in Contacts PROVE Gapless(d)'
  <2>1. CASE d # c
    BY <2>1, <1>5, <1>8 DEF Gapless
  <2>2. CASE d = c
    <3>1. Gapless(c)
      BY <1>1
    <3> QED BY <2>2, <3>1, <1>2, <1>3, <1>5, <1>8 DEF Gapless
  <2> QED BY <2>1, <2>2
<1> QED BY <1>9, <1>10, <1>11

LEMMA ArriveOK ==
    ASSUME IInv, NEW k \in Calls, NEW c \in Contacts, Arrive(k, c) PROVE IInv'
<1>1. CASE \E ch \in Channels : AppendMessage(k, c, ch)
  BY <1>1, StartOK DEF AppendMessage, Steps
<1>2. CASE Refresh(k, c) \/ NewEnquiry(k, c)
  BY <1>2, StartOK, InboxAssumption DEF Refresh, NewEnquiry, Steps
<1> QED BY <1>1, <1>2 DEF Arrive

LEMMA TakeMarkOK ==
    ASSUME IInv, NEW k \in Calls, NEW b \in Browsers, NEW c \in Contacts, TakeMark(k, b, c)
    PROVE  IInv'
BY StartOK, InboxAssumption DEF TakeMark, Steps

(* What the browsers do leaves the server as it is.                        *)
LEMMA BrowserLeavesServer ==
    ASSUME \/ \E b \in Browsers : Effect(b) \/ Hide(b) \/ Show(b) \/ Disconnect(b) \/ Reconnect(b)
           \/ \E b \in Browsers, ch \in Channels :
                 AskList(b, ch) \/ AnswerList(b, ch) \/ ApplyList(b, ch)
           \/ \E b \in Browsers, c \in Contacts : ClickRow(b, c)
    PROVE  UNCHANGED server
BY DEF Effect, TryMarkRead, Hide, Show, Disconnect, Reconnect, AskList, AnswerList, ApplyList,
       ClickRow, server

LEMMA UnchangedOK ==
    ASSUME IInv, UNCHANGED server PROVE IInv'
BY DEF IInv, server, ServerTypeOK, NumbersAreHeld, Gapless

LEMMA StepOK == IInv /\ [Next]_vars => IInv'
<1> SUFFICES ASSUME IInv, [Next]_vars PROVE IInv'
  OBVIOUS
<1>1. CASE UNCHANGED vars
  BY <1>1, UnchangedOK DEF vars
<1>2. ASSUME NEW k \in Calls, Advance(k) PROVE IInv'
  BY <1>2, TakeSeqOK, CommitOK, RollBackOK, ReadContactOK, ReadLatestOK, EmitOK,
     CheckMarkOK, UpdateReadOK DEF Advance
<1>3. ASSUME NEW k \in Calls, NEW c \in Contacts, Arrive(k, c) PROVE IInv'
  BY <1>3, ArriveOK
<1>4. CASE Deliver
  BY <1>4, TakeMarkOK DEF Deliver
<1> QED BY <1>1, <1>2, <1>3, <1>4, BrowserLeavesServer, UnchangedOK DEF Next

-----------------------------------------------------------------------------
(* nextContactSeq: the stored messages of a contact carry the numbers 1 to *)
(* lastMessageSeq, each once, whatever transactions overlap or fail.       *)
THEOREM NoGaps == Spec => []ThreadIsGapless
<1>1. IInv => ThreadIsGapless
  BY DEF IInv, Gapless, ThreadIsGapless
<1> QED BY <1>1, InitOK, StepOK, PTL DEF Spec

LEMMA Advances ==
    ASSUME IInv, [Next]_vars
    PROVE  \A c \in Contacts :
               contact'[c].read >= contact[c].read /\ contact'[c].read <= contact'[c].last
<1>1. \A c \in Contacts : contact[c] \in Row /\ contact[c].read <= contact[c].last
  BY DEF IInv, ServerTypeOK, Gapless
<1>2. \A c \in Contacts : contact'[c].read <= contact'[c].last
  BY StepOK DEF IInv, Gapless
<1>3. CASE UNCHANGED contact
  BY <1>1, <1>2, <1>3 DEF Row
<1>4. ASSUME NEW k \in Calls, Commit(k)
      PROVE  \A c \in Contacts : contact'[c].read = contact[c].read
  BY <1>4, <1>1 DEF Commit, IInv, ServerTypeOK, Row
<1>5. ASSUME NEW k \in Calls, UpdateRead(k)
      PROVE  \A c \in Contacts : contact'[c].read >= contact[c].read
  BY <1>5, <1>1 DEF UpdateRead, IInv, ServerTypeOK, Row
<1>6. \/ UNCHANGED contact \/ \E k \in Calls : Commit(k) \/ UpdateRead(k)
  <2>1. CASE UNCHANGED vars
    BY <2>1 DEF vars, server
  <2>2. ASSUME NEW k \in Calls, Advance(k), ~Commit(k), ~UpdateRead(k) PROVE UNCHANGED contact
    BY <2>2 DEF Advance, TakeSeq, RollBack, ReadContact, ReadLatest, EmitUpdated, EmitNew,
                CheckMark, EmitRead
  <2>3. ASSUME NEW k \in Calls, NEW c \in Contacts, Arrive(k, c) PROVE UNCHANGED contact
    BY <2>3 DEF Arrive, AppendMessage, Refresh, NewEnquiry, Start
  <2>4. ASSUME Deliver PROVE UNCHANGED contact
    BY <2>4 DEF Deliver, TakeMark, Start
  <2> QED BY <2>1, <2>2, <2>3, <2>4, BrowserLeavesServer DEF Next, server
<1> QED BY <1>1, <1>2, <1>3, <1>4, <1>5, <1>6 DEF Row

(* handleReadMark: the read mark of the team never moves back and never    *)
(* passes the last stored message.                                         *)
THEOREM ReadMarkAdvances == Spec => ReadOnlyAdvances
<1> QED BY InitOK, StepOK, Advances, PTL DEF Spec, ReadOnlyAdvances

-----------------------------------------------------------------------------
-----------------------------------------------------------------------------
(* A browser's copy of a row, in its list or in the page on its way, is    *)
(* the contact's, or somebody is about to tell the browser: a handler that *)
(* has yet to read its summary, or one that holds it.                      *)
HeldOK(held) == DOMAIN held \subseteq Contacts /\ \A c \in DOMAIN held : held[c] \in Row
BrowserTypeOK ==
    /\ DOMAIN rows = Browsers /\ DOMAIN fetch = Browsers
    /\ \A b \in Browsers :
          /\ DOMAIN rows[b] = Channels /\ DOMAIN fetch[b] = Channels
          /\ \A ch \in Channels :
                /\ HeldOK(rows[b][ch])
                /\ DOMAIN fetch[b][ch] = {"state", "page", "before"}
                /\ fetch[b][ch].state = "answered" => HeldOK(fetch[b][ch].page)
                /\ ~Fetched(b, ch) => DOMAIN rows[b][ch] = {}
AwayMissed == \A b \in Browsers \ online, c \in Contacts : <<b, c>> \in missed

WillRead(c) == \E k \in Calls : call[k].who = c /\ call[k].step = "contact"
Tells(k, c) == call[k].who = c /\ call[k].step \in {"latest", "emit"}
TellsRead(k, c) == call[k].who = c /\ call[k].step = "emitRead"

(* One handler at most holds a summary of the contact, and it is true: a   *)
(* message stored since is told by the handler that stored it.             *)
HolderOK(c) ==
    /\ \A j, k \in Calls : HoldsSummary(j, c) /\ HoldsSummary(k, c) => j = k
    /\ \A k \in Calls : HoldsSummary(k, c) =>
          /\ call[k].row.read = contact[c].read
          /\ Tells(k, c) => call[k].row.last = contact[c].last \/ WillRead(c)
Follows(copy, c) ==
    \/ WillRead(c)
    \/ \E k \in Calls : Tells(k, c)
    \/ /\ copy.last = contact[c].last
       /\ copy.read = contact[c].read \/ \E k \in Calls : TellsRead(k, c)
CopyOK(b, c) ==
    \A ch \in Channels :
        /\ c \in DOMAIN rows[b][ch] => Follows(rows[b][ch][c], c)
        /\ (fetch[b][ch].state = "answered" /\ c \in DOMAIN fetch[b][ch].page) =>
              Follows(fetch[b][ch].page[c], c)
Told(c) == HolderOK(c) /\ \A b \in Browsers : <<b, c>> \notin missed => CopyOK(b, c)
FollowInv ==
    IInv /\ BrowserTypeOK /\ AwayMissed /\ \A c \in Contacts \ crossed : Told(c)

-----------------------------------------------------------------------------
(* One handler moves from one step to the next.                            *)
Moves(k, r) == call \in [Calls -> CallRec] /\ call' = [call EXCEPT ![k] = r]

(* A handler that moves is of no account to the other contacts.            *)
LEMMA OthersAreSame ==
    ASSUME NEW k \in Calls, NEW r, Moves(k, r), r.who \in {call[k].who, Nobody},
           NEW d \in Contacts, d # call[k].who
    PROVE  /\ WillRead(d)' <=> WillRead(d)
           /\ \A j \in Calls : /\ HoldsSummary(j, d)' <=> HoldsSummary(j, d)
                               /\ Tells(j, d)' <=> Tells(j, d)
                               /\ TellsRead(j, d)' <=> TellsRead(j, d)
                               /\ HoldsSummary(j, d) => call'[j] = call[j]
<1>1. call'[k] = r /\ \A j \in Calls \ {k} : call'[j] = call[j]
  BY DEF Moves
<1>2. d # Nobody /\ r.who # d
  BY InboxAssumption DEF Nobody
<1>3. \A j \in Calls : (call'[j].who = d <=> call[j].who = d)
                       /\ (call[j].who = d => call'[j] = call[j])
  BY <1>1, <1>2
<1> QED BY <1>3 DEF WillRead, HoldsSummary, Tells, TellsRead

LEMMA OthersAreTold ==
    ASSUME NEW k \in Calls, NEW r, Moves(k, r), r.who \in {call[k].who, Nobody},
           NEW d \in Contacts, d # call[k].who, contact'[d] = contact[d]
    PROVE  /\ HolderOK(d) => HolderOK(d)'
           /\ \A copy : Follows(copy, d) => Follows(copy, d)'
<1>1. /\ WillRead(d)' <=> WillRead(d)
      /\ \A j \in Calls : /\ HoldsSummary(j, d)' <=> HoldsSummary(j, d)
                          /\ Tells(j, d)' <=> Tells(j, d)
                          /\ TellsRead(j, d)' <=> TellsRead(j, d)
                          /\ HoldsSummary(j, d) => call'[j] = call[j]
  BY OthersAreSame
<1> QED BY <1>1 DEF HolderOK, Follows

(* A step that neither hands over nor drops a summary, and that leaves the *)
(* contact alone or leaves a handler that will tell of it.                 *)
LEMMA SilentStep ==
    ASSUME NEW k \in Calls, NEW r, Moves(k, r),
           call[k].step \notin {"contact", "latest", "emit", "emitRead"},
           r.step \notin {"latest", "emit", "emitRead"},
           NEW d \in Contacts,
           \/ contact'[d] = contact[d]
           \/ contact'[d].read = contact[d].read /\ WillRead(d)'
    PROVE  /\ HolderOK(d) => HolderOK(d)'
           /\ \A copy : Follows(copy, d) => Follows(copy, d)'
<1>1. call'[k] = r /\ \A j \in Calls \ {k} : call'[j] = call[j]
  BY DEF Moves
<1>2. \A j \in Calls : /\ HoldsSummary(j, d)' <=> HoldsSummary(j, d)
                       /\ Tells(j, d)' <=> Tells(j, d)
                       /\ TellsRead(j, d)' <=> TellsRead(j, d)
                       /\ HoldsSummary(j, d) => call'[j] = call[j]
  BY <1>1 DEF HoldsSummary, Tells, TellsRead
<1>3. WillRead(d) => WillRead(d)'
  BY <1>1 DEF WillRead
<1>4. HolderOK(d) => HolderOK(d)'
  BY <1>2, <1>3 DEF HolderOK
<1>5. ASSUME NEW copy, Follows(copy, d) PROVE Follows(copy, d)'
  BY <1>2, <1>3, <1>5 DEF Follows
<1> QED BY <1>4, <1>5

(* The copies of a browser whose rows and page are as they were.           *)
LEMMA SameCopies ==
    ASSUME NEW b \in Browsers, NEW d \in Contacts, UNCHANGED <<rows, fetch>>,
           \A copy : Follows(copy, d) => Follows(copy, d)'
    PROVE  CopyOK(b, d) => CopyOK(b, d)'
BY DEF CopyOK

(* The handler's side of a step on a contact.                              *)
LEMMA SilentOK ==
    ASSUME FollowInv, IInv', NEW k \in Calls, NEW r, Moves(k, r),
           call[k].step \notin {"contact", "latest", "emit", "emitRead"},
           r.step \notin {"latest", "emit", "emitRead"},
           \A d \in Contacts : \/ contact'[d] = contact[d]
                               \/ contact'[d].read = contact[d].read /\ WillRead(d)',
           UNCHANGED <<rows, fetch, online, crossed, missed>>
    PROVE  FollowInv'
<1>1. BrowserTypeOK' /\ AwayMissed'
  BY DEF FollowInv, BrowserTypeOK, AwayMissed, Fetched, HeldOK
<1>2. ASSUME NEW d \in Contacts \ crossed' PROVE Told(d)'
  <2>1. Told(d)
    BY <1>2 DEF FollowInv
  <2>2. /\ HolderOK(d) => HolderOK(d)'
        /\ \A copy : Follows(copy, d) => Follows(copy, d)'
    BY SilentStep
  <2>3. \A b \in Browsers : CopyOK(b, d) => CopyOK(b, d)'
    BY <2>2, SameCopies
  <2> QED BY <2>1, <2>2, <2>3 DEF Told
<1> QED BY <1>1, <1>2 DEF FollowInv

-----------------------------------------------------------------------------
(* What the handlers' steps do to the slot of one handler.                 *)
LEMMA StartMoves ==
    ASSUME IInv, NEW k \in Calls, NEW c \in Contacts, NEW ch \in Channels,
           NEW op, NEW step, Start(k, op, step, c, ch)
    PROVE  /\ Moves(k, [Free EXCEPT !.op = op, !.step = step, !.who = c, !.channel = ch])
           /\ call[k] = Free /\ UNCHANGED <<stored, contact, locked, crossed, missed>>
BY DEF Start, Moves, IInv, ServerTypeOK

LEMMA StartFollows ==
    ASSUME FollowInv, IInv', NEW k \in Calls, NEW c \in Contacts, NEW ch \in Channels,
           NEW op, NEW step \in {"begin", "contact", "check"}, Start(k, op, step, c, ch),
           UNCHANGED <<rows, fetch, online>>
    PROVE  FollowInv'
<1> DEFINE r == [Free EXCEPT !.op = op, !.step = step, !.who = c, !.channel = ch]
<1>1. /\ Moves(k, r) /\ call[k].step = "begin"
      /\ UNCHANGED <<contact, crossed, missed>>
  <2>1. Free.step = "begin" /\ IInv
    BY DEF Free, FollowInv
  <2>2. /\ Moves(k, r) /\ call[k] = Free
        /\ UNCHANGED <<stored, contact, locked, crossed, missed>>
    BY <2>1, StartMoves
  <2> QED BY <2>1, <2>2
<1>2. r.step = step
  BY DEF Free
<1> HIDE DEF r
<1> QED BY <1>1, <1>2, SilentOK

LEMMA FinishMoves ==
    ASSUME IInv, NEW k \in Calls, Finish(k) PROVE Moves(k, Free)
BY DEF Finish, Moves, IInv, ServerTypeOK

LEMMA FreeIsSilent == Free.step = "begin" /\ Free.who = Nobody
BY DEF Free

LEMMA TakeSeqFollows ==
    ASSUME FollowInv, IInv', NEW k \in Calls, TakeSeq(k) PROVE FollowInv'
<1> DEFINE row == [call[k].row EXCEPT !.last = contact[call[k].who].last + 1]
           r == [call[k] EXCEPT !.step = "commit", !.row = row]
<1>1. Moves(k, r) /\ call[k].step = "begin"
  BY DEF TakeSeq, At, Moves, FollowInv, IInv, ServerTypeOK, CallRec, Row
<1>2. r.step = "commit"
  BY DEF FollowInv, IInv, ServerTypeOK, CallRec
<1> HIDE DEF r
<1> QED BY <1>1, <1>2, SilentOK DEF TakeSeq, browser

LEMMA CommitFollows ==
    ASSUME FollowInv, IInv', NEW k \in Calls, Commit(k) PROVE FollowInv'
<1> DEFINE r == [call[k] EXCEPT !.step = "contact"]
           c == call[k].who
<1>1. Moves(k, r) /\ call[k].step = "commit"
  BY DEF Commit, Goto, At, Moves, FollowInv, IInv, ServerTypeOK
<1>2. r.step = "contact" /\ r.who = c
  BY DEF FollowInv, IInv, ServerTypeOK, CallRec
<1>3. \A d : d = c => WillRead(d)'
  BY <1>1, <1>2 DEF WillRead, Moves
<1>4. ASSUME NEW d \in Contacts
      PROVE  \/ contact'[d] = contact[d]
             \/ contact'[d].read = contact[d].read /\ WillRead(d)'
  <2>1. CASE d = c
    <3>1. contact' = [contact EXCEPT ![c] = [@ EXCEPT !.last = call[k].row.last]]
      BY DEF Commit
    <3>2. contact[d] \in Row /\ contact'[d] = [contact[d] EXCEPT !.last = call[k].row.last]
      BY <2>1, <3>1 DEF FollowInv, IInv, ServerTypeOK
    <3> QED BY <2>1, <1>3, <3>2 DEF Row
  <2>2. CASE d # c
    BY <2>2 DEF Commit, FollowInv, IInv, ServerTypeOK
  <2> QED BY <2>1, <2>2
<1>5. UNCHANGED <<rows, fetch, online, crossed, missed>>
  BY DEF Commit, browser
<1> HIDE DEF r, c
<1> QED BY <1>1, <1>2, <1>4, <1>5, SilentOK

LEMMA RollBackFollows ==
    ASSUME FollowInv, IInv', NEW k \in Calls, RollBack(k) PROVE FollowInv'
<1>1. Moves(k, Free) /\ call[k].step = "commit"
  BY FinishMoves DEF RollBack, At, FollowInv
<1> QED BY <1>1, FreeIsSilent, SilentOK DEF RollBack, browser

LEMMA CheckMarkFollows ==
    ASSUME FollowInv, IInv', NEW k \in Calls, CheckMark(k) PROVE FollowInv'
<1> DEFINE row == contact[call[k].who]
           r == [[call[k] EXCEPT !.step = "update"] EXCEPT !.row = row]
<1>1. call[k].step = "check" /\ UNCHANGED <<contact, rows, fetch, online, crossed, missed>>
  BY DEF CheckMark, At, browser
<1>2. CASE Finish(k)
  BY <1>1, <1>2, FinishMoves, FreeIsSilent, SilentOK DEF FollowInv
<1>3. CASE ~Finish(k)
  <2>1. Moves(k, r)
    BY <1>3 DEF CheckMark, Moves, FollowInv, IInv, ServerTypeOK
  <2>2. r.step = "update"
    BY DEF FollowInv, IInv, ServerTypeOK, CallRec
  <2> HIDE DEF r
  <2> QED BY <1>1, <2>1, <2>2, SilentOK
<1> QED BY <1>2, <1>3

-----------------------------------------------------------------------------
(* The steps that take a summary, keep it, or send it.                     *)
LEMMA Crossing ==
    ASSUME FollowInv, NEW k \in Calls, Cross(k)
    PROVE  /\ crossed \subseteq crossed'
           /\ call[k].who \notin crossed' =>
                 \A j \in Calls \ {k} : ~HoldsSummary(j, call[k].who)
BY DEF Cross

LEMMA SameRows ==
    ASSUME FollowInv, UNCHANGED <<rows, fetch, online, missed>>
    PROVE  BrowserTypeOK' /\ AwayMissed'
BY DEF FollowInv, BrowserTypeOK, AwayMissed, Fetched, HeldOK

LEMMA ReadContactFollows ==
    ASSUME FollowInv, IInv', NEW k \in Calls, ReadContact(k) PROVE FollowInv'
<1> DEFINE c == call[k].who
           r == [[call[k] EXCEPT !.step = "latest"] EXCEPT !.row = contact[c]]
<1>1. Moves(k, r) /\ call[k].step = "contact" /\ c \in Contacts
  BY DEF ReadContact, At, Moves, FollowInv, IInv, ServerTypeOK, Busy
<1>2. r.step = "latest" /\ r.who = c /\ r.row = contact[c]
  BY DEF FollowInv, IInv, ServerTypeOK, CallRec
<1>3. UNCHANGED <<contact, rows, fetch, online, missed>> /\ Cross(k)
  BY DEF ReadContact, browser
<1> HIDE DEF r
<1>4. call'[k] = r /\ \A j \in Calls \ {k} : call'[j] = call[j]
  BY <1>1 DEF Moves
<1>5. ASSUME NEW d \in Contacts \ crossed' PROVE Told(d)'
  <2>1. Told(d)
    BY <1>3, Crossing DEF FollowInv
  <2>2. CASE d # c
    <3>1. /\ HolderOK(d) => HolderOK(d)'
          /\ \A copy : Follows(copy, d) => Follows(copy, d)'
      BY <1>1, <1>2, <1>3, <2>2, OthersAreTold
    <3>2. \A b \in Browsers : CopyOK(b, d) => CopyOK(b, d)'
      BY <1>3, <3>1, SameCopies
    <3> QED BY <1>3, <2>1, <3>1, <3>2 DEF Told
  <2>3. CASE d = c
    <3>1. \A j \in Calls \ {k} : ~HoldsSummary(j, d)
      BY <1>3, <2>3, Crossing
    <3>2. \A j \in Calls \ {k} : ~HoldsSummary(j, d)'
      BY <1>4, <3>1 DEF HoldsSummary
    <3>3. HolderOK(d)'
      BY <1>2, <1>3, <1>4, <2>3, <3>2 DEF HolderOK
    <3>4. Tells(k, d)'
      BY <1>2, <1>4, <2>3 DEF Tells
    <3>5. \A copy : Follows(copy, d)'
      BY <3>4 DEF Follows
    <3> QED BY <3>3, <3>5 DEF Told, CopyOK
  <2> QED BY <2>2, <2>3
<1> QED BY <1>3, <1>5, SameRows DEF FollowInv

LEMMA ReadLatestFollows ==
    ASSUME FollowInv, IInv', NEW k \in Calls, ReadLatest(k) PROVE FollowInv'
<1>1. /\ call \in [Calls -> CallRec] /\ call[k].step = "latest"
      /\ call'[k].step = "emit" /\ call'[k].who = call[k].who
      /\ call'[k].row = call[k].row
      /\ \A j \in Calls \ {k} : call'[j] = call[j]
  BY DEF ReadLatest, At, FollowInv, IInv, ServerTypeOK, CallRec
<1>2. UNCHANGED <<contact, rows, fetch, online, crossed, missed>>
  BY DEF ReadLatest, browser
<1>3. ASSUME NEW d \in Contacts \ crossed' PROVE Told(d)'
  <2>1. Told(d)
    BY <1>2 DEF FollowInv
  <2>2. /\ WillRead(d)' <=> WillRead(d)
        /\ \A j \in Calls : /\ HoldsSummary(j, d)' <=> HoldsSummary(j, d)
                            /\ Tells(j, d)' <=> Tells(j, d)
                            /\ TellsRead(j, d)' <=> TellsRead(j, d)
                            /\ call'[j].row = call[j].row
    BY <1>1 DEF WillRead, HoldsSummary, Tells, TellsRead
  <2>3. HolderOK(d) => HolderOK(d)'
    BY <1>2, <2>2 DEF HolderOK
  <2>4. \A copy : Follows(copy, d) => Follows(copy, d)'
    BY <1>2, <2>2 DEF Follows
  <2>5. \A b \in Browsers : CopyOK(b, d) => CopyOK(b, d)'
    BY <1>2, <2>4, SameCopies
  <2> QED BY <1>2, <2>1, <2>3, <2>5 DEF Told
<1> QED BY <1>2, <1>3, SameRows DEF FollowInv

LEMMA UpdateReadFollows ==
    ASSUME FollowInv, IInv', NEW k \in Calls, UpdateRead(k) PROVE FollowInv'
<1> DEFINE c == call[k].who
           row == [call[k].row EXCEPT !.read = contact[c].last]
           r == [call[k] EXCEPT !.step = "emitRead", !.row = row]
<1>1. Moves(k, r) /\ call[k].step = "update" /\ c \in Contacts
  BY DEF UpdateRead, At, Moves, FollowInv, IInv, ServerTypeOK, Busy, CallRec, Row
<1>2. r.step = "emitRead" /\ r.who = c /\ r.row.read = contact[c].last
  BY DEF FollowInv, IInv, ServerTypeOK, CallRec, Row
<1>3. UNCHANGED <<rows, fetch, online, missed>> /\ Cross(k)
  BY DEF UpdateRead, browser
<1>4. /\ contact'[c].last = contact[c].last /\ contact'[c].read = contact[c].last
      /\ \A d \in Contacts \ {c} : contact'[d] = contact[d]
  BY <1>1 DEF UpdateRead, FollowInv, IInv, ServerTypeOK, Row
<1> HIDE DEF r
<1>5. call'[k] = r /\ \A j \in Calls \ {k} : call'[j] = call[j]
  BY <1>1 DEF Moves
<1>6. ASSUME NEW d \in Contacts \ crossed' PROVE Told(d)'
  <2>1. Told(d)
    BY <1>3, Crossing DEF FollowInv
  <2>2. CASE d # c
    <3>1. /\ HolderOK(d) => HolderOK(d)'
          /\ \A copy : Follows(copy, d) => Follows(copy, d)'
      BY <1>1, <1>2, <1>4, <2>2, OthersAreTold
    <3>2. \A b \in Browsers : CopyOK(b, d) => CopyOK(b, d)'
      BY <1>3, <3>1, SameCopies
    <3> QED BY <1>3, <2>1, <3>1, <3>2 DEF Told
  <2>3. CASE d = c
    <3>1. \A j \in Calls : ~HoldsSummary(j, d)
      BY <1>1, <1>3, <2>3, Crossing DEF HoldsSummary
    <3>2. \A j \in Calls \ {k} : ~HoldsSummary(j, d)'
      BY <1>5, <3>1 DEF HoldsSummary
    <3>3. TellsRead(k, d)' /\ ~Tells(k, d)'
      BY <1>2, <1>5, <2>3 DEF TellsRead, Tells
    <3>4. HolderOK(d)'
      BY <1>2, <1>4, <1>5, <2>3, <3>2, <3>3 DEF HolderOK
    <3>5. WillRead(d) => WillRead(d)'
      BY <1>1, <1>5 DEF WillRead
    <3>6. ASSUME NEW copy, Follows(copy, d) PROVE Follows(copy, d)'
      BY <1>4, <2>3, <3>1, <3>3, <3>5, <3>6 DEF Follows, Tells, HoldsSummary
    <3>7. \A b \in Browsers : CopyOK(b, d) => CopyOK(b, d)'
      BY <1>3, <3>6, SameCopies
    <3> QED BY <1>3, <2>1, <3>4, <3>7 DEF Told
  <2> QED BY <2>2, <2>3
<1> QED BY <1>3, <1>6, SameRows DEF FollowInv

(* A sent summary: who is connected patches the row it holds, or has       *)
(* missed it.                                                              *)
LEMMA HolderAlone ==
    ASSUME FollowInv, NEW k \in Calls, NEW d \in Contacts \ crossed, HoldsSummary(k, d)
    PROVE  /\ \A j \in Calls \ {k} : ~HoldsSummary(j, d)
           /\ call[k].row.read = contact[d].read
           /\ Tells(k, d) => call[k].row.last = contact[d].last \/ WillRead(d)
BY DEF FollowInv, Told, HolderOK

LEMMA AfterSending ==
    ASSUME FollowInv, NEW k \in Calls, NEW d \in Contacts \ crossed, HoldsSummary(k, d),
           Moves(k, Free), contact' = contact
    PROVE  /\ HolderOK(d)'
           /\ WillRead(d)' <=> WillRead(d)
<1>1. call'[k] = Free /\ \A j \in Calls \ {k} : call'[j] = call[j]
  BY DEF Moves
<1>2. \A j \in Calls : ~HoldsSummary(j, d)'
  BY <1>1, HolderAlone, FreeIsSilent DEF HoldsSummary
<1>3. call[k].step # "contact"
  BY DEF HoldsSummary
<1> QED BY <1>1, <1>2, <1>3, FreeIsSilent DEF HolderOK, WillRead

(* What the other contacts' rows are told by an event of one contact.      *)
LEMMA OtherRowsTold ==
    ASSUME FollowInv, NEW k \in Calls, Moves(k, Free), contact' = contact,
           fetch' = fetch, missed \subseteq missed',
           NEW d \in Contacts \ crossed, d # call[k].who,
           \A b \in Browsers, ch \in Channels :
               /\ d \in DOMAIN rows'[b][ch] <=> d \in DOMAIN rows[b][ch]
               /\ d \in DOMAIN rows[b][ch] => rows'[b][ch][d] = rows[b][ch][d]
    PROVE  Told(d)'
<1>1. Told(d)
  BY DEF FollowInv
<1>2. /\ HolderOK(d) => HolderOK(d)'
      /\ \A copy : Follows(copy, d) => Follows(copy, d)'
  BY OthersAreTold, FreeIsSilent
<1>3. \A b \in Browsers : CopyOK(b, d) => CopyOK(b, d)'
  BY <1>2 DEF CopyOK
<1> QED BY <1>1, <1>2, <1>3 DEF Told

(* Who has not missed it holds at most the row of the one list.            *)
LEMMA PatchedInTime ==
    ASSUME FollowInv, NEW c \in Contacts, NEW key \in Channels, Miss(c, key),
           NEW b \in Browsers, <<b, c>> \notin missed'
    PROVE  /\ b \in online /\ <<b, c>> \notin missed
           /\ \A ch \in Channels : /\ fetch[b][ch].state # "answered"
                                   /\ ch # key => c \notin DOMAIN rows[b][ch]
<1>1. <<b, c>> \notin missed
  BY DEF Miss
<1>2. b \in online
  BY <1>1 DEF FollowInv, AwayMissed
<1>3. <<b, c>> \in online \X {c}
  BY <1>2
<1>4. ~\E ch \in Channels :
          fetch[b][ch].state = "answered" \/ (ch # key /\ c \in DOMAIN rows[b][ch])
  BY <1>3 DEF Miss
<1> QED BY <1>1, <1>2, <1>4

LEMMA EmitUpdatedFollows ==
    ASSUME FollowInv, IInv', NEW k \in Calls, EmitUpdated(k) PROVE FollowInv'
<1> DEFINE c == call[k].who
           key == call[k].channel
           row == call[k].row
<1>1. /\ call[k].step = "emit" /\ c \in Contacts /\ key \in Channels /\ row \in Row
      /\ Moves(k, Free)
  BY FinishMoves DEF EmitUpdated, At, FollowInv, IInv, ServerTypeOK, Busy, CallRec
<1>2. UNCHANGED <<contact, fetch, online, crossed>> /\ Miss(c, key)
  BY DEF EmitUpdated
<1>3. missed \subseteq missed'
  BY <1>2 DEF Miss
<1>4. /\ DOMAIN rows' = Browsers
      /\ \A b \in Browsers : /\ DOMAIN rows'[b] = DOMAIN rows[b]
                             /\ b \notin online => rows'[b] = rows[b]
                             /\ \A ch \in Channels \ {key} : rows'[b][ch] = rows[b][ch]
                             /\ rows'[b][key] \in {rows[b][key], Patch(rows[b][key], c, row)}
                             /\ b \in online => rows'[b][key] = Patch(rows[b][key], c, row)
  BY <1>1 DEF EmitUpdated, FollowInv, BrowserTypeOK
<1>5. \A b \in Browsers :
          LET held == rows[b][key] new == Patch(held, c, row) IN
          /\ DOMAIN new = DOMAIN held
          /\ c \in DOMAIN new => new[c] = row
          /\ \A d \in DOMAIN held \ {c} : new[d] = held[d]
  BY DEF Patch
<1> HIDE DEF key, row, c
<1>6. \A b \in Browsers, ch \in Channels :
          /\ DOMAIN rows'[b][ch] = DOMAIN rows[b][ch]
          /\ \A d \in DOMAIN rows[b][ch] : rows'[b][ch][d] \in {rows[b][ch][d], row}
          /\ \A d \in DOMAIN rows[b][ch] \ {c} : rows'[b][ch][d] = rows[b][ch][d]
  BY <1>4, <1>5
<1>7. BrowserTypeOK'
  BY <1>1, <1>2, <1>4, <1>6 DEF FollowInv, BrowserTypeOK, HeldOK, Fetched
<1>8. AwayMissed'
  BY <1>2, <1>3 DEF FollowInv, AwayMissed
<1>9. ASSUME NEW d \in Contacts \ crossed' PROVE Told(d)'
  <2>1. CASE d # c
    <3>1. \A b \in Browsers, ch \in Channels :
              /\ d \in DOMAIN rows'[b][ch] <=> d \in DOMAIN rows[b][ch]
              /\ d \in DOMAIN rows[b][ch] => rows'[b][ch][d] = rows[b][ch][d]
      BY <1>6, <2>1
    <3> QED BY <1>1, <1>2, <1>3, <2>1, <3>1, OtherRowsTold DEF c
  <2>2. CASE d = c
    <3>1. HoldsSummary(k, d) /\ Tells(k, d)
      BY <1>1, <2>2 DEF HoldsSummary, Tells, c
    <3>2. HolderOK(d)' /\ (WillRead(d)' <=> WillRead(d))
      BY <1>1, <1>2, <3>1, AfterSending
    <3>3. row.read = contact[d].read /\ (row.last = contact[d].last \/ WillRead(d))
      BY <1>2, <3>1, HolderAlone DEF row
    <3>4. \A copy : copy = row => Follows(copy, d)'
      BY <1>2, <3>2, <3>3 DEF Follows
    <3>5. ASSUME NEW b \in Browsers, <<b, d>> \notin missed' PROVE CopyOK(b, d)'
      <4>1. /\ b \in online
            /\ \A ch \in Channels : /\ fetch[b][ch].state # "answered"
                                    /\ ch # key => d \notin DOMAIN rows[b][ch]
        BY <1>1, <1>2, <2>2, <3>5, PatchedInTime
      <4>2. d \in DOMAIN rows'[b][key] => rows'[b][key][d] = row
        BY <1>4, <1>5, <2>2, <4>1
      <4>3. \A ch \in Channels \ {key} : d \notin DOMAIN rows'[b][ch]
        BY <1>6, <4>1
      <4> QED BY <1>2, <3>4, <4>1, <4>2, <4>3 DEF CopyOK
    <3> QED BY <3>2, <3>5 DEF Told
  <2> QED BY <2>1, <2>2
<1> QED BY <1>7, <1>8, <1>9 DEF FollowInv

LEMMA EmitNewFollows ==
    ASSUME FollowInv, IInv', NEW k \in Calls, EmitNew(k) PROVE FollowInv'
<1> DEFINE c == call[k].who
           key == call[k].channel
           row == call[k].row
<1>1. /\ call[k].step = "emit" /\ c \in Contacts /\ key \in Channels /\ row \in Row
      /\ Moves(k, Free)
  BY FinishMoves DEF EmitNew, At, FollowInv, IInv, ServerTypeOK, Busy, CallRec
<1>2. UNCHANGED <<contact, fetch, online, crossed>> /\ Miss(c, key)
  BY DEF EmitNew
<1>3. missed \subseteq missed'
  BY <1>2 DEF Miss
<1>4. /\ DOMAIN rows' = Browsers
      /\ \A b \in Browsers :
            /\ DOMAIN rows'[b] = DOMAIN rows[b]
            /\ (b \notin online \/ ~Fetched(b, key)) => rows'[b] = rows[b]
            /\ (b \in online /\ Fetched(b, key)) => rows'[b][key] = With(rows[b][key], c, row)
            /\ \A ch \in Channels \ {key} : rows'[b][ch] = rows[b][ch]
  BY <1>1 DEF EmitNew, FollowInv, BrowserTypeOK
<1>5. \A b \in Browsers :
          LET held == rows[b][key] new == With(held, c, row) IN
          /\ DOMAIN new = DOMAIN held \cup {c}
          /\ new[c] = row
          /\ \A d \in DOMAIN held \ {c} : new[d] = held[d]
  BY DEF With
<1> HIDE DEF key, row, c
<1>6. ASSUME NEW b \in Browsers, NEW ch \in Channels
      PROVE  /\ DOMAIN rows'[b][ch] \subseteq DOMAIN rows[b][ch] \cup {c}
             /\ \A d \in DOMAIN rows'[b][ch] :
                   rows'[b][ch][d] = row \/ (d \in DOMAIN rows[b][ch] /\ rows'[b][ch][d] = rows[b][ch][d])
             /\ \A d \in DOMAIN rows[b][ch] \ {c} :
                   d \in DOMAIN rows'[b][ch] /\ rows'[b][ch][d] = rows[b][ch][d]
             /\ ~Fetched(b, ch) => rows'[b][ch] = rows[b][ch]
  <2>1. CASE ch # key \/ b \notin online \/ ~Fetched(b, key)
    BY <1>4, <2>1
  <2>2. CASE ch = key /\ b \in online /\ Fetched(b, key)
    <3> DEFINE new == rows'[b][ch]
    <3>1. new = With(rows[b][ch], c, row)
      BY <1>4, <2>2
    <3>2. /\ DOMAIN new = DOMAIN rows[b][ch] \cup {c}
          /\ new[c] = row
          /\ \A d \in DOMAIN rows[b][ch] \ {c} : new[d] = rows[b][ch][d]
      BY <1>5, <2>2, <3>1
    <3> HIDE DEF new
    <3>3. \A d \in DOMAIN new : new[d] = row \/ (d \in DOMAIN rows[b][ch] /\ new[d] = rows[b][ch][d])
      BY <3>2
    <3> QED BY <2>2, <3>2, <3>3 DEF new
  <2> QED BY <2>1, <2>2
<1>7. BrowserTypeOK'
  <2>1. ASSUME NEW b \in Browsers, NEW ch \in Channels
        PROVE  HeldOK(rows'[b][ch]) /\ (~Fetched(b, ch) => DOMAIN rows'[b][ch] = {})
    BY <1>1, <1>6 DEF FollowInv, BrowserTypeOK, HeldOK
  <2>2. ASSUME NEW b \in Browsers, NEW ch \in Channels
        PROVE  /\ DOMAIN fetch'[b][ch] = {"state", "page", "before"}
               /\ fetch'[b][ch].state = "answered" => HeldOK(fetch'[b][ch].page)
               /\ Fetched(b, ch)' <=> Fetched(b, ch)
    BY <1>2 DEF FollowInv, BrowserTypeOK, Fetched, HeldOK
  <2>3. DOMAIN rows' = Browsers /\ DOMAIN fetch' = Browsers
        /\ \A b \in Browsers : DOMAIN rows'[b] = Channels /\ DOMAIN fetch'[b] = Channels
    BY <1>2, <1>4 DEF FollowInv, BrowserTypeOK
  <2> QED BY <2>1, <2>2, <2>3 DEF BrowserTypeOK, HeldOK
<1>8. AwayMissed'
  BY <1>2, <1>3 DEF FollowInv, AwayMissed
<1>9. ASSUME NEW d \in Contacts \ crossed' PROVE Told(d)'
  <2>1. CASE d # c
    <3>1. \A b \in Browsers, ch \in Channels :
              /\ d \in DOMAIN rows'[b][ch] <=> d \in DOMAIN rows[b][ch]
              /\ d \in DOMAIN rows[b][ch] => rows'[b][ch][d] = rows[b][ch][d]
      BY <1>6, <2>1
    <3> QED BY <1>1, <1>2, <1>3, <2>1, <3>1, OtherRowsTold DEF c
  <2>2. CASE d = c
    <3>1. HoldsSummary(k, d) /\ Tells(k, d)
      BY <1>1, <2>2 DEF HoldsSummary, Tells, c
    <3>2. HolderOK(d)' /\ (WillRead(d)' <=> WillRead(d))
      BY <1>1, <1>2, <3>1, AfterSending
    <3>3. row.read = contact[d].read /\ (row.last = contact[d].last \/ WillRead(d))
      BY <1>2, <3>1, HolderAlone DEF row
    <3>4. \A copy : copy = row => Follows(copy, d)'
      BY <1>2, <3>2, <3>3 DEF Follows
    <3>5. ASSUME NEW b \in Browsers, <<b, d>> \notin missed' PROVE CopyOK(b, d)'
      <4>1. /\ b \in online
            /\ \A ch \in Channels : /\ fetch[b][ch].state # "answered"
                                    /\ ch # key => d \notin DOMAIN rows[b][ch]
        BY <1>1, <1>2, <2>2, <3>5, PatchedInTime
      <4>2. d \in DOMAIN rows'[b][key] => rows'[b][key][d] = row
        <5>1. CASE Fetched(b, key)
          BY <1>4, <1>5, <2>2, <4>1, <5>1
        <5>2. CASE ~Fetched(b, key)
          BY <1>1, <1>4, <5>2 DEF FollowInv, BrowserTypeOK
        <5> QED BY <5>1, <5>2
      <4>3. \A ch \in Channels \ {key} : d \notin DOMAIN rows'[b][ch]
        BY <1>4, <4>1
      <4> QED BY <1>2, <3>4, <4>1, <4>2, <4>3 DEF CopyOK
    <3> QED BY <3>2, <3>5 DEF Told
  <2> QED BY <2>1, <2>2
<1> QED BY <1>7, <1>8, <1>9 DEF FollowInv

LEMMA EmitReadFollows ==
    ASSUME FollowInv, IInv', NEW k \in Calls, EmitRead(k) PROVE FollowInv'
<1> DEFINE c == call[k].who
           read == call[k].row.read
           New(held) == IF c \notin DOMAIN held THEN held ELSE [held EXCEPT ![c].read = read]
<1>1. /\ call[k].step = "emitRead" /\ c \in Contacts /\ read \in Nat
      /\ Moves(k, Free)
  BY FinishMoves DEF EmitRead, At, FollowInv, IInv, ServerTypeOK, Busy, CallRec, Row
<1>2. UNCHANGED <<contact, fetch, online, crossed>>
  BY DEF EmitRead
<1>3. /\ missed \subseteq missed'
      /\ \A b \in online : (\E ch \in Channels : fetch[b][ch].state = "answered")
                              => <<b, c>> \in missed'
  <2>1. missed' = missed \cup
           {p \in online \X {c} : \E ch \in Channels : fetch[p[1]][ch].state = "answered"}
    BY DEF EmitRead
  <2>2. \A b \in online : <<b, c>> \in online \X {c} /\ <<b, c>>[1] = b
    OBVIOUS
  <2> HIDE DEF c
  <2> QED BY <2>1, <2>2
<1>4. /\ DOMAIN rows' = Browsers
      /\ \A b \in Browsers \ online : rows'[b] = rows[b]
      /\ \A b \in Browsers \cap online :
            /\ DOMAIN rows'[b] = Channels
            /\ \A ch \in Channels : rows'[b][ch] = New(rows[b][ch])
  BY DEF EmitRead
<1>5. ASSUME NEW b \in Browsers, NEW ch \in Channels
      PROVE  LET held == rows[b][ch] new == New(held) IN
             /\ DOMAIN new = DOMAIN held
             /\ c \in DOMAIN new => /\ new[c].read = read /\ new[c].last = held[c].last
                                    /\ new[c] \in Row
             /\ \A d \in DOMAIN held \ {c} : new[d] = held[d]
  <2>1. c \in DOMAIN rows[b][ch] => rows[b][ch][c] \in Row
    BY DEF FollowInv, BrowserTypeOK, HeldOK
  <2> QED BY <1>1, <2>1 DEF Row
<1> HIDE DEF read, c, New
<1>6. \A b \in Browsers, ch \in Channels :
          /\ DOMAIN rows'[b][ch] = DOMAIN rows[b][ch]
          /\ \A d \in DOMAIN rows[b][ch] \ {c} : rows'[b][ch][d] = rows[b][ch][d]
  BY <1>4, <1>5
<1>7. BrowserTypeOK'
  <2>1. ASSUME NEW b \in Browsers, NEW ch \in Channels
        PROVE  HeldOK(rows'[b][ch]) /\ (~Fetched(b, ch) => DOMAIN rows'[b][ch] = {})
    <3>1. HeldOK(rows[b][ch]) /\ (~Fetched(b, ch) => DOMAIN rows[b][ch] = {})
      BY DEF FollowInv, BrowserTypeOK
    <3>2. CASE b \in online
      <4>1. rows'[b][ch] = New(rows[b][ch])
        BY <1>4, <3>2
      <4>2. DOMAIN rows'[b][ch] \subseteq Contacts
        BY <1>6, <3>1 DEF HeldOK
      <4>3. ASSUME NEW d \in DOMAIN rows'[b][ch] PROVE rows'[b][ch][d] \in Row
        <5>1. CASE d = c
          BY <1>5, <4>1, <4>3, <5>1
        <5>2. CASE d # c
          BY <1>6, <3>1, <4>3, <5>2 DEF HeldOK
        <5> QED BY <5>1, <5>2
      <4> QED BY <1>6, <3>1, <4>2, <4>3 DEF HeldOK
    <3>3. CASE b \notin online
      BY <1>4, <3>1, <3>3
    <3> QED BY <3>2, <3>3
  <2>2. ASSUME NEW b \in Browsers, NEW ch \in Channels
        PROVE  /\ DOMAIN fetch'[b][ch] = {"state", "page", "before"}
               /\ fetch'[b][ch].state = "answered" => HeldOK(fetch'[b][ch].page)
               /\ Fetched(b, ch)' <=> Fetched(b, ch)
    BY <1>2 DEF FollowInv, BrowserTypeOK, Fetched, HeldOK
  <2>3. DOMAIN rows' = Browsers /\ DOMAIN fetch' = Browsers
        /\ \A b \in Browsers : DOMAIN rows'[b] = Channels /\ DOMAIN fetch'[b] = Channels
    BY <1>2, <1>4 DEF FollowInv, BrowserTypeOK
  <2> QED BY <2>1, <2>2, <2>3 DEF BrowserTypeOK, HeldOK
<1>8. AwayMissed'
  BY <1>2, <1>3 DEF FollowInv, AwayMissed
<1>9. ASSUME NEW d \in Contacts \ crossed' PROVE Told(d)'
  <2>1. CASE d # c
    <3>1. \A b \in Browsers, ch \in Channels :
              /\ d \in DOMAIN rows'[b][ch] <=> d \in DOMAIN rows[b][ch]
              /\ d \in DOMAIN rows[b][ch] => rows'[b][ch][d] = rows[b][ch][d]
      BY <1>6, <2>1
    <3> QED BY <1>1, <1>2, <1>3, <2>1, <3>1, OtherRowsTold DEF c
  <2>2. CASE d = c
    <3>1. HoldsSummary(k, d) /\ ~Tells(k, d)
      BY <1>1, <2>2 DEF HoldsSummary, Tells, c
    <3>2. HolderOK(d)' /\ (WillRead(d)' <=> WillRead(d))
      BY <1>1, <1>2, <3>1, AfterSending
    <3>3. read = contact[d].read /\ \A j \in Calls : ~Tells(j, d)
      BY <1>2, <3>1, HolderAlone DEF read, Tells, HoldsSummary
    <3>4. ASSUME NEW copy, Follows(copy, d), NEW new, new.last = copy.last, new.read = read
          PROVE  Follows(new, d)'
      BY <1>2, <3>2, <3>3, <3>4 DEF Follows
    <3>5. ASSUME NEW b \in Browsers, <<b, d>> \notin missed' PROVE CopyOK(b, d)'
      <4>1. <<b, d>> \notin missed /\ b \in online
        BY <1>3, <3>5 DEF FollowInv, AwayMissed
      <4>2. \A ch \in Channels : fetch[b][ch].state # "answered"
        BY <1>3, <2>2, <3>5, <4>1
      <4>3. CopyOK(b, d)
        BY <1>2, <4>1 DEF FollowInv, Told
      <4>4. ASSUME NEW ch \in Channels, d \in DOMAIN rows'[b][ch]
            PROVE  Follows(rows[b][ch][d], d) /\ rows'[b][ch][d].last = rows[b][ch][d].last
                   /\ rows'[b][ch][d].read = read
        BY <1>4, <1>5, <1>6, <2>2, <4>1, <4>3, <4>4 DEF CopyOK
      <4>5. \A ch \in Channels : \A new :
               (d \in DOMAIN rows'[b][ch] /\ new = rows'[b][ch][d]) => Follows(new, d)'
        BY <3>4, <4>4
      <4> QED BY <1>2, <4>2, <4>5 DEF CopyOK
    <3> QED BY <3>2, <3>5 DEF Told
  <2> QED BY <2>1, <2>2
<1> QED BY <1>7, <1>8, <1>9 DEF FollowInv

LEMMA AdvanceFollows ==
    ASSUME FollowInv, IInv', NEW k \in Calls, Advance(k) PROVE FollowInv'
BY TakeSeqFollows, CommitFollows, RollBackFollows, ReadContactFollows, ReadLatestFollows,
   EmitUpdatedFollows, EmitNewFollows, CheckMarkFollows, UpdateReadFollows, EmitReadFollows
   DEF Advance

LEMMA ArriveFollows ==
    ASSUME FollowInv, IInv', NEW k \in Calls, NEW c \in Contacts, Arrive(k, c)
    PROVE  FollowInv'
<1>1. UNCHANGED <<rows, fetch, online>>
  BY DEF Arrive, AppendMessage, Refresh, NewEnquiry, browser
<1>2. \/ \E ch \in Channels : Start(k, "append", "begin", c, ch)
      \/ Start(k, "refresh", "contact", c, Chat)
      \/ Start(k, "enquiry", "contact", c, Chat)
  BY DEF Arrive, AppendMessage, Refresh, NewEnquiry
<1> QED BY <1>1, <1>2, StartFollows, InboxAssumption

LEMMA DeliverFollows == ASSUME FollowInv, IInv', Deliver PROVE FollowInv'
<1>1. PICK k \in Calls, b \in Browsers, c \in Contacts : TakeMark(k, b, c)
  BY DEF Deliver
<1>2. UNCHANGED <<rows, fetch, online>> /\ Start(k, "mark", "check", c, Chat)
  BY <1>1 DEF TakeMark
<1> QED BY <1>2, StartFollows, InboxAssumption

-----------------------------------------------------------------------------
(* The browsers' own steps.                                                *)
LEMMA SameServer ==
    ASSUME UNCHANGED <<contact, call>>, NEW d
    PROVE  /\ HolderOK(d)' <=> HolderOK(d)
           /\ \A copy : Follows(copy, d)' <=> Follows(copy, d)
BY DEF HolderOK, Follows, HoldsSummary, Tells, TellsRead, WillRead

LEMMA SameListsFollow ==
    ASSUME FollowInv, IInv', UNCHANGED <<server, rows, fetch, crossed>>,
           missed \subseteq missed', online \cap Browsers \subseteq online'
    PROVE  FollowInv'
<1>1. BrowserTypeOK' /\ AwayMissed'
  BY DEF FollowInv, BrowserTypeOK, AwayMissed, Fetched, HeldOK
<1>2. ASSUME NEW d \in Contacts \ crossed' PROVE Told(d)'
  <2>1. Told(d) /\ UNCHANGED <<contact, call, rows, fetch>>
    BY <1>2 DEF FollowInv, server
  <2>2. \A b \in Browsers : CopyOK(b, d) => CopyOK(b, d)'
    BY <2>1, SameServer, SameCopies
  <2> QED BY <2>1, <2>2, SameServer DEF Told
<1> QED BY <1>1, <1>2 DEF FollowInv

LEMMA DisconnectFollows ==
    ASSUME FollowInv, IInv', NEW b \in Browsers, Disconnect(b) PROVE FollowInv'
<1>1. UNCHANGED <<contact, call, rows, fetch, crossed>>
  BY DEF Disconnect, server
<1>2. online' = online \ {b} /\ missed' = missed \cup ({b} \X Contacts)
  BY DEF Disconnect
<1>3. BrowserTypeOK'
  BY <1>1 DEF FollowInv, BrowserTypeOK, Fetched, HeldOK
<1>4. AwayMissed'
  BY <1>2 DEF FollowInv, AwayMissed
<1>5. ASSUME NEW d \in Contacts \ crossed' PROVE Told(d)'
  <2>1. Told(d)
    BY <1>1 DEF FollowInv
  <2>2. \A a \in Browsers : CopyOK(a, d) => CopyOK(a, d)'
    BY <1>1, SameServer, SameCopies
  <2> QED BY <1>1, <1>2, <2>1, <2>2, SameServer DEF Told
<1> QED BY <1>3, <1>4, <1>5 DEF FollowInv

(* A list that is asked for, answered or applied: only this browser's list *)
(* of this channel is of account.                                          *)
LEMMA OneListFollows ==
    ASSUME FollowInv, IInv', UNCHANGED <<server, online, crossed, missed>>,
           NEW b \in Browsers, NEW ch \in Channels, NEW held, NEW f,
           rows' = [rows EXCEPT ![b][ch] = held] \/ (rows' = rows /\ held = rows[b][ch]),
           fetch' = [fetch EXCEPT ![b][ch] = f],
           HeldOK(held), DOMAIN f = {"state", "page", "before"},
           f.state = "answered" => HeldOK(f.page),
           f.before \/ DOMAIN held = {},
           \A d \in Contacts \ crossed : <<b, d>> \notin missed =>
               /\ d \in DOMAIN held => Follows(held[d], d)
               /\ (f.state = "answered" /\ d \in DOMAIN f.page) => Follows(f.page[d], d)
    PROVE  FollowInv'
<1> USE DEF FollowInv
<1>1. /\ DOMAIN rows' = Browsers /\ DOMAIN fetch' = Browsers
      /\ \A a \in Browsers : DOMAIN rows'[a] = Channels /\ DOMAIN fetch'[a] = Channels
      /\ rows'[b][ch] = held /\ fetch'[b][ch] = f
  BY DEF BrowserTypeOK
<1>2. \A a \in Browsers, x \in Channels : (a # b \/ x # ch) =>
          rows'[a][x] = rows[a][x] /\ fetch'[a][x] = fetch[a][x]
  BY DEF BrowserTypeOK
<1>3. ASSUME NEW a \in Browsers, NEW x \in Channels
      PROVE  /\ HeldOK(rows'[a][x])
             /\ DOMAIN fetch'[a][x] = {"state", "page", "before"}
             /\ fetch'[a][x].state = "answered" => HeldOK(fetch'[a][x].page)
             /\ ~fetch'[a][x].before => DOMAIN rows'[a][x] = {}
  <2>1. CASE a # b \/ x # ch
    BY <1>2, <2>1 DEF BrowserTypeOK, Fetched
  <2>2. CASE a = b /\ x = ch
    BY <1>1, <2>2
  <2> QED BY <2>1, <2>2
<1>4. BrowserTypeOK'
  BY <1>1, <1>3 DEF BrowserTypeOK, Fetched, HeldOK
<1>5. AwayMissed'
  BY DEF AwayMissed
<1>6. ASSUME NEW d \in Contacts \ crossed' PROVE Told(d)'
  <2>1. Told(d) /\ UNCHANGED <<contact, call>>
    BY DEF server
  <2>2. ASSUME NEW a \in Browsers, <<a, d>> \notin missed', NEW x \in Channels, NEW copy,
               \/ d \in DOMAIN rows'[a][x] /\ copy = rows'[a][x][d]
               \/ /\ fetch'[a][x].state = "answered" /\ d \in DOMAIN fetch'[a][x].page
                  /\ copy = fetch'[a][x].page[d]
        PROVE  Follows(copy, d)'
    <3>1. Follows(copy, d)
      <4>1. CASE a # b \/ x # ch
        BY <1>2, <2>1, <2>2, <4>1 DEF Told, CopyOK
      <4>2. CASE a = b /\ x = ch
        BY <1>1, <2>2, <4>2
      <4> QED BY <4>1, <4>2
    <3> QED BY <2>1, <3>1, SameServer
  <2>3. \A a \in Browsers : <<a, d>> \notin missed' => CopyOK(a, d)'
    BY <2>2 DEF CopyOK
  <2> QED BY <2>1, <2>3, SameServer DEF Told
<1> QED BY <1>4, <1>5, <1>6

LEMMA ListOfBrowser ==
    ASSUME FollowInv, NEW b \in Browsers, NEW ch \in Channels
    PROVE  /\ HeldOK(rows[b][ch])
           /\ DOMAIN fetch[b][ch] = {"state", "page", "before"}
           /\ fetch[b][ch].state = "answered" => HeldOK(fetch[b][ch].page)
           /\ fetch[b][ch].before \/ DOMAIN rows[b][ch] = {}
           /\ \A d \in Contacts \ crossed : <<b, d>> \notin missed =>
                 /\ d \in DOMAIN rows[b][ch] => Follows(rows[b][ch][d], d)
                 /\ (fetch[b][ch].state = "answered" /\ d \in DOMAIN fetch[b][ch].page) =>
                       Follows(fetch[b][ch].page[d], d)
<1> USE DEF FollowInv, BrowserTypeOK, Fetched
<1>1. ASSUME NEW d \in Contacts \ crossed, <<b, d>> \notin missed
      PROVE  /\ d \in DOMAIN rows[b][ch] => Follows(rows[b][ch][d], d)
             /\ (fetch[b][ch].state = "answered" /\ d \in DOMAIN fetch[b][ch].page) =>
                   Follows(fetch[b][ch].page[d], d)
  BY <1>1 DEF Told, CopyOK
<1>2. HeldOK(rows[b][ch]) /\ DOMAIN fetch[b][ch] = {"state", "page", "before"}
      /\ (fetch[b][ch].state = "answered" => HeldOK(fetch[b][ch].page))
      /\ (fetch[b][ch].before \/ DOMAIN rows[b][ch] = {})
  OBVIOUS
<1> QED BY <1>1, <1>2

LEMMA AskListFollows ==
    ASSUME FollowInv, IInv', NEW b \in Browsers, NEW ch \in Channels, AskList(b, ch)
    PROVE  FollowInv'
<1> DEFINE f == [fetch[b][ch] EXCEPT !.state = "asked"]
           held == rows[b][ch]
<1>1. /\ UNCHANGED <<server, rows, online, crossed, missed>>
      /\ fetch' = [fetch EXCEPT ![b][ch] = f]
  BY DEF AskList
<1>2. DOMAIN f = {"state", "page", "before"} /\ f.state = "asked"
      /\ f.before = fetch[b][ch].before
  BY ListOfBrowser
<1> HIDE DEF f
<1>3. UNCHANGED <<server, online, crossed, missed>>
  BY <1>1
<1>4. rows' = rows /\ held = rows[b][ch]
  BY <1>1
<1>5. /\ HeldOK(held) /\ (f.before \/ DOMAIN held = {})
      /\ f.state # "answered"
      /\ \A d \in Contacts \ crossed :
             (<<b, d>> \notin missed /\ d \in DOMAIN held) => Follows(held[d], d)
  BY <1>2, ListOfBrowser
<1> HIDE DEF held
<1> QED BY <1>1, <1>2, <1>3, <1>4, <1>5, OneListFollows

LEMMA AnswerListFollows ==
    ASSUME FollowInv, IInv', NEW b \in Browsers, NEW ch \in Channels, AnswerList(b, ch)
    PROVE  FollowInv'
<1> DEFINE S == {c \in Contacts : \E m \in stored[c] : m.channel = ch}
           page == [c \in S |-> contact[c]]
           f == [fetch[b][ch] EXCEPT !.state = "answered", !.page = page]
           held == rows[b][ch]
<1>1. /\ UNCHANGED <<server, rows, online, crossed, missed>>
      /\ fetch' = [fetch EXCEPT ![b][ch] = f]
  BY DEF AnswerList
<1>2. DOMAIN f = {"state", "page", "before"} /\ f.page = page
      /\ f.before = fetch[b][ch].before
  BY ListOfBrowser
<1> HIDE DEF f
<1>3. HeldOK(page) /\ \A d \in DOMAIN page : page[d] = contact[d]
  BY DEF HeldOK, FollowInv, IInv, ServerTypeOK
<1> HIDE DEF page
<1>4. rows' = rows /\ held = rows[b][ch]
  BY <1>1
<1>5. /\ HeldOK(held) /\ (f.before \/ DOMAIN held = {})
      /\ \A d \in Contacts \ crossed :
             (<<b, d>> \notin missed /\ d \in DOMAIN held) => Follows(held[d], d)
  BY <1>2, ListOfBrowser
<1>6. \A d \in DOMAIN page : Follows(page[d], d)
  BY <1>3 DEF Follows
<1>7. /\ f.state = "answered" => HeldOK(f.page)
      /\ \A d \in Contacts \ crossed :
             (<<b, d>> \notin missed /\ f.state = "answered" /\ d \in DOMAIN f.page) => Follows(f.page[d], d)
  BY <1>2, <1>3, <1>6
<1>8. UNCHANGED <<server, online, crossed, missed>>
  BY <1>1
<1> HIDE DEF held
<1> QED BY <1>1, <1>2, <1>4, <1>5, <1>7, <1>8, OneListFollows

LEMMA ApplyListFollows ==
    ASSUME FollowInv, IInv', NEW b \in Browsers, NEW ch \in Channels, ApplyList(b, ch)
    PROVE  FollowInv'
<1> DEFINE held == fetch[b][ch].page
<1>1. /\ UNCHANGED <<server, online, crossed, missed>>
      /\ rows' = [rows EXCEPT ![b][ch] = held]
      /\ fetch' = [fetch EXCEPT ![b][ch] = NoFetch]
      /\ fetch[b][ch].state = "answered"
  BY DEF ApplyList
<1>2. DOMAIN NoFetch = {"state", "page", "before"} /\ NoFetch.state # "answered" /\ NoFetch.before
  BY DEF NoFetch
<1>3. /\ HeldOK(held)
      /\ \A d \in Contacts \ crossed :
             (<<b, d>> \notin missed /\ d \in DOMAIN held) => Follows(held[d], d)
  BY <1>1, ListOfBrowser
<1> HIDE DEF held
<1> QED BY <1>1, <1>2, <1>3, OneListFollows

LEMMA BrowserFollows ==
    ASSUME FollowInv, IInv', NEW b \in Browsers,
           \/ Effect(b) \/ Hide(b) \/ Show(b) \/ Reconnect(b)
           \/ \E c \in Contacts : ClickRow(b, c)
    PROVE  FollowInv'
<1>1. UNCHANGED <<server, rows, fetch, crossed, missed>> /\ online \subseteq online'
  BY DEF Effect, TryMarkRead, Hide, Show, Reconnect, ClickRow
<1> QED BY <1>1, SameListsFollow

LEMMA FollowStep == FollowInv /\ [Next]_vars => FollowInv'
<1> SUFFICES ASSUME FollowInv, [Next]_vars PROVE FollowInv'
  OBVIOUS
<1>1. IInv'
  BY StepOK DEF FollowInv
<1>2. ASSUME NEW k \in Calls, Advance(k) PROVE FollowInv'
  BY <1>1, <1>2, AdvanceFollows
<1>3. ASSUME NEW k \in Calls, NEW c \in Contacts, Arrive(k, c) PROVE FollowInv'
  BY <1>1, <1>3, ArriveFollows
<1>4. ASSUME Deliver PROVE FollowInv'
  BY <1>1, <1>4, DeliverFollows
<1>5. ASSUME NEW b \in Browsers, Effect(b) \/ Hide(b) \/ Show(b) \/ Reconnect(b)
      PROVE  FollowInv'
  BY <1>1, <1>5, BrowserFollows
<1>6. ASSUME NEW b \in Browsers, Disconnect(b) PROVE FollowInv'
  BY <1>1, <1>6, DisconnectFollows
<1>7. ASSUME NEW b \in Browsers, NEW ch \in Channels,
             AskList(b, ch) \/ AnswerList(b, ch) \/ ApplyList(b, ch)
      PROVE  FollowInv'
  BY <1>1, <1>7, AskListFollows, AnswerListFollows, ApplyListFollows
<1>8. ASSUME NEW b \in Browsers, NEW c \in Contacts, ClickRow(b, c) PROVE FollowInv'
  BY <1>1, <1>8, BrowserFollows
<1>9. CASE UNCHANGED vars
  BY <1>1, <1>9, SameListsFollow DEF vars, browser
<1> QED BY <1>2, <1>3, <1>4, <1>5, <1>6, <1>7, <1>8, <1>9 DEF Next

LEMMA FollowInit == Init => FollowInv
<1> SUFFICES ASSUME Init PROVE FollowInv
  OBVIOUS
<1>1. IInv
  BY InitOK
<1>2. \A k \in Calls : call[k].step = "begin"
  BY FreeIsSilent DEF Init
<1> DEFINE empty == <<>>
<1>3. HeldOK(empty) /\ DOMAIN empty = {}
  BY DEF HeldOK
<1>4. HeldOK(contact)
  BY <1>1 DEF HeldOK, IInv, ServerTypeOK
<1> HIDE DEF empty
<1>5. /\ DOMAIN rows = Browsers /\ DOMAIN fetch = Browsers
      /\ \A b \in Browsers, ch \in Channels :
            /\ DOMAIN rows[b] = Channels /\ DOMAIN fetch[b] = Channels
            /\ rows[b][ch] = (IF left["fetches"] = 0 /\ ch = Chat THEN contact ELSE empty)
            /\ fetch[b][ch] = [NoFetch EXCEPT !.before = left["fetches"] = 0]
  BY DEF Init, empty
<1>6. \A b \in Browsers, ch \in Channels :
          /\ DOMAIN fetch[b][ch] = {"state", "page", "before"} /\ fetch[b][ch].state = "none"
          /\ left["fetches"] = 0 => fetch[b][ch].before
  <2> SUFFICES ASSUME NEW b \in Browsers, NEW ch \in Channels
               PROVE  /\ DOMAIN fetch[b][ch] = {"state", "page", "before"}
                      /\ fetch[b][ch].state = "none"
                      /\ left["fetches"] = 0 => fetch[b][ch].before
    OBVIOUS
  <2> DEFINE none(yes) == [NoFetch EXCEPT !.before = yes]
  <2>1. \A yes : DOMAIN none(yes) = {"state", "page", "before"} /\ none(yes).state = "none"
                 /\ none(yes).before = yes
    BY DEF NoFetch
  <2> HIDE DEF none
  <2>2. fetch[b][ch] = none(left["fetches"] = 0)
    BY <1>5 DEF none
  <2> QED BY <2>1, <2>2
<1>7. \A b \in Browsers : DOMAIN rows[b] = Channels /\ DOMAIN fetch[b] = Channels
  BY DEF Init
<1>8. BrowserTypeOK
  <2>1. ASSUME NEW b \in Browsers, NEW ch \in Channels
        PROVE  HeldOK(rows[b][ch]) /\ (~Fetched(b, ch) => DOMAIN rows[b][ch] = {})
    BY <1>3, <1>4, <1>5, <1>6 DEF Fetched
  <2> QED BY <1>5, <1>6, <1>7, <2>1 DEF BrowserTypeOK
<1>9. AwayMissed
  BY DEF Init, AwayMissed
<1>10. ASSUME NEW d \in Contacts PROVE Told(d)
  <2>1. HolderOK(d)
    BY <1>2 DEF HolderOK, HoldsSummary
  <2>2. Follows(contact[d], d)
    BY DEF Follows
  <2>3. \A b \in Browsers : CopyOK(b, d)
    BY <1>3, <1>5, <1>6, <2>2 DEF CopyOK
  <2> QED BY <2>1, <2>3 DEF Told
<1> QED BY <1>1, <1>8, <1>9, <1>10 DEF FollowInv

LEMMA FollowsGivesRows == FollowInv => RowsFollow
<1> SUFFICES ASSUME FollowInv, NEW b \in Browsers, NEW c \in Contacts, NEW ch \in Channels,
                    Quiet(b, c), c \notin crossed, <<b, c>> \notin missed,
                    c \in DOMAIN rows[b][ch]
             PROVE  rows[b][ch][c] = contact[c]
  BY DEF RowsFollow
<1>1. Follows(rows[b][ch][c], c)
  BY DEF FollowInv, Told, CopyOK
<1>2. rows[b][ch][c] \in Row /\ contact[c] \in Row
  BY DEF FollowInv, BrowserTypeOK, HeldOK, IInv, ServerTypeOK
<1>3. rows[b][ch][c].last = contact[c].last /\ rows[b][ch][c].read = contact[c].read
  BY <1>1 DEF Follows, Quiet, WillRead, Tells, TellsRead
<1> QED BY <1>2, <1>3 DEF Row

(* For any number of browsers, contacts, channels and handlers, and        *)
(* however their steps, the fetches of lists and lost connections          *)
(* interleave, a row that a browser keeps becomes the contact's as soon as *)
(* the contact's handlers are done, unless two of them held a summary at   *)
(* once or the browser could not patch it in time.                         *)
THEOREM CachedRowsFollow == Spec => []RowsFollow
<1>1. Spec => []FollowInv
  BY FollowInit, FollowStep, PTL DEF Spec
<1> QED BY <1>1, FollowsGivesRows, PTL
=============================================================================
