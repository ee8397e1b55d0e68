---------------------------- MODULE RecordsProofs ---------------------------
(***************************************************************************)
(* What is proved of the parts in Records: that the AI answers an enquiry  *)
(* at most once, that a contact keeps a channel and its primary one, that  *)
(* the files of sent messages stay, that what the permission screens       *)
(* report is true, and that the variables of a template are those of its   *)
(* body.  One section each, for any number of everything.                  *)
(***************************************************************************)
EXTENDS Records, FiniteSetTheorems, SequenceTheorems, WellFoundedInduction, TLAPS

(***************************************************************************)
(* Automatic replies: the AI answers an enquiry at most once, for any      *)
(* number of enquiries and whatever happens how often.                     *)
(***************************************************************************)
Senders == {"human", "ai"}
HasAi(s) == \E i \in DOMAIN s : s[i] = "ai"

(* A job that asks or is about to add found nobody's reply, and any reply  *)
(* added since is a human's and was noted.                                 *)
JobsAreFirst ==
    \A e \in Leads : step[e] \in {"ask", "add"} =>
        /\ ~HasAi(replies[e])
        /\ replies[e] = <<>> \/ e \in raced
        /\ lead[e] # "absent"

IInv == AutoReplyTypeOK /\ AiRepliesOnce /\ JobsAreFirst

LEMMA SpendType ==
    ASSUME rest \in [Happenings -> Nat], NEW what \in Happenings, Spend(what)
    PROVE  rest' \in [Happenings -> Nat]
BY DEF Spend, Happenings

LEMMA AppendReply ==
    ASSUME NEW s \in Seq(Senders), NEW x \in Senders
    PROVE  /\ Append(s, x) \in Seq(Senders)
           /\ DOMAIN Append(s, x) = DOMAIN s \cup {Len(s) + 1}
           /\ Len(s) + 1 \notin DOMAIN s
           /\ \A i \in DOMAIN s : Append(s, x)[i] = s[i]
           /\ Append(s, x)[Len(s) + 1] = x
BY SMTT(30)

LEMMA FirstReply ==
    /\ <<>> \in Seq(Senders) /\ <<"human">> \in Seq(Senders)
    /\ ~HasAi(<<>>) /\ ~HasAi(<<"human">>)
BY SMTT(30) DEF Senders, HasAi

LEMMA NoAiNoProblem ==
    ASSUME NEW s, ~HasAi(s), NEW P
    PROVE  \A i \in DOMAIN s : s[i] = "ai" =>
               (\A j \in DOMAIN s : s[j] = "ai" => j = i) /\ (i = 1 \/ P)
BY DEF HasAi

-----------------------------------------------------------------------------
LEMMA InitOK == Init => IInv
<1> SUFFICES ASSUME Init PROVE IInv
  OBVIOUS
<1>1. AutoReplyTypeOK
  BY LimitsAssumption, FirstReply DEF Init, AutoReplyTypeOK, Senders
<1>2. \A e \in Leads : ~HasAi(replies[e])
  BY FirstReply DEF Init
<1>3. AiRepliesOnce
  BY <1>2 DEF AiRepliesOnce, HasAi
<1>4. JobsAreFirst
  BY DEF Init, JobsAreFirst
<1> QED BY <1>1, <1>3, <1>4 DEF IInv

LEMMA CreateOK == ASSUME IInv, NEW e \in Leads, Create(e) PROVE IInv'
<1>1. AutoReplyTypeOK'
  BY SpendType DEF IInv, AutoReplyTypeOK, Create, Happenings
<1>2. AiRepliesOnce'
  BY DEF IInv, AiRepliesOnce, Create
<1>3. JobsAreFirst'
  BY DEF IInv, JobsAreFirst, AutoReplyTypeOK, Create, HasAi
<1> QED BY <1>1, <1>2, <1>3 DEF IInv

LEMMA CreateByStaffOK == ASSUME IInv, NEW e \in Leads, CreateByStaff(e) PROVE IInv'
<1>0. PICK first \in {<<>>, <<"human">>} : replies' = [replies EXCEPT ![e] = first]
  BY DEF CreateByStaff
<1>1. first \in Seq(Senders) /\ ~HasAi(first)
  BY FirstReply
<1> HIDE DEF HasAi
<1>2. AutoReplyTypeOK'
  BY SpendType, <1>0, <1>1 DEF IInv, AutoReplyTypeOK, CreateByStaff, Happenings, Senders
<1>3. ~HasAi(replies'[e]) /\ \A d \in Leads \ {e} : replies'[d] = replies[d]
  BY <1>0, <1>1 DEF IInv, AutoReplyTypeOK
<1>4. AiRepliesOnce'
  BY <1>3, NoAiNoProblem DEF IInv, AiRepliesOnce, CreateByStaff, HasAi
<1>5. step[e] \notin {"ask", "add"}
  BY DEF IInv, JobsAreFirst, CreateByStaff
<1>6. JobsAreFirst'
  BY <1>3, <1>5 DEF IInv, JobsAreFirst, AutoReplyTypeOK, CreateByStaff
<1> QED BY <1>2, <1>4, <1>6 DEF IInv

LEMMA QuietOK ==
    ASSUME IInv, NEW e \in Leads,
           Arm(e) \/ Fire(e) \/ Take(e) \/ EndJob(e) \/ FailJob(e)
    PROVE  IInv'
<1>1. AutoReplyTypeOK'
  BY DEF IInv, AutoReplyTypeOK, Arm, Fire, Take, EndJob, FailJob, Remove
<1>2. AiRepliesOnce'
  BY DEF IInv, AiRepliesOnce, Arm, Fire, Take, EndJob, FailJob
<1>3. JobsAreFirst'
  BY DEF IInv, JobsAreFirst, AutoReplyTypeOK, Arm, Fire, Take, EndJob, FailJob, Remove
<1> QED BY <1>1, <1>2, <1>3 DEF IInv

LEMMA LookOK == ASSUME IInv, NEW e \in Leads, Look(e) PROVE IInv'
<1>1. AutoReplyTypeOK'
  BY DEF IInv, AutoReplyTypeOK, Look
<1>2. AiRepliesOnce'
  BY DEF IInv, AiRepliesOnce, Look
<1>3. JobsAreFirst'
  BY FirstReply DEF IInv, JobsAreFirst, AutoReplyTypeOK, Look, Unanswered
<1> QED BY <1>1, <1>2, <1>3 DEF IInv

LEMMA AiAnswersOK == ASSUME IInv, NEW e \in Leads, AiAnswers(e) PROVE IInv'
<1>1. AutoReplyTypeOK'
  BY DEF IInv, AutoReplyTypeOK, AiAnswers
<1>2. AiRepliesOnce'
  BY DEF IInv, AiRepliesOnce, AiAnswers
<1>3. JobsAreFirst'
  BY DEF IInv, JobsAreFirst, AutoReplyTypeOK, AiAnswers
<1> QED BY <1>1, <1>2, <1>3 DEF IInv

LEMMA AddAiReplyOK == ASSUME IInv, NEW e \in Leads, AddAiReply(e) PROVE IInv'
<1> DEFINE s == replies[e]  t == Append(s, "ai")
<1>1. s \in Seq(Senders) /\ "ai" \in Senders
  BY DEF IInv, AutoReplyTypeOK, Senders
<1>2. replies' = [replies EXCEPT ![e] = t]
  BY DEF AddAiReply
<1>3. ~HasAi(s) /\ (s = <<>> \/ e \in raced)
  BY DEF IInv, JobsAreFirst, AddAiReply
<1>4. /\ t \in Seq(Senders)
      /\ DOMAIN t = DOMAIN s \cup {Len(s) + 1}
      /\ \A i \in DOMAIN s : t[i] = s[i]
  BY <1>1, AppendReply
<1>5. \A i \in DOMAIN t : t[i] = "ai" => i = Len(s) + 1
  BY <1>3, <1>4 DEF HasAi
<1>6. s = <<>> => Len(s) + 1 = 1
  OBVIOUS
<1> HIDE DEF s, t
<1>7. AutoReplyTypeOK'
  BY <1>2, <1>4 DEF IInv, AutoReplyTypeOK, AddAiReply, Senders
<1>8. replies'[e] = t /\ \A d \in Leads \ {e} : replies'[d] = replies[d]
  BY <1>2 DEF IInv, AutoReplyTypeOK
<1>9. AiRepliesOnce'
  BY <1>3, <1>5, <1>6, <1>8 DEF IInv, AiRepliesOnce, AddAiReply
<1>10. JobsAreFirst'
  BY <1>8 DEF IInv, JobsAreFirst, AutoReplyTypeOK, AddAiReply
<1> QED BY <1>7, <1>9, <1>10 DEF IInv

LEMMA HumanRepliesOK == ASSUME IInv, NEW e \in Leads, HumanReplies(e) PROVE IInv'
<1> DEFINE s == replies[e]  t == Append(s, "human")
<1>1. s \in Seq(Senders) /\ "human" \in Senders
  BY DEF IInv, AutoReplyTypeOK, Senders
<1>2. replies' = [replies EXCEPT ![e] = t]
  BY DEF HumanReplies
<1>3. /\ t \in Seq(Senders)
      /\ DOMAIN t = DOMAIN s \cup {Len(s) + 1}
      /\ \A i \in DOMAIN s : t[i] = s[i]
      /\ t[Len(s) + 1] = "human"
  BY <1>1, AppendReply
<1>4. \A i \in DOMAIN t : t[i] = "ai" => i \in DOMAIN s /\ s[i] = "ai"
  BY <1>3
<1>5. HasAi(t) => HasAi(s)
  BY <1>4 DEF HasAi
<1> HIDE DEF s, t
<1>6. AutoReplyTypeOK'
  BY SpendType, <1>2, <1>3 DEF IInv, AutoReplyTypeOK, HumanReplies, Senders, Happenings
<1>7. replies'[e] = t /\ \A d \in Leads \ {e} : replies'[d] = replies[d]
  BY <1>2 DEF IInv, AutoReplyTypeOK
<1>8. raced \subseteq raced' /\ (step[e] \in {"ask", "add"} => e \in raced')
  BY DEF HumanReplies
<1>9. AiRepliesOnce'
  BY <1>4, <1>3, <1>7, <1>8 DEF IInv, AiRepliesOnce, s
<1>10. JobsAreFirst'
  BY <1>5, <1>7, <1>8 DEF IInv, JobsAreFirst, HumanReplies, s
<1> QED BY <1>6, <1>9, <1>10 DEF IInv

LEMMA CustomerOK == ASSUME IInv, NEW e \in Leads, CustomerWrites(e) \/ CloseLead(e) PROVE IInv'
<1>1. AutoReplyTypeOK'
  BY SpendType DEF IInv, AutoReplyTypeOK, CustomerWrites, CloseLead, Happenings
<1>2. AiRepliesOnce'
  BY DEF IInv, AiRepliesOnce, CustomerWrites, CloseLead
<1>3. JobsAreFirst'
  BY DEF IInv, JobsAreFirst, AutoReplyTypeOK, CustomerWrites, CloseLead
<1> QED BY <1>1, <1>2, <1>3 DEF IInv

LEMMA RestartOK == ASSUME IInv, Restart PROVE IInv'
<1>1. AutoReplyTypeOK'
  BY SpendType DEF IInv, AutoReplyTypeOK, Restart, Happenings
<1>2. AiRepliesOnce'
  BY DEF IInv, AiRepliesOnce, Restart
<1>3. JobsAreFirst'
  BY DEF JobsAreFirst, Restart
<1> QED BY <1>1, <1>2, <1>3 DEF IInv

LEMMA StepOK == IInv /\ [Next]_vars => IInv'
<1> SUFFICES ASSUME IInv, [Next]_vars PROVE IInv'
  OBVIOUS
<1>1. CASE UNCHANGED vars
  BY <1>1 DEF vars, IInv, AutoReplyTypeOK, AiRepliesOnce, JobsAreFirst
<1>2. CASE Restart
  BY <1>2, RestartOK
<1>3. ASSUME NEW e \in Leads,
             \/ Create(e) \/ CreateByStaff(e) \/ Arm(e) \/ Fire(e) \/ Take(e)
             \/ Look(e) \/ AiAnswers(e) \/ AddAiReply(e) \/ EndJob(e) \/ FailJob(e)
             \/ HumanReplies(e) \/ CustomerWrites(e) \/ CloseLead(e)
      PROVE  IInv'
  BY <1>3, CreateOK, CreateByStaffOK, QuietOK, LookOK, AiAnswersOK, AddAiReplyOK,
     HumanRepliesOK, CustomerOK
<1> QED BY <1>1, <1>2, <1>3 DEF Next

-----------------------------------------------------------------------------
(* The variables of AiReplyScheduler and AiReplyProcessor keep their types.*)
THEOREM AutoReplyTypeCorrect == Spec => []AutoReplyTypeOK
<1>1. IInv => AutoReplyTypeOK
  BY DEF IInv
<1> QED BY <1>1, InitOK, StepOK, PTL DEF Spec

(* AiReplyProcessor.process adds at most one reply to an enquiry, and adds *)
(* it after a human's only when that came while the AI was being asked.    *)
THEOREM OneAiReply == Spec => []AiRepliesOnce
<1>1. IInv => AiRepliesOnce
  BY DEF IInv
<1> QED BY <1>1, InitOK, StepOK, PTL DEF Spec

-----------------------------------------------------------------------------
(***************************************************************************)
(* Contacts.                                                               *)
(***************************************************************************)
Requested(seen) ==
    [op : Contact!Ops, who : ContactIds, addr : Addresses, isPrimary : BOOLEAN,
     id : Nat, seen : SUBSET seen, at : {"check", "find", "create", "clear", "write"}]
IdsSeen(h) == IF hand[h].op = "remove" THEN {r.id : r \in hand[h].seen} ELSE hand[h].seen
Changes(h) == Contact!Busy(h) /\ hand[h].op \in {"remove", "primary"}
Checked(h) == Changes(h) /\ hand[h].at \in {"clear", "write"}
Removing(h) == Contact!Doing(h, "remove", "write")

RequestTyped(h) ==
    Contact!Busy(h) => hand[h] \in Requested(IF hand[h].op = "remove" THEN Contact!Channel ELSE Nat)

ContactsTyped ==
    /\ Contact!ContactsTypeOK
    /\ IsFiniteSet(rows) /\ issued \in Nat
    /\ calls \subseteq [op : Contact!Ops, who : ContactIds, addr : Addresses, isPrimary : BOOLEAN]
    /\ DOMAIN hand = Handlers /\ \A h \in Handlers : RequestTyped(h)

(* The rows a handler has seen are the rows of the contact it is about,    *)
(* which was there, and no row will ever have their ids again.             *)
SeenOwn(h) ==
    Changes(h) =>
        /\ hand[h].who \in known \cup gone
        /\ hand[h].id <= issued /\ \A i \in IdsSeen(h) : i \in Nat /\ i <= issued
        /\ \A r \in rows : r.id = hand[h].id \/ r.id \in IdsSeen(h) => r.who = hand[h].who
        /\ hand[h].op = "remove" => hand[h].at \in {"check", "write"}

(* Two changes of a contact past their checks, one a removal, are noted.   *)
Noted(g, h) ==
    Checked(g) /\ Removing(h) /\ g # h /\ hand[g].who = hand[h].who => hand[h].who \in overlap

(* A removal nobody overlaps still has before it the rows it counted.      *)
Counted(h) ==
    Removing(h) /\ hand[h].who \in known \ overlap =>
        /\ hand[h].seen \subseteq {r \in rows : r.who = hand[h].who}
        /\ \E r \in hand[h].seen : r.id = hand[h].id
        /\ \E r \in hand[h].seen : r.id # hand[h].id

SeenIsOwn == \A h \in Handlers : SeenOwn(h)
OverlapNoted == \A g, h \in Handlers : Noted(g, h)
CountedStay == \A h \in Handlers : Counted(h)

ContactsInv == ContactsTyped /\ SeenIsOwn /\ OverlapNoted /\ CountedStay /\ KeepsAChannel

-----------------------------------------------------------------------------
LEMMA ContactSets ==
    \A S : Contact!Cardinality(S) = Cardinality(S) /\ Contact!IsFiniteSet(S) = IsFiniteSet(S)
BY DEF Contact!Cardinality, Cardinality, Contact!IsFiniteSet, IsFiniteSet

LEMMA ContactsInit == Contact!Init => ContactsInv
<1> SUFFICES ASSUME Contact!Init PROVE ContactsInv
  OBVIOUS
<1>1. PICK b \in Books :
        /\ rows = b.rows /\ known = {r.who : r \in b.rows}
        /\ issued = Cardinality(b.rows)
        /\ open = b.open /\ calls = b.todo
        /\ gone = {} /\ overlap = {}
        /\ hand = [h \in Handlers |-> Contact!Free]
  BY ContactSets DEF Contact!Init
<1>2. /\ IsFiniteSet(b.rows) /\ b.rows \subseteq Contact!Channel
      /\ \A r, s \in b.rows : r.id = s.id \/ r.addr = s.addr => r = s
      /\ \A r \in b.rows : r.id <= Cardinality(b.rows)
      /\ \A r \in b.rows : \E s \in b.rows : s.who = r.who /\ s.isPrimary
      /\ b.open \subseteq {r.who : r \in b.rows}
      /\ b.todo \subseteq [op : Contact!Ops, who : ContactIds, addr : Addresses, isPrimary : BOOLEAN]
  BY RecordsAssumption, ContactSets DEF Contact!BooksOK
<1>3. \A h \in Handlers : ~Contact!Busy(h)
  BY <1>1 DEF Contact!Busy
<1>4. Cardinality(b.rows) \in Nat
  BY <1>2, FS_CardinalityType
<1>5. \A r \in b.rows : r.who \in ContactIds
  BY <1>2 DEF Contact!Channel
<1>6. ContactsTyped
  BY <1>1, <1>2, <1>3, <1>4, <1>5 DEF ContactsTyped, Contact!ContactsTypeOK, RequestTyped
<1>7. KeepsAChannel
  BY <1>1, <1>2 DEF KeepsAChannel, Contact!KeepsAChannel, Contact!ChannelsOf
<1> QED
  BY <1>3, <1>6, <1>7 DEF ContactsInv, SeenIsOwn, SeenOwn, OverlapNoted, Noted, CountedStay, Counted,
        Changes, Checked, Removing, Contact!Doing

(* A handler takes a step that is no part of a change of channels, or ends. *)
LEMMA HandQuiet ==
    ASSUME ContactsInv, NEW h \in Handlers, NEW x,
           hand' = [hand EXCEPT ![h] = x],
           \/ x = Contact!Free
           \/ x \in Requested(Nat) /\ x.op \notin {"remove", "primary"}
    PROVE  /\ DOMAIN hand' = Handlers
           /\ \A g \in Handlers : RequestTyped(g)' 
           /\ \A g \in Handlers : Changes(g)' => g # h /\ Changes(g) /\ hand'[g] = hand[g] /\ IdsSeen(g)' = IdsSeen(g)
           /\ \A g \in Handlers : Checked(g)' => Checked(g) /\ hand'[g] = hand[g]
           /\ \A g \in Handlers : Removing(g)' => Removing(g) /\ hand'[g] = hand[g]
<1>1. DOMAIN hand' = Handlers /\ hand'[h] = x /\ \A g \in Handlers \ {h} : hand'[g] = hand[g]
  BY DEF ContactsInv, ContactsTyped
<1>2. x = Contact!Free => ~Contact!Busy(h)'
  BY <1>1 DEF Contact!Busy
<1>3. x.op \notin {"remove", "primary"} => ~Changes(h)' 
  BY <1>1 DEF Changes
<1>4. ~Changes(h)'
  BY <1>2, <1>3 DEF Changes
<1>5. \A g \in Handlers : RequestTyped(g)'
  BY <1>1, <1>2 DEF ContactsInv, ContactsTyped, RequestTyped, Contact!Busy
<1>6. \A g \in Handlers \ {h} : (Changes(g)' <=> Changes(g)) /\ (Checked(g)' <=> Checked(g))
                              /\ (Removing(g)' <=> Removing(g)) /\ IdsSeen(g)' = IdsSeen(g)
  BY <1>1 DEF Changes, Checked, Removing, IdsSeen, Contact!Busy, Contact!Doing
<1>7. ~Checked(h)' /\ ~Removing(h)'
  BY <1>4 DEF Checked, Removing, Changes, Contact!Doing
<1> QED BY <1>1, <1>4, <1>5, <1>6, <1>7

LEMMA QuietKeeps ==
    ASSUME ContactsInv, NEW h \in Handlers, NEW x,
           hand' = [hand EXCEPT ![h] = x],
           \/ x = Contact!Free
           \/ x \in Requested(Nat) /\ x.op \notin {"remove", "primary"},
           UNCHANGED <<known, gone, rows, issued, overlap>>,
           calls' \subseteq calls, open' \subseteq known
    PROVE  ContactsInv'
<1>0. /\ DOMAIN hand' = Handlers
      /\ \A g \in Handlers : RequestTyped(g)'
      /\ \A g \in Handlers : Changes(g)' => g # h /\ Changes(g) /\ hand'[g] = hand[g] /\ IdsSeen(g)' = IdsSeen(g)
      /\ \A g \in Handlers : Checked(g)' => Checked(g) /\ hand'[g] = hand[g]
      /\ \A g \in Handlers : Removing(g)' => Removing(g) /\ hand'[g] = hand[g]
  BY HandQuiet
<1>1. ContactsTyped'
  BY <1>0 DEF ContactsInv, ContactsTyped, Contact!ContactsTypeOK, RequestTyped, Requested
<1>2. SeenIsOwn'
  BY <1>0 DEF ContactsInv, SeenIsOwn, SeenOwn
<1>3. OverlapNoted'
  BY <1>0 DEF ContactsInv, OverlapNoted, Noted
<1>4. CountedStay'
  BY <1>0 DEF ContactsInv, CountedStay, Counted
<1>5. KeepsAChannel'
  BY DEF ContactsInv, KeepsAChannel, Contact!KeepsAChannel, Contact!ChannelsOf
<1> QED BY <1>1, <1>2, <1>3, <1>4, <1>5 DEF ContactsInv

LEMMA RowAdded ==
    ASSUME ContactsInv, NEW h \in Handlers, hand' = [hand EXCEPT ![h] = Contact!Free],
           NEW c \in ContactIds, NEW a \in Addresses, NEW p \in BOOLEAN,
           ~Contact!Registered(a), Contact!AddRow(c, a, p),
           \/ known' = known /\ c \in known
           \/ known' = known \cup {c} /\ c \notin known \cup gone /\ p = TRUE,
           UNCHANGED <<gone, open, calls, overlap>>
    PROVE  ContactsInv'
<1> DEFINE new == [id |-> issued + 1, who |-> c, addr |-> a, isPrimary |-> p]
<1>0. /\ DOMAIN hand' = Handlers
      /\ \A g \in Handlers : RequestTyped(g)'
      /\ \A g \in Handlers : Changes(g)' => g # h /\ Changes(g) /\ hand'[g] = hand[g] /\ IdsSeen(g)' = IdsSeen(g)
      /\ \A g \in Handlers : Checked(g)' => Checked(g) /\ hand'[g] = hand[g]
      /\ \A g \in Handlers : Removing(g)' => Removing(g) /\ hand'[g] = hand[g]
  BY HandQuiet
<1>1. rows' = rows \cup {new} /\ issued' = issued + 1 /\ issued \in Nat
  BY DEF Contact!AddRow, ContactsInv, ContactsTyped
<1>2. /\ new \in Contact!Channel /\ new.id = issued + 1 /\ new.who = c /\ new.addr = a
      /\ new.isPrimary = p
  BY <1>1 DEF Contact!Channel
<1> HIDE DEF new
<1>3. IsFiniteSet(rows')
  BY <1>1, FS_AddElement DEF ContactsInv, ContactsTyped
<1>4. \A r \in rows : r.id \in Nat /\ r.id <= issued /\ r.who \in known
  BY DEF ContactsInv, ContactsTyped, Contact!ContactsTypeOK, Contact!Channel
<1>5. \A r \in rows : r.id # new.id /\ r.addr # new.addr
  BY <1>1, <1>2, <1>4 DEF Contact!Registered
<1>6. Contact!ContactsTypeOK'
  <2>1. /\ known' \subseteq ContactIds /\ gone' \subseteq ContactIds /\ known' \cap gone' = {}
        /\ open' \subseteq known' /\ overlap' \subseteq ContactIds
    BY DEF ContactsInv, ContactsTyped, Contact!ContactsTypeOK
  <2>2. \A r \in rows' : r \in Contact!Channel /\ r.who \in known' /\ r.id <= issued'
    BY <1>1, <1>2, <1>4 DEF ContactsInv, ContactsTyped, Contact!ContactsTypeOK
  <2>3. \A r, s \in rows' : r.id = s.id \/ r.addr = s.addr => r = s
    BY <1>1, <1>5 DEF ContactsInv, ContactsTyped, Contact!ContactsTypeOK
  <2>4. \A g \in Handlers : Contact!Busy(g)' =>
           hand'[g].at \in {"check", "find", "create", "clear", "write"}
    BY <1>0 DEF RequestTyped, Requested
  <2> QED BY <2>1, <2>2, <2>3, <2>4 DEF Contact!ContactsTypeOK
<1>7. ContactsTyped'
  BY <1>0, <1>1, <1>3, <1>6 DEF ContactsInv, ContactsTyped
<1>8. SeenIsOwn'
  <2> SUFFICES ASSUME NEW g \in Handlers, Changes(g)'
               PROVE  (/\ hand[g].who \in known \cup gone
                       /\ hand[g].id <= issued /\ \A i \in IdsSeen(g) : i \in Nat /\ i <= issued
                       /\ \A r \in rows : r.id = hand[g].id \/ r.id \in IdsSeen(g) => r.who = hand[g].who
                       /\ hand[g].op = "remove" => hand[g].at \in {"check", "write"})'
    BY DEF SeenIsOwn, SeenOwn
  <2>1. /\ hand[g].who \in known \cup gone
        /\ hand[g].id <= issued /\ \A i \in IdsSeen(g) : i \in Nat /\ i <= issued
        /\ \A r \in rows : r.id = hand[g].id \/ r.id \in IdsSeen(g) => r.who = hand[g].who
        /\ hand[g].op = "remove" => hand[g].at \in {"check", "write"}
    BY <1>0 DEF ContactsInv, SeenIsOwn, SeenOwn
  <2>2. hand[g].id \in Nat
    BY <1>0 DEF ContactsInv, ContactsTyped, RequestTyped, Changes, Requested
  <2>3. new.id # hand[g].id /\ new.id \notin IdsSeen(g)
    BY <1>1, <1>2, <2>1, <2>2
  <2> QED BY <1>0, <1>1, <2>1, <2>2, <2>3
<1>9. OverlapNoted'
  BY <1>0 DEF ContactsInv, OverlapNoted, Noted
<1>10. CountedStay'
  <2> SUFFICES ASSUME NEW g \in Handlers, Removing(g)', (hand[g].who \in known \ overlap)'
               PROVE  (/\ hand[g].seen \subseteq {r \in rows : r.who = hand[g].who}
                       /\ \E r \in hand[g].seen : r.id = hand[g].id
                       /\ \E r \in hand[g].seen : r.id # hand[g].id)'
    BY DEF CountedStay, Counted
  <2>1. Changes(g) /\ Removing(g) /\ hand'[g] = hand[g]
    BY <1>0 DEF Removing, Changes, Contact!Doing
  <2>2. hand[g].who \in known
    BY <2>1 DEF ContactsInv, SeenIsOwn, SeenOwn
  <2> QED BY <1>1, <2>1, <2>2 DEF ContactsInv, CountedStay, Counted
<1>11. KeepsAChannel'
  BY <1>1, <1>2 DEF ContactsInv, KeepsAChannel, Contact!KeepsAChannel, Contact!ChannelsOf
<1> QED BY <1>7, <1>8, <1>9, <1>10, <1>11 DEF ContactsInv

-----------------------------------------------------------------------------
LEMMA TypeOfRequest ==
    ASSUME ContactsInv, NEW h \in Handlers, Contact!Busy(h)
    PROVE  hand[h] \in Requested(IF hand[h].op = "remove" THEN Contact!Channel ELSE Nat)
BY DEF ContactsInv, ContactsTyped, RequestTyped

LEMMA StepKeeps ==
    ASSUME ContactsInv, NEW h \in Handlers, Contact!Busy(h), hand[h].op \notin {"remove", "primary"},
           Contact!Done(h) \/ Contact!Go(h, "create") \/ Contact!Go(h, "find") \/ Contact!Go(h, "write"),
           UNCHANGED <<known, gone, rows, issued, overlap, calls>>, open' \subseteq known
    PROVE  ContactsInv'
<1>1. hand[h] \in Requested(Nat)
  BY TypeOfRequest
<1>2. \A at \in {"create", "find", "write"} :
        /\ [hand[h] EXCEPT !.at = at] \in Requested(Nat)
        /\ [hand[h] EXCEPT !.at = at].op \notin {"remove", "primary"}
  BY <1>1 DEF Requested
<1>3. \/ hand' = [hand EXCEPT ![h] = Contact!Free]
      \/ \E at \in {"create", "find", "write"} : hand' = [hand EXCEPT ![h] = [hand[h] EXCEPT !.at = at]]
  BY DEF Contact!Done, Contact!Go
<1> QED BY <1>2, <1>3, QuietKeeps

LEMMA NewContactKeeps ==
    ASSUME ContactsInv, NEW h \in Handlers, Contact!Busy(h), Contact!Done(h),
           ~Contact!Registered(hand[h].addr), Contact!NewContact(hand[h].addr),
           UNCHANGED <<gone, open, calls, overlap>>
    PROVE  ContactsInv'
<1>1. hand[h].addr \in Addresses
  BY TypeOfRequest DEF Requested
<1>2. PICK c \in ContactIds \ (known \cup gone) :
        known' = known \cup {c} /\ Contact!AddRow(c, hand[h].addr, TRUE)
  BY DEF Contact!NewContact
<1> QED BY <1>1, <1>2, RowAdded DEF Contact!Done

LEMMA QuietStepsOK ==
    ASSUME ContactsInv, NEW h \in Handlers,
           \/ Contact!FindContact(h) \/ Contact!CheckAddress(h)
           \/ Contact!CheckDeletion(h) \/ Contact!TurnEnquiry(h)
    PROVE  ContactsInv'
<1>0. open \subseteq known
  BY DEF ContactsInv, ContactsTyped, Contact!ContactsTypeOK
<1>1. CASE Contact!FindContact(h)
  BY <1>0, <1>1, StepKeeps DEF Contact!FindContact, Contact!Doing
<1>2. CASE Contact!CheckAddress(h)
  BY <1>0, <1>2, StepKeeps DEF Contact!CheckAddress, Contact!Doing
<1>3. CASE Contact!CheckDeletion(h)
  BY <1>0, <1>3, StepKeeps DEF Contact!CheckDeletion, Contact!Doing
<1>4. CASE Contact!TurnEnquiry(h)
  BY <1>0, <1>4, StepKeeps DEF Contact!TurnEnquiry, Contact!Doing
<1> QED BY <1>1, <1>2, <1>3, <1>4

LEMMA CreateResolvedOK ==
    ASSUME ContactsInv, NEW h \in Handlers, Contact!CreateResolved(h) PROVE ContactsInv'
<1>0. open \subseteq known
  BY DEF ContactsInv, ContactsTyped, Contact!ContactsTypeOK
<1>1. CASE Contact!Registered(hand[h].addr)
  BY <1>0, <1>1, StepKeeps DEF Contact!CreateResolved, Contact!Doing
<1>2. CASE ~Contact!Registered(hand[h].addr)
  BY <1>2, NewContactKeeps DEF Contact!CreateResolved, Contact!Doing
<1> QED BY <1>1, <1>2

LEMMA CreateContactOK ==
    ASSUME ContactsInv, NEW h \in Handlers, Contact!CreateContact(h) PROVE ContactsInv'
<1>0. open \subseteq known
  BY DEF ContactsInv, ContactsTyped, Contact!ContactsTypeOK
<1>1. CASE Contact!Registered(hand[h].addr)
  BY <1>0, <1>1, StepKeeps DEF Contact!CreateContact, Contact!Doing
<1>2. CASE ~Contact!Registered(hand[h].addr)
  BY <1>2, NewContactKeeps DEF Contact!CreateContact, Contact!Doing
<1> QED BY <1>1, <1>2

LEMMA AddChannelOK ==
    ASSUME ContactsInv, NEW h \in Handlers, Contact!AddChannel(h) PROVE ContactsInv'
<1>0. open \subseteq known /\ Contact!Busy(h) /\ hand[h].op = "add"
  BY DEF ContactsInv, ContactsTyped, Contact!ContactsTypeOK, Contact!AddChannel, Contact!Doing
<1>1. hand[h].who \in ContactIds /\ hand[h].addr \in Addresses /\ hand[h].isPrimary \in BOOLEAN
  BY <1>0, TypeOfRequest DEF Requested
<1>2. CASE Contact!Registered(hand[h].addr) \/ hand[h].who \notin known
  BY <1>0, <1>2, StepKeeps DEF Contact!AddChannel
<1>3. CASE ~(Contact!Registered(hand[h].addr) \/ hand[h].who \notin known)
  BY <1>1, <1>3, RowAdded DEF Contact!AddChannel, Contact!Done
<1> QED BY <1>2, <1>3

-----------------------------------------------------------------------------
(* A step of a handler leaves the others where they are.                   *)
LEMMA OthersStay ==
    ASSUME ContactsInv, NEW h \in Handlers, NEW x, hand' = [hand EXCEPT ![h] = x]
    PROVE  /\ DOMAIN hand' = Handlers /\ hand'[h] = x
           /\ \A g \in Handlers \ {h} :
                /\ hand'[g] = hand[g] /\ IdsSeen(g)' = IdsSeen(g)
                /\ Contact!Busy(g)' <=> Contact!Busy(g)
                /\ Changes(g)' <=> Changes(g)
                /\ Checked(g)' <=> Checked(g)
                /\ Removing(g)' <=> Removing(g)
<1>1. DOMAIN hand' = Handlers /\ hand'[h] = x /\ \A g \in Handlers \ {h} : hand'[g] = hand[g]
  BY DEF ContactsInv, ContactsTyped
<1> QED
  BY <1>1 DEF Changes, Checked, Removing, IdsSeen, Contact!Busy, Contact!Doing


(* What has to be shown of a step that changes no row: the handler that    *)
(* takes it, and any overlap it notes.                                     *)
LEMMA HandOnlyKeeps ==
    ASSUME ContactsInv, NEW h \in Handlers, NEW x, hand' = [hand EXCEPT ![h] = x],
           UNCHANGED <<known, gone, rows, issued, open>>, calls' \subseteq calls,
           overlap \subseteq overlap', overlap' \subseteq ContactIds,
           RequestTyped(h)', SeenOwn(h)', Counted(h)',
           \A g \in Handlers : Noted(g, h)' /\ Noted(h, g)'
    PROVE  ContactsInv'
<1>0. /\ DOMAIN hand' = Handlers /\ hand'[h] = x
      /\ \A g \in Handlers \ {h} :
           /\ hand'[g] = hand[g] /\ IdsSeen(g)' = IdsSeen(g)
           /\ Contact!Busy(g)' <=> Contact!Busy(g)
           /\ Changes(g)' <=> Changes(g)
           /\ Checked(g)' <=> Checked(g)
           /\ Removing(g)' <=> Removing(g)
  BY OthersStay
<1>1. ContactsTyped'
  <2>1. \A g \in Handlers : RequestTyped(g)'
    BY <1>0 DEF ContactsInv, ContactsTyped, RequestTyped
  <2>2. \A g \in Handlers : Contact!Busy(g)' =>
           hand'[g].at \in {"check", "find", "create", "clear", "write"}
    BY <2>1 DEF RequestTyped, Requested
  <2> QED
    BY <1>0, <2>1, <2>2 DEF ContactsInv, ContactsTyped, Contact!ContactsTypeOK
<1>2. SeenIsOwn'
  BY <1>0 DEF ContactsInv, SeenIsOwn, SeenOwn
<1>3. OverlapNoted'
  <2>1. \A g, k \in Handlers \ {h} : Noted(g, k)'
    BY <1>0 DEF ContactsInv, OverlapNoted, Noted
  <2> QED BY <2>1 DEF OverlapNoted
<1>4. CountedStay'
  BY <1>0 DEF ContactsInv, CountedStay, Counted
<1>5. KeepsAChannel'
  BY DEF ContactsInv, KeepsAChannel, Contact!KeepsAChannel, Contact!ChannelsOf
<1> QED BY <1>1, <1>2, <1>3, <1>4, <1>5 DEF ContactsInv

LEMMA BeginOK ==
    ASSUME ContactsInv, NEW h \in Handlers, Contact!Begin(h) PROVE ContactsInv'
<1>1. PICK q \in calls :
        /\ \E id \in IF q.op \in {"remove", "primary"}
                     THEN {r.id : r \in Contact!ChannelsOf(q.who)} ELSE {0} :
              hand' = [hand EXCEPT ![h] =
                  [op |-> q.op, who |-> q.who, addr |-> q.addr,
                   isPrimary |-> q.isPrimary, id |-> id, seen |-> {}, at |-> "check"]]
        /\ calls' = calls \ {q}
  BY DEF Contact!Begin
<1>2. PICK id \in IF q.op \in {"remove", "primary"}
                  THEN {r.id : r \in Contact!ChannelsOf(q.who)} ELSE {0} :
        hand' = [hand EXCEPT ![h] =
            [op |-> q.op, who |-> q.who, addr |-> q.addr,
             isPrimary |-> q.isPrimary, id |-> id, seen |-> {}, at |-> "check"]]
  BY <1>1
<1> DEFINE x == [op |-> q.op, who |-> q.who, addr |-> q.addr,
                 isPrimary |-> q.isPrimary, id |-> id, seen |-> {}, at |-> "check"]
<1>3. q \in [op : Contact!Ops, who : ContactIds, addr : Addresses, isPrimary : BOOLEAN]
  BY <1>1 DEF ContactsInv, ContactsTyped
<1>4. /\ \A r \in rows : r.id \in Nat /\ r.id <= issued /\ r.who \in known
      /\ \A r, s \in rows : r.id = s.id => r = s
      /\ overlap \subseteq ContactIds
  BY DEF ContactsInv, ContactsTyped, Contact!ContactsTypeOK, Contact!Channel
<1>5. q.op \in {"remove", "primary"} => \E r \in rows : r.id = id /\ r.who = q.who
  BY <1>2 DEF Contact!ChannelsOf
<1>6. id \in Nat
  BY <1>2, <1>4, <1>5
<1>7. x \in Requested(Contact!Channel) /\ x \in Requested(Nat)
  BY <1>3, <1>6 DEF Requested
<1>8. DOMAIN hand' = Handlers /\ hand'[h] = x
  BY <1>2, OthersStay
<1>9. x.op = q.op /\ x.who = q.who /\ x.id = id /\ x.seen = {} /\ x.at = "check"
  OBVIOUS
<1> HIDE DEF x
<1>10. UNCHANGED <<known, gone, rows, issued, open, overlap>> /\ calls' \subseteq calls
  BY <1>1 DEF Contact!Begin
<1>11. RequestTyped(h)'
  BY <1>7, <1>8 DEF RequestTyped
<1>12. IdsSeen(h)' = {}
  BY <1>8, <1>9 DEF IdsSeen
<1>13. SeenOwn(h)'
  BY <1>4, <1>5, <1>8, <1>9, <1>10, <1>12 DEF SeenOwn, Changes
<1>14. ~Checked(h)' /\ ~Removing(h)'
  BY <1>8, <1>9 DEF Checked, Removing, Contact!Doing
<1>15. Counted(h)' /\ \A g \in Handlers : Noted(g, h)' /\ Noted(h, g)'
  BY <1>14 DEF Counted, Noted
<1>16. hand' = [hand EXCEPT ![h] = x]
  BY <1>2 DEF x
<1> QED
  BY <1>4, <1>10, <1>11, <1>13, <1>15, <1>16, HandOnlyKeeps

(* Whoever gets past its check notes the others that are there.            *)
LEMMA CheckNotes ==
    ASSUME ContactsInv, NEW h \in Handlers, Contact!Busy(h), Changes(h), Contact!NoteOverlap(h), NEW x,
           hand' = [hand EXCEPT ![h] = x], x.op = hand[h].op, x.who = hand[h].who
    PROVE  /\ overlap \subseteq overlap' /\ overlap' \subseteq ContactIds
           /\ \A g \in Handlers : Noted(g, h)' /\ Noted(h, g)'
<1>0. /\ DOMAIN hand' = Handlers /\ hand'[h] = x
      /\ \A g \in Handlers \ {h} :
           /\ hand'[g] = hand[g] /\ IdsSeen(g)' = IdsSeen(g)
           /\ Contact!Busy(g)' <=> Contact!Busy(g)
           /\ Changes(g)' <=> Changes(g)
           /\ Checked(g)' <=> Checked(g)
           /\ Removing(g)' <=> Removing(g)
  BY OthersStay
<1>1. hand[h].who \in ContactIds /\ overlap \subseteq ContactIds
  BY TypeOfRequest DEF Requested, ContactsInv, ContactsTyped, Contact!ContactsTypeOK
<1>2. \A g \in Handlers \ {h} :
        /\ Checked(g) /\ hand[g].who = hand[h].who
        /\ hand[h].op = "remove" \/ hand[g].op = "remove"
        => hand[h].who \in overlap'
  <2> SUFFICES ASSUME NEW g \in Handlers \ {h}, Checked(g), hand[g].who = hand[h].who,
                      hand[h].op = "remove" \/ hand[g].op = "remove"
               PROVE  hand[h].who \in overlap'
    OBVIOUS
  <2>1. /\ Contact!Busy(g) /\ hand[g].at \in {"clear", "write"}
        /\ hand[g].op \in {"remove", "primary"} /\ hand[h].op \in {"remove", "primary"}
    BY DEF Checked, Changes
  <2>2. {hand[g].op, hand[h].op} \in {{"remove"}, {"remove", "primary"}}
    BY <2>1
  <2> QED BY <2>1, <2>2 DEF Contact!NoteOverlap
<1>3. overlap \subseteq overlap' /\ overlap' \subseteq ContactIds
  BY <1>1 DEF Contact!NoteOverlap
<1>4. \A g \in Handlers \ {h} : Noted(g, h)' 
  <2> SUFFICES ASSUME NEW g \in Handlers \ {h}, Checked(g)', Removing(h)', hand'[g].who = hand'[h].who
               PROVE  hand'[h].who \in overlap'
    BY DEF Noted
  <2>1. hand'[h].op = "remove"
    BY DEF Removing, Contact!Doing
  <2> QED BY <1>0, <1>2, <2>1
<1>5. \A g \in Handlers \ {h} : Noted(h, g)'
  <2> SUFFICES ASSUME NEW g \in Handlers \ {h}, Removing(g)', hand'[g].who = hand'[h].who
               PROVE  hand'[g].who \in overlap'
    BY DEF Noted
  <2>1. hand[g].op = "remove" /\ Checked(g)
    BY <1>0 DEF Removing, Contact!Doing, Checked, Changes
  <2> QED BY <1>0, <1>2, <2>1
<1>6. Noted(h, h)'
  BY DEF Noted
<1> QED BY <1>3, <1>4, <1>5, <1>6

LEMMA CheckRemovalOK ==
    ASSUME ContactsInv, NEW h \in Handlers, Contact!CheckRemoval(h) PROVE ContactsInv'
<1> DEFINE c == hand[h].who
           mine == Contact!ChannelsOf(c)
<1>0. /\ Contact!Busy(h) /\ hand[h].op = "remove" /\ hand[h].at = "check"
      /\ UNCHANGED <<known, gone, rows, issued, open, calls>>
  BY DEF Contact!CheckRemoval, Contact!Doing
<1>1. hand[h] \in Requested(Contact!Channel) /\ Changes(h)
  BY <1>0, TypeOfRequest DEF Changes
<1>2. /\ hand[h].who \in known \cup gone /\ hand[h].id <= issued
      /\ \A r \in rows : r.id = hand[h].id => r.who = hand[h].who
  BY <1>1 DEF ContactsInv, SeenIsOwn, SeenOwn
<1>3. /\ \A r \in rows : r \in Contact!Channel /\ r.id \in Nat /\ r.id <= issued
      /\ \A r, s \in rows : r.id = s.id => r = s
      /\ open \subseteq known /\ IsFiniteSet(rows)
  BY DEF ContactsInv, ContactsTyped, Contact!ContactsTypeOK, Contact!Channel
<1>4. CASE Contact!MayRemove(c) /\ hand[h].id \in {r.id : r \in mine}
  <2>0. PICK x : x = [hand[h] EXCEPT !.at = "write", !.seen = mine]
    OBVIOUS
  <2>1. hand' = [hand EXCEPT ![h] = x] /\ Contact!NoteOverlap(h)
    BY <1>4, <2>0 DEF Contact!CheckRemoval
  <2>2. mine \subseteq rows /\ \A r \in mine : r.who = c
    BY DEF Contact!ChannelsOf
  <2>3. \E r \in mine : r.id # hand[h].id
    <3> SUFFICES ASSUME \A r \in mine : r.id = hand[h].id PROVE FALSE
      OBVIOUS
    <3>1. PICK r \in mine : r.id = hand[h].id
      BY <1>4
    <3>2. mine \subseteq {r}
      BY <1>3, <2>2, <3>1
    <3>3. Cardinality({r}) = 1 /\ IsFiniteSet({r})
      BY FS_Singleton
    <3>4. Cardinality(mine) <= 1 /\ Cardinality(mine) \in Nat
      BY <3>2, <3>3, FS_Subset, FS_CardinalityType
    <3>5. Cardinality(mine) > 1
      BY <1>4, ContactSets DEF Contact!MayRemove
    <3> QED BY <3>4, <3>5
  <2>4. mine \in SUBSET Contact!Channel
    BY <1>3, <2>2
  <2>5. /\ x \in Requested(Contact!Channel) /\ x.op = "remove" /\ x.who = c /\ x.id = hand[h].id
        /\ x.seen = mine /\ x.at = "write"
    BY <1>0, <1>1, <2>0, <2>4 DEF Requested
  <2> HIDE DEF mine, c
  <2>6. DOMAIN hand' = Handlers /\ hand'[h] = x
    BY <2>1, OthersStay
  <2>7. RequestTyped(h)'
    BY <2>5, <2>6 DEF RequestTyped
  <2>8. IdsSeen(h)' = {r.id : r \in mine}
    BY <2>5, <2>6 DEF IdsSeen
  <2>9. SeenOwn(h)'
    BY <1>0, <1>2, <1>3, <2>2, <2>5, <2>6, <2>8 DEF SeenOwn, c
  <2>10. Counted(h)'
    BY <1>0, <1>4, <2>2, <2>3, <2>5, <2>6 DEF Counted, c
  <2>11. /\ overlap \subseteq overlap' /\ overlap' \subseteq ContactIds
         /\ \A g \in Handlers : Noted(g, h)' /\ Noted(h, g)'
    BY <1>0, <1>1, <2>1, <2>5, CheckNotes DEF c
  <2>12. UNCHANGED <<known, gone, rows, issued, open>> /\ calls' \subseteq calls
    BY <1>0
  <2> QED BY <2>1, <2>7, <2>9, <2>10, <2>11, <2>12, HandOnlyKeeps
<1>5. CASE ~(Contact!MayRemove(c) /\ hand[h].id \in {r.id : r \in mine})
  BY <1>0, <1>3, <1>5, QuietKeeps DEF Contact!CheckRemoval, Contact!Done
<1> QED BY <1>4, <1>5

LEMMA CheckPrimaryOK ==
    ASSUME ContactsInv, NEW h \in Handlers, Contact!CheckPrimary(h) PROVE ContactsInv'
<1>0. /\ Contact!Busy(h) /\ hand[h].op = "primary" /\ hand[h].at = "check"
      /\ UNCHANGED <<known, gone, rows, issued, open, calls>>
  BY DEF Contact!CheckPrimary, Contact!Doing
<1>1. hand[h] \in Requested(Nat) /\ Changes(h) /\ SeenOwn(h) /\ open \subseteq known
  BY <1>0, TypeOfRequest
     DEF Changes, ContactsInv, SeenIsOwn, ContactsTyped, Contact!ContactsTypeOK
<1>2. CASE hand[h].id \in {r.id : r \in Contact!ChannelsOf(hand[h].who)}
  <2>0. PICK x : x = [hand[h] EXCEPT !.at = "clear"]
    OBVIOUS
  <2>1. hand' = [hand EXCEPT ![h] = x] /\ Contact!NoteOverlap(h)
    BY <1>2, <2>0 DEF Contact!CheckPrimary, Contact!Go
  <2>2. /\ x \in Requested(Nat) /\ x.op = "primary" /\ x.who = hand[h].who /\ x.id = hand[h].id
        /\ x.seen = hand[h].seen /\ x.at = "clear"
    BY <1>0, <1>1, <2>0 DEF Requested
  <2>3. DOMAIN hand' = Handlers /\ hand'[h] = x
    BY <2>1, OthersStay
  <2>4. RequestTyped(h)' /\ Counted(h)'
    BY <2>2, <2>3 DEF RequestTyped, Counted, Removing, Contact!Doing
  <2>5. IdsSeen(h)' = IdsSeen(h)
    BY <1>0, <2>2, <2>3 DEF IdsSeen
  <2>6. SeenOwn(h)'
    BY <1>0, <1>1, <2>2, <2>3, <2>5 DEF SeenOwn
  <2>7. /\ overlap \subseteq overlap' /\ overlap' \subseteq ContactIds
        /\ \A g \in Handlers : Noted(g, h)' /\ Noted(h, g)'
    BY <1>0, <1>1, <2>1, <2>2, CheckNotes
  <2>8. UNCHANGED <<known, gone, rows, issued, open>> /\ calls' \subseteq calls
    BY <1>0
  <2> QED BY <2>1, <2>4, <2>6, <2>7, <2>8, HandOnlyKeeps
<1>3. CASE hand[h].id \notin {r.id : r \in Contact!ChannelsOf(hand[h].who)}
  BY <1>0, <1>1, <1>3, QuietKeeps DEF Contact!CheckPrimary, Contact!Done
<1> QED BY <1>2, <1>3

LEMMA ClearPrimaryOK ==
    ASSUME ContactsInv, NEW h \in Handlers, Contact!ClearPrimary(h) PROVE ContactsInv'
<1> DEFINE marked == {r.id : r \in {s \in Contact!ChannelsOf(hand[h].who) : s.isPrimary}}
<1>0. /\ Contact!Busy(h) /\ hand[h].op = "primary" /\ hand[h].at = "clear"
      /\ UNCHANGED <<known, gone, rows, issued, open, calls, overlap>>
  BY DEF Contact!ClearPrimary, Contact!Doing
<1>1. hand[h] \in Requested(Nat) /\ Changes(h) /\ SeenOwn(h) /\ Checked(h)
  BY <1>0, TypeOfRequest DEF Changes, Checked, ContactsInv, SeenIsOwn
<1>2. /\ \A r \in rows : r.id \in Nat /\ r.id <= issued
      /\ \A r, s \in rows : r.id = s.id => r = s
      /\ overlap \subseteq ContactIds
  BY DEF ContactsInv, ContactsTyped, Contact!ContactsTypeOK, Contact!Channel
<1>3. PICK x : x = [hand[h] EXCEPT !.at = "write", !.seen = marked]
  OBVIOUS
<1>4. hand' = [hand EXCEPT ![h] = x]
  BY <1>3 DEF Contact!ClearPrimary
<1>5. \A i \in marked : i \in Nat /\ i <= issued /\ \E r \in rows : r.id = i /\ r.who = hand[h].who
  BY <1>2 DEF Contact!ChannelsOf
<1>6. /\ x \in Requested(Nat) /\ x.op = "primary" /\ x.who = hand[h].who /\ x.id = hand[h].id
      /\ x.seen = marked /\ x.at = "write"
  BY <1>0, <1>1, <1>3, <1>5 DEF Requested
<1> HIDE DEF marked
<1>7. DOMAIN hand' = Handlers /\ hand'[h] = x
  BY <1>4, OthersStay
<1>8. RequestTyped(h)' /\ Counted(h)' /\ ~Removing(h)'
  BY <1>6, <1>7 DEF RequestTyped, Counted, Removing, Contact!Doing
<1>9. IdsSeen(h)' = marked
  BY <1>6, <1>7 DEF IdsSeen
<1>10. SeenOwn(h)'
  BY <1>0, <1>1, <1>2, <1>5, <1>6, <1>7, <1>9 DEF SeenOwn
<1>11. \A g \in Handlers : Noted(g, h)' /\ Noted(h, g)'
  <2> SUFFICES ASSUME NEW g \in Handlers \ {h} PROVE Noted(h, g)'
    BY <1>8 DEF Noted
  <2>1. Noted(h, g)
    BY DEF ContactsInv, OverlapNoted
  <2>2. (Removing(g)' <=> Removing(g)) /\ hand'[g] = hand[g]
    BY <1>4, OthersStay
  <2> QED BY <1>0, <1>1, <1>6, <1>7, <2>1, <2>2 DEF Noted
<1>12. UNCHANGED <<known, gone, rows, issued, open, overlap>> /\ calls' \subseteq calls
  BY <1>0
<1> QED BY <1>2, <1>4, <1>8, <1>10, <1>11, <1>12, HandOnlyKeeps

-----------------------------------------------------------------------------
(* What has to be shown of a step that changes the rows of one contact.    *)
LEMMA RowsChanged ==
    ASSUME ContactsInv, NEW h \in Handlers, Contact!Done(h), NEW c,
           UNCHANGED <<issued, calls, overlap>>,
           known' \subseteq known, gone' \subseteq ContactIds, known' \cap gone' = {},
           known \cup gone \subseteq known' \cup gone', open' \subseteq known',
           rows' \subseteq Contact!Channel, IsFiniteSet(rows'),
           \A r \in rows' : r.who \in known' /\ \E s \in rows : s.id = r.id /\ s.who = r.who,
           \A r, s \in rows' : r.id = s.id \/ r.addr = s.addr => r = s,
           \A r \in rows : r.who # c => r \in rows',
           c \in known' \ overlap => \E r \in rows' : r.who = c /\ r.isPrimary,
           c \in known' => Checked(h) /\ hand[h].who = c
    PROVE  ContactsInv'
<1>0. /\ DOMAIN hand' = Handlers
      /\ \A g \in Handlers : RequestTyped(g)'
      /\ \A g \in Handlers : Changes(g)' => g # h /\ Changes(g) /\ hand'[g] = hand[g] /\ IdsSeen(g)' = IdsSeen(g)
      /\ \A g \in Handlers : Checked(g)' => Checked(g) /\ hand'[g] = hand[g]
      /\ \A g \in Handlers : Removing(g)' => Removing(g) /\ hand'[g] = hand[g]
  BY HandQuiet DEF Contact!Done
<1>1. /\ \A r \in rows : r.id <= issued
      /\ known \subseteq ContactIds /\ overlap \subseteq ContactIds
      /\ issued \in Nat
  BY DEF ContactsInv, ContactsTyped, Contact!ContactsTypeOK
<1>2. \A g \in Handlers : Contact!Busy(g)' => hand'[g].at \in {"check", "find", "create", "clear", "write"}
  BY <1>0 DEF RequestTyped, Requested
<1>3. Contact!ContactsTypeOK'
  BY <1>1, <1>2 DEF Contact!ContactsTypeOK
<1>4. ContactsTyped'
  BY <1>0, <1>3 DEF ContactsInv, ContactsTyped
<1>5. SeenIsOwn'
  <2> SUFFICES ASSUME NEW g \in Handlers, Changes(g)' PROVE SeenOwn(g)'
    BY DEF SeenIsOwn, SeenOwn
  <2>1. SeenOwn(g) /\ Changes(g) /\ hand'[g] = hand[g] /\ IdsSeen(g)' = IdsSeen(g)
    BY <1>0 DEF ContactsInv, SeenIsOwn
  <2> QED BY <2>1 DEF SeenOwn
<1>6. OverlapNoted'
  BY <1>0 DEF ContactsInv, OverlapNoted, Noted
<1>7. CountedStay'
  <2> SUFFICES ASSUME NEW g \in Handlers, Removing(g)', hand'[g].who \in known' \ overlap'
               PROVE  Counted(g)'
    BY DEF CountedStay, Counted
  <2>1. Removing(g) /\ hand'[g] = hand[g] /\ g # h /\ Counted(g) /\ Noted(h, g)
    <3>1. Changes(g)'
      BY <1>0 DEF Removing, Changes, Contact!Doing
    <3> QED BY <1>0, <3>1 DEF ContactsInv, CountedStay, OverlapNoted
  <2>2. hand[g].who # c
    BY <2>1 DEF Noted
  <2> QED BY <2>1, <2>2 DEF Counted
<1>8. KeepsAChannel'
  BY DEF ContactsInv, KeepsAChannel, Contact!KeepsAChannel, Contact!ChannelsOf
<1> QED BY <1>4, <1>5, <1>6, <1>7, <1>8 DEF ContactsInv

LEMMA RowFacts ==
    ASSUME ContactsInv
    PROVE  /\ \A r \in rows : r \in Contact!Channel /\ r.id \in Nat /\ r.id <= issued /\ r.who \in known
           /\ \A r, s \in rows : r.id = s.id \/ r.addr = s.addr => r = s
           /\ IsFiniteSet(rows) /\ open \subseteq known /\ known \cap gone = {}
           /\ known \subseteq ContactIds /\ gone \subseteq ContactIds
BY DEF ContactsInv, ContactsTyped, Contact!ContactsTypeOK, Contact!Channel

LEMMA ImageFinite ==
    ASSUME NEW S, IsFiniteSet(S), NEW f, DOMAIN f = S
    PROVE  IsFiniteSet({f[x] : x \in S})
<1> DEFINE T == {f[x] : x \in S}
<1>1. [x \in S |-> f[x]] \in Surjection(S, T)
  BY DEF Surjection
<1> QED BY <1>1, FS_Surjection

LEMMA DeleteContactOK ==
    ASSUME ContactsInv, NEW h \in Handlers, Contact!DeleteContact(h) PROVE ContactsInv'
<1> DEFINE c == hand[h].who
<1>1. /\ Contact!Done(h) /\ UNCHANGED <<issued, calls, overlap>>
      /\ known' = known \ {c} /\ gone' = gone \cup ({c} \cap known) /\ open' = open \ ({c} \cap known)
      /\ rows' = {r \in rows : r.who \notin {c} \cap known}
  BY DEF Contact!DeleteContact
<1>2. IsFiniteSet(rows')
  BY <1>1, RowFacts, FS_Subset
<1>3. \A r \in rows : r.who # c => r \in rows'
  BY <1>1
<1>4. \A r \in rows' : r \in rows /\ r.who \in known'
  BY <1>1, RowFacts
<1>5. c \notin known'
  BY <1>1
<1>6. /\ known' \subseteq known /\ gone' \subseteq ContactIds /\ known' \cap gone' = {}
      /\ known \cup gone \subseteq known' \cup gone' /\ open' \subseteq known'
  BY <1>1, RowFacts
<1>7. rows' \subseteq Contact!Channel /\ \A r, s \in rows' : r.id = s.id \/ r.addr = s.addr => r = s
  BY <1>4, RowFacts
<1> HIDE DEF c
<1> QED
  BY <1>1, <1>2, <1>3, <1>4, <1>5, <1>6, <1>7, RowsChanged

LEMMA SetPrimaryChannelOK ==
    ASSUME ContactsInv, NEW h \in Handlers, Contact!SetPrimaryChannel(h) PROVE ContactsInv'
<1>0. /\ Contact!Busy(h) /\ hand[h].op = "primary" /\ hand[h].at = "write" /\ Contact!Done(h)
      /\ UNCHANGED <<known, gone, issued, open, calls, overlap>>
  BY DEF Contact!SetPrimaryChannel, Contact!Doing
<1>1. Checked(h) /\ SeenOwn(h)
  BY <1>0 DEF Checked, Changes, ContactsInv, SeenIsOwn
<1>2. \A r \in rows : r.id = hand[h].id \/ r.id \in hand[h].seen => r.who = hand[h].who
  BY <1>0, <1>1 DEF SeenOwn, Checked, IdsSeen
<1>3. CASE hand[h].id \in {r.id : r \in rows}
  <2> DEFINE New(r) == [r EXCEPT !.isPrimary = r.id = hand[h].id \/ (r.isPrimary /\ r.id \notin hand[h].seen)]
  <2>1. rows' = {New(r) : r \in rows}
    BY <1>3 DEF Contact!SetPrimaryChannel
  <2>2. \A r \in rows : /\ New(r) \in Contact!Channel /\ New(r).id = r.id /\ New(r).who = r.who
                        /\ New(r).addr = r.addr
                        /\ New(r).isPrimary = (r.id = hand[h].id \/ (r.isPrimary /\ r.id \notin hand[h].seen))
                        /\ r.who # hand[h].who => New(r) = r
    BY <1>2, RowFacts DEF Contact!Channel
  <2> HIDE DEF New
  <2>3. IsFiniteSet(rows')
    <3> DEFINE f == [r \in rows |-> New(r)]
    <3>1. rows' = {f[r] : r \in rows}
      BY <2>1
    <3> HIDE DEF f
    <3>2. DOMAIN f = rows
      BY DEF f
    <3> QED BY <3>1, <3>2, RowFacts, ImageFinite
  <2>4. /\ rows' \subseteq Contact!Channel
        /\ \A r \in rows' : r.who \in known' /\ \E s \in rows : s.id = r.id /\ s.who = r.who
        /\ \A r \in rows : r.who # hand[h].who => r \in rows'
    BY <1>0, <2>1, <2>2, RowFacts
  <2>5. \A r, s \in rows' : r.id = s.id \/ r.addr = s.addr => r = s
    <3> SUFFICES ASSUME NEW r \in rows', NEW s \in rows', r.id = s.id \/ r.addr = s.addr PROVE r = s
      OBVIOUS
    <3>1. PICK r0 \in rows, s0 \in rows : r = New(r0) /\ s = New(s0)
      BY <2>1
    <3> QED BY <2>2, <3>1, RowFacts
  <2>6. \E r \in rows' : r.who = hand[h].who /\ r.isPrimary
    <3>1. PICK r \in rows : r.id = hand[h].id
      BY <1>3
    <3>2. New(r) \in rows' /\ New(r).who = hand[h].who /\ New(r).isPrimary
      BY <1>2, <2>1, <2>2, <3>1
    <3> QED BY <3>2
  <2>7. known' \subseteq known /\ gone' \subseteq ContactIds /\ known' \cap gone' = {}
        /\ known \cup gone \subseteq known' \cup gone' /\ open' \subseteq known'
    BY <1>0, RowFacts
  <2> QED BY <1>0, <1>1, <2>3, <2>4, <2>5, <2>6, <2>7, RowsChanged
<1>4. CASE hand[h].id \notin {r.id : r \in rows}
  BY <1>0, <1>4, QuietKeeps, RowFacts DEF Contact!SetPrimaryChannel, Contact!Done
<1> QED BY <1>3, <1>4

LEMMA RemoveChannelOK ==
    ASSUME ContactsInv, NEW h \in Handlers, Contact!RemoveChannel(h) PROVE ContactsInv'
<1> DEFINE c == hand[h].who
<1>0. /\ Contact!Busy(h) /\ hand[h].op = "remove" /\ hand[h].at = "write" /\ Contact!Done(h)
      /\ UNCHANGED <<known, gone, issued, open, calls, overlap>>
  BY DEF Contact!RemoveChannel, Contact!Doing
<1>1. Checked(h) /\ Removing(h) /\ SeenOwn(h) /\ Counted(h)
  BY <1>0 DEF Checked, Changes, Removing, Contact!Doing, ContactsInv, SeenIsOwn, CountedStay
<1>2. \A r \in rows : r.id = hand[h].id \/ r.id \in {s.id : s \in hand[h].seen} => r.who = c
  BY <1>0, <1>1 DEF SeenOwn, Checked, IdsSeen
<1>3. PICK up \in Contact!Promotions(hand[h].seen, hand[h].id) :
        rows' = IF up \cup {hand[h].id} \subseteq {r.id : r \in rows}
                THEN {IF r.id \in up THEN [r EXCEPT !.isPrimary = TRUE] ELSE r :
                         r \in {s \in rows : s.id # hand[h].id}}
                ELSE rows
  BY DEF Contact!RemoveChannel
<1>4. CASE up \cup {hand[h].id} \subseteq {r.id : r \in rows}
  <2> DEFINE New(r) == IF r.id \in up THEN [r EXCEPT !.isPrimary = TRUE] ELSE r
             rest1 == {s \in rows : s.id # hand[h].id}
  <2>1. rows' = {New(r) : r \in rest1} /\ rest1 \subseteq rows
    BY <1>3, <1>4
  <2>2. \A i \in up : i # hand[h].id /\ \E s \in hand[h].seen : s.id = i
    BY <1>3 DEF Contact!Promotions
  <2>3. \A r \in rows : /\ New(r) \in Contact!Channel /\ New(r).id = r.id /\ New(r).who = r.who
                        /\ New(r).addr = r.addr
                        /\ New(r).isPrimary = (r.isPrimary \/ r.id \in up)
                        /\ r.who # c => New(r) = r
    BY <1>2, <2>2, RowFacts DEF Contact!Channel
  <2>4. c \in known \ overlap => \E r \in rest1 : r.who = c /\ (r.isPrimary \/ r.id \in up)
    <3> SUFFICES ASSUME c \in known \ overlap
                 PROVE  \E r \in rest1 : r.who = c /\ (r.isPrimary \/ r.id \in up)
      OBVIOUS
    <3>1. /\ hand[h].seen \subseteq {r \in rows : r.who = c}
          /\ \E r \in hand[h].seen : r.id = hand[h].id
          /\ \E r \in hand[h].seen : r.id # hand[h].id
      BY <1>1 DEF Counted
    <3>2. PICK p \in rows : p.who = c /\ p.isPrimary
      BY DEF ContactsInv, KeepsAChannel, Contact!KeepsAChannel, Contact!ChannelsOf
    <3>3. CASE p.id # hand[h].id
      BY <3>2, <3>3
    <3>4. CASE p.id = hand[h].id
      <4>1. \E r \in hand[h].seen : r.id = hand[h].id /\ r.isPrimary
        BY <3>1, <3>2, <3>4, RowFacts
      <4>2. PICK t \in {s \in hand[h].seen : s.id # hand[h].id} : up = {t.id}
        BY <1>3, <4>1 DEF Contact!Promotions
      <4> QED BY <3>1, <4>2
    <3> QED BY <3>3, <3>4
  <2> HIDE DEF New, rest1, c
  <2>5. IsFiniteSet(rows')
    <3> DEFINE f == [r \in rest1 |-> New(r)]
    <3>1. rows' = {f[r] : r \in rest1}
      BY <2>1
    <3> HIDE DEF f
    <3>2. DOMAIN f = rest1 /\ IsFiniteSet(rest1)
      BY <2>1, RowFacts, FS_Subset DEF f
    <3> QED BY <3>1, <3>2, ImageFinite
  <2>6. /\ rows' \subseteq Contact!Channel
        /\ \A r \in rows' : r.who \in known' /\ \E s \in rows : s.id = r.id /\ s.who = r.who
        /\ \A r, s \in rows' : r.id = s.id \/ r.addr = s.addr => r = s
    BY <1>0, <2>1, <2>3, RowFacts
  <2>7. \A r \in rows : r.who # c => r \in rest1
    BY <1>2 DEF rest1
  <2>8. \A r \in rows : r.who # c => r \in rows'
    BY <2>1, <2>3, <2>7
  <2>9. c \in known' \ overlap => \E r \in rows' : r.who = c /\ r.isPrimary
    BY <1>0, <2>1, <2>3, <2>4
  <2>10. known' \subseteq known /\ gone' \subseteq ContactIds /\ known' \cap gone' = {}
        /\ known \cup gone \subseteq known' \cup gone' /\ open' \subseteq known'
    BY <1>0, RowFacts
  <2>11. hand[h].who = c
    BY DEF c
  <2> QED BY <1>0, <1>1, <2>5, <2>6, <2>8, <2>9, <2>10, <2>11, RowsChanged
<1>5. CASE ~(up \cup {hand[h].id} \subseteq {r.id : r \in rows})
  BY <1>0, <1>3, <1>5, QuietKeeps, RowFacts DEF Contact!Done
<1> QED BY <1>4, <1>5

LEMMA ContactsNext == ContactsInv /\ [Contact!Next]_Contact!vars => ContactsInv'
<1> SUFFICES ASSUME ContactsInv, [Contact!Next]_Contact!vars PROVE ContactsInv'
  OBVIOUS
<1>1. CASE Contact!Next
  BY <1>1, BeginOK, QuietStepsOK, CreateResolvedOK, CreateContactOK, AddChannelOK,
     CheckRemovalOK, RemoveChannelOK, CheckPrimaryOK, ClearPrimaryOK, SetPrimaryChannelOK,
     DeleteContactOK DEF Contact!Next
<1>2. CASE UNCHANGED Contact!vars
  <2>0. UNCHANGED <<known, gone, rows, issued, open, hand, calls, overlap>>
    BY <1>2 DEF Contact!vars
  <2>1. \A h \in Handlers :
          /\ IdsSeen(h)' = IdsSeen(h) /\ (Changes(h)' <=> Changes(h))
          /\ (Checked(h)' <=> Checked(h)) /\ (Removing(h)' <=> Removing(h))
          /\ (RequestTyped(h)' <=> RequestTyped(h)) /\ (Contact!Busy(h)' <=> Contact!Busy(h))
    BY <2>0 DEF IdsSeen, Changes, Checked, Removing, RequestTyped, Contact!Busy, Contact!Doing
  <2>2. ContactsTyped'
    BY <2>0, <2>1 DEF ContactsInv, ContactsTyped, Contact!ContactsTypeOK
  <2>3. SeenIsOwn' /\ OverlapNoted' /\ CountedStay'
    BY <2>0, <2>1 DEF ContactsInv, SeenIsOwn, SeenOwn, OverlapNoted, Noted, CountedStay, Counted
  <2>4. KeepsAChannel'
    BY <2>0 DEF ContactsInv, KeepsAChannel, Contact!KeepsAChannel, Contact!ChannelsOf
  <2> QED BY <2>2, <2>3, <2>4 DEF ContactsInv
<1> QED BY <1>1, <1>2

(* Whatever handlers overlap, a contact keeps a primary channel unless a   *)
(* removal of one of its channels overlapped another change of them.       *)
THEOREM ContactsKeepAChannel == Contact!Spec => []KeepsAChannel
<1>1. ContactsInv => KeepsAChannel
  BY DEF ContactsInv
<1> QED BY <1>1, ContactsInit, ContactsNext, PTL DEF Contact!Spec

(* Channels are of contacts that are there, no two have one address or one *)
(* id, and no contact is both there and deleted.                           *)
THEOREM ContactsTypeCorrect == Contact!Spec => []Contact!ContactsTypeOK
<1>1. ContactsInv => Contact!ContactsTypeOK
  BY DEF ContactsInv, ContactsTyped
<1> QED BY <1>1, ContactsInit, ContactsNext, PTL DEF Contact!Spec

-----------------------------------------------------------------------------
(***************************************************************************)
(* Access.                                                                 *)
(***************************************************************************)
ErrandTyped(h) ==
    Rights!Busy(h) =>
        /\ DOMAIN admin[h] = {"op", "by", "list", "id", "role", "at"}
        /\ Rights!Asked(admin[h])
        /\ admin[h].at \in {"guard", "find", "same", "write"}
ErrandsTyped ==
    /\ DOMAIN admin = Admins /\ \A h \in Admins : ErrandTyped(h)
    /\ \A q \in errands : Rights!Asked(q)

AccessInv ==
    /\ Rights!AccessTypeOK
    /\ given \in Nat /\ DOMAIN token = Staff
    /\ ErrandsTyped
    /\ ReportsHold

LEMMA RightsSets ==
    \A S : Rights!Cardinality(S) = Cardinality(S) /\ Rights!IsFiniteSet(S) = IsFiniteSet(S)
BY DEF Rights!Cardinality, Cardinality, Rights!IsFiniteSet, IsFiniteSet

LEMMA AccessInit == Rights!Init => AccessInv
<1> SUFFICES ASSUME Rights!Init PROVE AccessInv
  OBVIOUS
<1>1. PICK o \in Offices :
        /\ perm = [i \in PermissionIds |-> IF i \in DOMAIN o.perm THEN o.perm[i] ELSE None]
        /\ past = DOMAIN o.perm
        /\ grants = o.grants /\ given = Cardinality(o.grants)
        /\ user = [u \in Staff |-> IF u \in DOMAIN o.user THEN o.user[u] ELSE None]
        /\ token = [u \in Staff |-> None]
        /\ admin = [h \in Admins |-> Rights!Free]
        /\ errands = o.todo
        /\ reports = {} /\ removed = {}
  BY RightsSets DEF Rights!Init
<1>2. None \notin Words \cup Rights!Pairs \cup Rights!Account
  BY RecordsAssumption DEF Rights!OfficesOK
<1>3. /\ o.perm \in [DOMAIN o.perm -> Rights!Pairs] /\ DOMAIN o.perm \subseteq PermissionIds
      /\ \A i, j \in DOMAIN o.perm : o.perm[i] = o.perm[j] => i = j
      /\ IsFiniteSet(o.grants)
      /\ \A g \in o.grants :
          g \in Rights!Grant /\ g.perm \in DOMAIN o.perm /\ g.id <= Cardinality(o.grants)
      /\ \A f, g \in o.grants : f.id = g.id \/ Rights!Pair(f) = Rights!Pair(g) => f = g
      /\ o.user \in [DOMAIN o.user -> Rights!Account] /\ DOMAIN o.user \subseteq Staff
      /\ \A q \in o.todo : Rights!Asked(q)
  BY RecordsAssumption, RightsSets DEF Rights!OfficesOK
<1>4. given \in Nat
  BY <1>1, <1>3, FS_CardinalityType
<1>5. \A h \in Admins : ~Rights!Busy(h)
  BY <1>1 DEF Rights!Busy
<1>6. ErrandsTyped
  BY <1>1, <1>3, <1>5 DEF ErrandsTyped, ErrandTyped
<1>7. ReportsHold
  BY <1>1 DEF ReportsHold, Rights!ReportsHold
<1>8. /\ perm \in [PermissionIds -> Rights!Pairs \cup {None}]
      /\ \A i \in PermissionIds : perm[i] # None <=> i \in DOMAIN o.perm
      /\ \A i \in DOMAIN o.perm : perm[i] = o.perm[i]
  BY <1>1, <1>2, <1>3
<1>9. user \in [Staff -> Rights!Account \cup {None}] /\ \A u \in Staff : token[u] = None
  BY <1>1, <1>3
<1>10. Rights!AccessTypeOK
  BY <1>1, <1>3, <1>5, <1>8, <1>9 DEF Rights!AccessTypeOK
<1> QED
  BY <1>1, <1>4, <1>6, <1>7, <1>10 DEF AccessInv

-----------------------------------------------------------------------------
LEMMA ErrandStep ==
    ASSUME ErrandsTyped, NEW h \in Admins, NEW x, admin' = [admin EXCEPT ![h] = x],
           \A q \in errands' : Rights!Asked(q),
           \/ x = Rights!Free
           \/ /\ DOMAIN x = {"op", "by", "list", "id", "role", "at"} /\ Rights!Asked(x)
              /\ x.at \in {"guard", "find", "same", "write"}
    PROVE  ErrandsTyped'
<1>1. DOMAIN admin' = Admins /\ admin'[h] = x /\ \A g \in Admins \ {h} : admin'[g] = admin[g]
  BY DEF ErrandsTyped
<1>2. ErrandTyped(h)'
  BY <1>1 DEF ErrandTyped, Rights!Busy, Rights!Free
<1>3. \A g \in Admins \ {h} : ErrandTyped(g)'
  BY <1>1 DEF ErrandsTyped, ErrandTyped, Rights!Busy
<1> QED BY <1>1, <1>2, <1>3 DEF ErrandsTyped

LEMMA DoneTyped ==
    ASSUME ErrandsTyped, NEW h \in Admins, Rights!Done(h), UNCHANGED errands
    PROVE  ErrandsTyped'
BY ErrandStep DEF Rights!Done, ErrandsTyped

LEMMA GoTyped ==
    ASSUME ErrandsTyped, NEW h \in Admins, NEW at \in {"guard", "find", "same", "write"},
           Rights!Busy(h), Rights!Go(h, at), UNCHANGED errands
    PROVE  ErrandsTyped'
<1>1. PICK x : x = [admin[h] EXCEPT !.at = at]
  OBVIOUS
<1>2. /\ DOMAIN admin[h] = {"op", "by", "list", "id", "role", "at"}
      /\ Rights!Asked(admin[h])
  BY DEF ErrandsTyped, ErrandTyped
<1>3. /\ DOMAIN x = {"op", "by", "list", "id", "role", "at"} /\ x.at = at
      /\ x.op = admin[h].op /\ x.by = admin[h].by /\ x.list = admin[h].list
      /\ x.id = admin[h].id /\ x.role = admin[h].role
  BY <1>1, <1>2
<1>4. Rights!Asked(x)
  BY <1>2, <1>3 DEF Rights!Asked
<1>5. admin' = [admin EXCEPT ![h] = x]
  BY <1>1 DEF Rights!Go
<1> QED BY <1>3, <1>4, <1>5, ErrandStep DEF ErrandsTyped

LEMMA TailOfMore ==
    ASSUME NEW S, NEW s \in Seq(S), s # <<>>, Len(s) # 1
    PROVE  Tail(s) \in Seq(S) /\ Tail(s) # <<>>
<1>1. Tail(s) \in Seq(S) /\ Len(Tail(s)) = Len(s) - 1
  BY HeadTailProperties
<1>2. Len(s) \in Nat /\ Len(s) # 0
  OBVIOUS
<1>3. Len(Tail(s)) # 0
  BY <1>1, <1>2
<1> QED BY <1>1, <1>3

LEMMA NextEntryTyped ==
    ASSUME ErrandsTyped, NEW h \in Admins, Rights!Busy(h), admin[h].op \in {"bundle", "assign"},
           Rights!NextEntry(h), UNCHANGED errands
    PROVE  ErrandsTyped'
<1>1. CASE Len(admin[h].list) = 1
  BY <1>1, DoneTyped DEF Rights!NextEntry
<1>2. CASE Len(admin[h].list) # 1
  <2>1. PICK x : x = [admin[h] EXCEPT !.at = "find", !.list = Tail(admin[h].list)]
    OBVIOUS
  <2>2. /\ DOMAIN admin[h] = {"op", "by", "list", "id", "role", "at"}
        /\ Rights!Asked(admin[h])
    BY DEF ErrandsTyped, ErrandTyped
  <2>3. /\ DOMAIN x = {"op", "by", "list", "id", "role", "at"} /\ x.at = "find"
        /\ x.op = admin[h].op /\ x.by = admin[h].by /\ x.list = Tail(admin[h].list)
        /\ x.id = admin[h].id /\ x.role = admin[h].role
    BY <2>1, <2>2
  <2>4. \A S : admin[h].list \in Seq(S) /\ admin[h].list # <<>> =>
               Tail(admin[h].list) \in Seq(S) /\ Tail(admin[h].list) # <<>>
    BY <1>2, TailOfMore
  <2>5. Rights!Asked(x)
    BY <2>2, <2>3, <2>4 DEF Rights!Asked
  <2>6. admin' = [admin EXCEPT ![h] = x]
    BY <1>2, <2>1 DEF Rights!NextEntry
  <2> QED BY <2>3, <2>5, <2>6, ErrandStep DEF ErrandsTyped
<1> QED BY <1>1, <1>2

(* A step that leaves the tables alone, and reports only what is there.    *)
LEMMA TablesStay ==
    ASSUME AccessInv, ErrandsTyped', UNCHANGED <<perm, past, grants, given, user, token, removed>>,
           reports' \subseteq reports \cup {Rights!Pair(g) : g \in grants}
    PROVE  AccessInv'
<1>1. Rights!AccessTypeOK'
  <2>1. \A h \in Admins : Rights!Busy(h)' => admin'[h].at \in {"guard", "find", "same", "write"}
    BY DEF ErrandsTyped, ErrandTyped
  <2> QED BY <2>1 DEF AccessInv, Rights!AccessTypeOK
<1>2. ReportsHold'
  BY DEF AccessInv, ReportsHold, Rights!ReportsHold, Rights!Pair
<1> QED BY <1>1, <1>2 DEF AccessInv

LEMMA AskedTyped ==
    ASSUME ErrandsTyped, NEW h \in Admins, Rights!Busy(h) PROVE Rights!Asked(admin[h])
BY DEF ErrandsTyped, ErrandTyped

LEMMA HeadTyped ==
    ASSUME ErrandsTyped, NEW h \in Admins, Rights!Busy(h)
    PROVE  /\ admin[h].op = "bundle" => Head(admin[h].list) \in Rights!Pairs
           /\ admin[h].op = "assign" => Head(admin[h].list) \in PermissionIds
           /\ admin[h].op = "rename" => Head(admin[h].list) \in [1..2 -> Words \cup {None}]
<1>1. Rights!Asked(admin[h])
  BY AskedTyped
<1>2. \A S : admin[h].list \in Seq(S) /\ admin[h].list # <<>> => Head(admin[h].list) \in S
  BY HeadTailProperties
<1> QED BY <1>1, <1>2 DEF Rights!Asked

LEMMA LoginOK == ASSUME AccessInv, NEW u \in Staff, Rights!Login(u) PROVE AccessInv'
<1>1. UNCHANGED <<perm, past, grants, given, user, admin, errands, reports, removed>>
  BY DEF Rights!Login
<1>2. ErrandsTyped'
  BY <1>1 DEF AccessInv, ErrandsTyped, ErrandTyped, Rights!Busy
<1>3. ReportsHold'
  BY <1>1 DEF AccessInv, ReportsHold, Rights!ReportsHold
<1>4. Rights!AccessTypeOK'
  BY <1>1 DEF AccessInv, Rights!AccessTypeOK, Rights!Login, Rights!Busy
<1> QED BY <1>1, <1>2, <1>3, <1>4 DEF AccessInv, Rights!Login

LEMMA BeginErrandOK == ASSUME AccessInv, NEW h \in Admins, Rights!Begin(h) PROVE AccessInv'
<1>1. PICK q \in errands :
        /\ admin' = [admin EXCEPT ![h] =
              [op |-> q.op, by |-> q.by, list |-> q.list, id |-> q.id, role |-> q.role,
               at |-> "guard"]]
        /\ errands' = errands \ {q}
  BY DEF Rights!Begin
<1>2. PICK x : x = [op |-> q.op, by |-> q.by, list |-> q.list, id |-> q.id, role |-> q.role,
                    at |-> "guard"]
  OBVIOUS
<1>3. Rights!Asked(q)
  BY DEF AccessInv, ErrandsTyped
<1>4. /\ DOMAIN x = {"op", "by", "list", "id", "role", "at"} /\ x.at = "guard"
      /\ x.op = q.op /\ x.by = q.by /\ x.list = q.list /\ x.id = q.id /\ x.role = q.role
  BY <1>2
<1>5. Rights!Asked(x)
  BY <1>3, <1>4 DEF Rights!Asked
<1>6. ErrandsTyped'
  BY <1>1, <1>2, <1>4, <1>5, ErrandStep DEF AccessInv, ErrandsTyped
<1>7. UNCHANGED <<perm, past, grants, given, user, token, removed, reports>>
  BY DEF Rights!Begin, Rights!tables
<1> QED BY <1>6, <1>7, TablesStay

LEMMA ReadsOK ==
    ASSUME AccessInv, NEW h \in Admins,
           \/ Rights!Guard(h) \/ Rights!FindPair(h) \/ Rights!FindPermission(h)
           \/ Rights!FindEntry(h) \/ Rights!FindAssigned(h) \/ Rights!FindAssignment(h)
           \/ Rights!FindUser(h)
    PROVE  AccessInv'
<1>0. /\ ErrandsTyped /\ Rights!Busy(h)
      /\ UNCHANGED <<perm, past, grants, given, user, token, errands, removed>>
  BY DEF AccessInv, Rights!tables, Rights!Doing, Rights!Guard, Rights!FindPair, Rights!FindPermission,
     Rights!FindEntry, Rights!FindAssigned, Rights!FindAssignment, Rights!FindUser
<1>1. \/ Rights!Done(h)
      \/ \E at \in {"find", "same", "write"} : Rights!Go(h, at)
      \/ admin[h].op \in {"bundle", "assign"} /\ Rights!NextEntry(h)
  BY DEF Rights!Doing, Rights!Guard, Rights!FindPair, Rights!FindPermission, Rights!SkipOrGo,
     Rights!FindEntry, Rights!FindAssigned, Rights!FindAssignment, Rights!FindUser
<1>2. ErrandsTyped'
  BY <1>0, <1>1, DoneTyped, GoTyped, NextEntryTyped
<1>3. CASE UNCHANGED reports
  BY <1>0, <1>2, <1>3, TablesStay
<1>4. CASE Rights!FindAssigned(h) /\ ~UNCHANGED reports
  <2>1. Rights!Has(admin[h].role, Head(admin[h].list)) /\ Rights!Report(h)
    BY <1>4 DEF Rights!FindAssigned
  <2>2. <<admin[h].role, Head(admin[h].list)>> \in {Rights!Pair(g) : g \in grants}
    BY <2>1 DEF Rights!Has, Rights!Pair
  <2> QED BY <1>0, <1>2, <2>1, <2>2, TablesStay DEF Rights!Report
<1> QED
  BY <1>3, <1>4 DEF Rights!Guard, Rights!FindPair, Rights!FindPermission,
     Rights!FindEntry, Rights!FindAssignment, Rights!FindUser

-----------------------------------------------------------------------------
(* The tables, and what of them a step has to keep.                        *)
PermOK ==
    /\ perm \in [PermissionIds -> Rights!Pairs \cup {None}]
    /\ \A i, j \in PermissionIds : perm[i] # None /\ perm[i] = perm[j] => i = j
    /\ {i \in PermissionIds : perm[i] # None} \subseteq past /\ past \subseteq PermissionIds
GrantsOK ==
    /\ \A g \in grants : g \in Rights!Grant /\ perm[g.perm] # None /\ g.id <= given
    /\ \A f, g \in grants : f.id = g.id \/ Rights!Pair(f) = Rights!Pair(g) => f = g
UsersOK ==
    /\ user \in [Staff -> Rights!Account \cup {None}]
    /\ \A u \in Staff : user[u] = None => token[u] = None

LEMMA TypeParts ==
    /\ Rights!AccessTypeOK => PermOK /\ GrantsOK /\ UsersOK
    /\ PermOK /\ GrantsOK /\ UsersOK /\ ErrandsTyped => Rights!AccessTypeOK
BY DEF Rights!AccessTypeOK, PermOK, GrantsOK, UsersOK, ErrandsTyped, ErrandTyped

LEMMA TypePartsNext ==
    PermOK' /\ GrantsOK' /\ UsersOK' /\ ErrandsTyped' => Rights!AccessTypeOK'
BY DEF Rights!AccessTypeOK, PermOK, GrantsOK, UsersOK, ErrandsTyped, ErrandTyped

LEMMA CreatePermissionOK ==
    ASSUME AccessInv, NEW h \in Admins, Rights!CreatePermission(h) PROVE AccessInv'
<1> DEFINE pair == Head(admin[h].list)
<1>0. /\ ErrandsTyped /\ Rights!Busy(h) /\ admin[h].op = "bundle"
      /\ UNCHANGED <<grants, given, user, token, errands, reports, removed>>
  BY DEF AccessInv, Rights!CreatePermission, Rights!Doing
<1>1. pair \in Rights!Pairs /\ None \notin Rights!Pairs
  BY <1>0, HeadTyped, RecordsAssumption DEF Rights!OfficesOK
<1>2. CASE Rights!Exists(pair)
  BY <1>0, <1>2, DoneTyped, TablesStay DEF Rights!CreatePermission
<1>3. CASE ~Rights!Exists(pair)
  <2>1. PICK i \in PermissionIds \ past : perm' = [perm EXCEPT ![i] = pair] /\ past' = past \cup {i}
    BY <1>3 DEF Rights!CreatePermission
  <2>2. ErrandsTyped'
    BY <1>0, <1>3, NextEntryTyped DEF Rights!CreatePermission
  <2> HIDE DEF pair
  <2>3. PermOK /\ GrantsOK /\ UsersOK
    BY TypeParts DEF AccessInv
  <2>4. PermOK'
    BY <1>1, <1>3, <2>1, <2>3 DEF PermOK, Rights!Exists
  <2>5. GrantsOK'
    BY <1>0, <1>1, <2>1, <2>3 DEF GrantsOK, PermOK, Rights!Grant, Rights!Pair
  <2>6. UsersOK'
    BY <1>0, <2>3 DEF UsersOK
  <2>7. ReportsHold'
    BY <1>0 DEF AccessInv, ReportsHold, Rights!ReportsHold, Rights!Pair
  <2> QED BY <1>0, <2>2, <2>4, <2>5, <2>6, <2>7, TypePartsNext DEF AccessInv
<1> QED BY <1>2, <1>3

LEMMA UpdatePermissionOK ==
    ASSUME AccessInv, NEW h \in Admins, Rights!UpdatePermission(h) PROVE AccessInv'
<1> DEFINE i == admin[h].id
           pair == Rights!Renamed(perm[i], Head(admin[h].list))
<1>0. /\ ErrandsTyped /\ Rights!Busy(h) /\ admin[h].op = "rename" /\ Rights!Done(h)
      /\ UNCHANGED <<past, grants, given, user, token, errands, reports, removed>>
  BY DEF AccessInv, Rights!UpdatePermission, Rights!Doing
<1>1. Rights!Asked(admin[h]) /\ Head(admin[h].list) \in [1..2 -> Words \cup {None}]
  BY <1>0, AskedTyped, HeadTyped
<1>2. i \in PermissionIds /\ None \notin Rights!Pairs
  BY <1>0, <1>1, RecordsAssumption DEF Rights!Asked, Rights!OfficesOK
<1>3. PermOK /\ GrantsOK /\ UsersOK
  BY TypeParts DEF AccessInv
<1>4. ErrandsTyped'
  BY <1>0, DoneTyped
<1>5. CASE perm[i] = None \/ \E j \in PermissionIds \ {i} : perm[j] = pair
  BY <1>0, <1>4, <1>5, TablesStay DEF Rights!UpdatePermission
<1>6. CASE ~(perm[i] = None \/ \E j \in PermissionIds \ {i} : perm[j] = pair)
  <2>1. perm' = [perm EXCEPT ![i] = pair]
    BY <1>6 DEF Rights!UpdatePermission
  <2>2. pair \in Rights!Pairs
    <3>1. perm[i] \in [1..2 -> Words]
      BY <1>2, <1>3, <1>6 DEF PermOK, Rights!Pairs
    <3> QED BY <1>1, <3>1 DEF Rights!Renamed, Rights!Pairs
  <2> HIDE DEF pair, i
  <2>4. PermOK'
    BY <1>0, <1>2, <1>3, <1>6, <2>1, <2>2 DEF PermOK
  <2>5. GrantsOK'
    BY <1>0, <1>2, <1>3, <2>1, <2>2 DEF GrantsOK, PermOK, Rights!Grant, Rights!Pair
  <2>6. UsersOK'
    BY <1>0, <1>3 DEF UsersOK
  <2>7. ReportsHold'
    BY <1>0 DEF AccessInv, ReportsHold, Rights!ReportsHold, Rights!Pair
  <2> QED BY <1>0, <1>4, <2>4, <2>5, <2>6, <2>7, TypePartsNext DEF AccessInv
<1> QED BY <1>5, <1>6

-----------------------------------------------------------------------------
(* A step that takes assignments back, and notes them.                     *)
LEMMA TakenBack ==
    ASSUME AccessInv, ErrandsTyped', NEW gs, Rights!Take(gs),
           PermOK', \A g \in grants \ gs : perm'[g.perm] # None,
           UNCHANGED <<given, user, token, reports>>
    PROVE  AccessInv'
<1>1. GrantsOK /\ UsersOK
  BY TypeParts DEF AccessInv
<1>2. GrantsOK'
  BY <1>1 DEF GrantsOK, Rights!Take, Rights!Pair
<1>3. UsersOK'
  BY <1>1 DEF UsersOK
<1>4. ReportsHold'
  <2>1. \A g \in grants : Rights!Pair(g) \in ({Rights!Pair(f) : f \in grants} \cup removed)'
    BY DEF Rights!Take, Rights!Pair
  <2> QED BY <2>1 DEF AccessInv, ReportsHold, Rights!ReportsHold, Rights!Take
<1> QED BY <1>2, <1>3, <1>4, TypePartsNext DEF AccessInv

LEMMA TakeStepsOK ==
    ASSUME AccessInv, NEW h \in Admins,
           \/ Rights!DeletePermission(h) \/ Rights!DeleteRolePermission(h)
           \/ Rights!ClearRolePermissions(h)
    PROVE  AccessInv'
<1>0. ErrandsTyped /\ Rights!Busy(h) /\ Rights!Done(h) /\ UNCHANGED <<past, given, user, token, errands, reports>>
  BY DEF AccessInv, Rights!DeletePermission, Rights!DeleteRolePermission,
     Rights!ClearRolePermissions, Rights!Doing
<1>1. ErrandsTyped'
  BY <1>0, DoneTyped
<1>2. PermOK /\ GrantsOK
  BY TypeParts DEF AccessInv
<1>3. CASE Rights!DeletePermission(h)
  <2>1. /\ perm' = [perm EXCEPT ![admin[h].id] = None]
        /\ Rights!Take({g \in grants : g.perm = admin[h].id})
    BY <1>3 DEF Rights!DeletePermission
  <2>2. admin[h].id \in PermissionIds
    BY <1>0, <1>3, AskedTyped DEF Rights!DeletePermission, Rights!Doing, Rights!Asked
  <2>3. PermOK'
    BY <1>0, <1>2, <2>1, <2>2 DEF PermOK
  <2>4. \A g \in grants \ {f \in grants : f.perm = admin[h].id} : perm'[g.perm] # None
    BY <1>2, <2>1, <2>2 DEF PermOK, GrantsOK, Rights!Grant
  <2> QED BY <1>0, <1>1, <2>1, <2>3, <2>4, TakenBack
<1>4. CASE Rights!DeleteRolePermission(h)
  <2>1. perm' = perm /\ Rights!Take({g \in grants : g.id = admin[h].id})
    BY <1>4 DEF Rights!DeleteRolePermission
  <2>2. PermOK' /\ \A g \in grants : perm'[g.perm] # None
    BY <1>0, <1>2, <2>1 DEF PermOK, GrantsOK
  <2> QED BY <1>0, <1>1, <2>1, <2>2, TakenBack
<1>5. CASE Rights!ClearRolePermissions(h)
  <2>1. perm' = perm /\ Rights!Take({g \in grants : g.role = admin[h].role})
    BY <1>5 DEF Rights!ClearRolePermissions
  <2>2. PermOK' /\ \A g \in grants : perm'[g.perm] # None
    BY <1>0, <1>2, <2>1 DEF PermOK, GrantsOK
  <2> QED BY <1>0, <1>1, <2>1, <2>2, TakenBack
<1> QED BY <1>3, <1>4, <1>5

LEMMA CreateRolePermissionOK ==
    ASSUME AccessInv, NEW h \in Admins, Rights!CreateRolePermission(h) PROVE AccessInv'
<1> DEFINE i == Head(admin[h].list)
           new == [id |-> given + 1, role |-> admin[h].role, perm |-> i]
<1>0. /\ ErrandsTyped /\ Rights!Busy(h) /\ admin[h].op = "assign"
      /\ UNCHANGED <<perm, past, user, token, errands, removed>>
  BY DEF AccessInv, Rights!CreateRolePermission, Rights!Doing
<1>1. i \in PermissionIds /\ admin[h].role \in Roles /\ given \in Nat
  BY <1>0, HeadTyped, AskedTyped DEF Rights!Asked, AccessInv
<1>2. PermOK /\ GrantsOK /\ UsersOK
  BY TypeParts DEF AccessInv
<1>3. CASE perm[i] = None \/ \E g \in grants : g.role = admin[h].role /\ g.perm = i
  BY <1>0, <1>3, DoneTyped, TablesStay DEF Rights!CreateRolePermission
<1>4. CASE ~(perm[i] = None \/ \E g \in grants : g.role = admin[h].role /\ g.perm = i)
  <2>1. /\ grants' = grants \cup {new} /\ given' = given + 1
        /\ reports' = reports \cup {<<admin[h].role, i>>}
    BY <1>4 DEF Rights!CreateRolePermission, Rights!Report
  <2>2. ErrandsTyped'
    BY <1>0, <1>4, NextEntryTyped DEF Rights!CreateRolePermission
  <2>3. /\ new \in Rights!Grant /\ new.id = given + 1 /\ new.role = admin[h].role /\ new.perm = i
        /\ Rights!Pair(new) = <<admin[h].role, i>>
    BY <1>1 DEF Rights!Grant, Rights!Pair
  <2>4. \A g \in grants : g.id \in Nat /\ g.id <= given /\ Rights!Pair(g) # Rights!Pair(new)
    BY <1>2, <1>4, <2>3 DEF GrantsOK, Rights!Grant, Rights!Pair
  <2> HIDE DEF new, i
  <2>5. PermOK' /\ UsersOK'
    BY <1>0, <1>2 DEF PermOK, UsersOK
  <2>6. GrantsOK'
    <3>1. \A g \in grants' : g \in Rights!Grant /\ perm'[g.perm] # None /\ g.id <= given'
      BY <1>0, <1>1, <1>2, <1>4, <2>1, <2>3, <2>4 DEF GrantsOK
    <3>2. \A f, g \in grants' : f.id = g.id \/ Rights!Pair(f) = Rights!Pair(g) => f = g
      BY <1>1, <1>2, <2>1, <2>3, <2>4 DEF GrantsOK
    <3> QED BY <3>1, <3>2 DEF GrantsOK, Rights!Pair
  <2>7. ReportsHold'
    BY <1>0, <2>1, <2>3 DEF AccessInv, ReportsHold, Rights!ReportsHold, Rights!Pair
  <2> QED BY <1>0, <1>1, <2>1, <2>2, <2>5, <2>6, <2>7, TypePartsNext DEF AccessInv
<1> QED BY <1>3, <1>4

LEMMA UpdateRolePermissionOK ==
    ASSUME AccessInv, NEW h \in Admins, Rights!UpdateRolePermission(h) PROVE AccessInv'
<1> DEFINE gs == {g \in grants : g.id = admin[h].id /\ ~Rights!Has(admin[h].role, g.perm)}
           Moved(g) == [g EXCEPT !.role = admin[h].role]
<1>0. /\ ErrandsTyped /\ Rights!Busy(h) /\ admin[h].op = "move" /\ Rights!Done(h)
      /\ UNCHANGED <<perm, past, given, user, token, errands, reports>>
      /\ grants' = (grants \ gs) \cup {Moved(g) : g \in gs}
      /\ removed' = removed \cup {Rights!Pair(g) : g \in gs}
  BY DEF AccessInv, Rights!UpdateRolePermission, Rights!Doing
<1>1. ErrandsTyped' /\ admin[h].role \in Roles
  BY <1>0, DoneTyped, AskedTyped DEF Rights!Asked
<1>2. PermOK /\ GrantsOK /\ UsersOK
  BY TypeParts DEF AccessInv
<1>3. \A g \in gs : /\ g \in grants /\ g.id = admin[h].id
                    /\ Moved(g) \in Rights!Grant /\ Moved(g).id = g.id /\ Moved(g).perm = g.perm
                    /\ Moved(g).role = admin[h].role
                    /\ \A f \in grants : Rights!Pair(f) # Rights!Pair(Moved(g))
  BY <1>1, <1>2 DEF GrantsOK, Rights!Grant, Rights!Pair, Rights!Has
<1>4. \A f, g \in gs : f = g
  BY <1>2 DEF GrantsOK
<1> HIDE DEF Moved, gs
<1>5. PermOK' /\ UsersOK'
  BY <1>0, <1>2 DEF PermOK, UsersOK
<1>6. GrantsOK'
  <2>1. \A g \in grants' : g \in Rights!Grant /\ perm'[g.perm] # None /\ g.id <= given'
    BY <1>0, <1>2, <1>3 DEF GrantsOK
  <2>2. \A f, g \in grants' : f.id = g.id \/ Rights!Pair(f) = Rights!Pair(g) => f = g
    <3> SUFFICES ASSUME NEW f \in grants', NEW g \in grants', f.id = g.id \/ Rights!Pair(f) = Rights!Pair(g)
                 PROVE  f = g
      OBVIOUS
    <3>1. CASE f \in grants \ gs /\ g \in grants \ gs
      BY <1>2, <3>1 DEF GrantsOK
    <3>2. CASE f \in grants \ gs /\ \E k \in gs : g = Moved(k)
      BY <1>2, <1>3, <3>2 DEF GrantsOK
    <3>3. CASE g \in grants \ gs /\ \E k \in gs : f = Moved(k)
      BY <1>2, <1>3, <3>3 DEF GrantsOK
    <3>4. CASE (\E k \in gs : f = Moved(k)) /\ (\E k \in gs : g = Moved(k))
      BY <1>4, <3>4
    <3> QED BY <1>0, <3>1, <3>2, <3>3, <3>4
  <2> QED BY <2>1, <2>2 DEF GrantsOK, Rights!Pair
<1>7. ReportsHold'
  BY <1>0, <1>3 DEF AccessInv, ReportsHold, Rights!ReportsHold, Rights!Pair
<1> QED BY <1>0, <1>1, <1>5, <1>6, <1>7, TypePartsNext DEF AccessInv


(* Whoever is about to change a user found one, and no user ever vanishes. *)
UsersFound ==
    \A h \in Admins :
        Rights!Busy(h) /\ admin[h].op \in {"edit", "fire"} /\ admin[h].at = "write"
            => user[admin[h].id] # None

LEMMA WriteUserOK ==
    ASSUME AccessInv, UsersFound, NEW h \in Admins, Rights!WriteUser(h)
    PROVE  AccessInv' /\ \A u \in Staff : user[u] # None => user'[u] # None
<1> DEFINE u == admin[h].id
           new == [role |-> IF admin[h].op = "fire" THEN user[u].role ELSE admin[h].role,
                   isActive |-> IF admin[h].op = "edit" THEN user[u].isActive
                                ELSE admin[h].op = "hire"]
<1>0. /\ ErrandsTyped /\ Rights!Busy(h) /\ admin[h].op \in {"hire", "edit", "fire"}
      /\ admin[h].at = "write" /\ Rights!Done(h)
      /\ UNCHANGED <<perm, past, grants, given, token, errands, reports, removed>>
      /\ user' = IF admin[h].op = "hire" /\ user[u] # None THEN user ELSE [user EXCEPT ![u] = new]
  BY DEF AccessInv, Rights!WriteUser, Rights!Doing
<1>1. ErrandsTyped' /\ u \in Staff /\ (admin[h].op # "fire" => admin[h].role \in Roles)
  BY <1>0, DoneTyped, AskedTyped DEF Rights!Asked, Rights!OfUsers
<1>2. PermOK /\ GrantsOK /\ UsersOK /\ None \notin Rights!Account
  BY TypeParts, RecordsAssumption DEF AccessInv, Rights!OfficesOK
<1>3. admin[h].op \in {"edit", "fire"} => user[u] \in Rights!Account
  BY <1>0, <1>1, <1>2 DEF UsersFound, UsersOK
<1>4. new \in Rights!Account
  BY <1>0, <1>1, <1>3 DEF Rights!Account
<1> HIDE DEF new, u
<1>5. UsersOK' /\ \A v \in Staff : user[v] # None => user'[v] # None
  BY <1>0, <1>1, <1>2, <1>4 DEF UsersOK
<1>6. PermOK' /\ GrantsOK'
  BY <1>0, <1>2 DEF PermOK, GrantsOK, Rights!Pair
<1>7. ReportsHold'
  BY <1>0 DEF AccessInv, ReportsHold, Rights!ReportsHold, Rights!Pair
<1> QED BY <1>0, <1>1, <1>5, <1>6, <1>7, TypePartsNext DEF AccessInv

LEMMA FoundStays ==
    ASSUME ErrandsTyped, UsersFound, NEW h \in Admins, NEW x, admin' = [admin EXCEPT ![h] = x],
           \A u \in Staff : user[u] # None => user'[u] # None,
           \/ x = Rights!Free
           \/ x.op \in {"edit", "fire"} /\ x.at = "write" => user'[x.id] # None
    PROVE  UsersFound'
<1>1. admin'[h] = x /\ \A g \in Admins \ {h} : admin'[g] = admin[g]
  BY DEF ErrandsTyped
<1>2. \A g \in Admins : Rights!Busy(g) /\ admin[g].op \in {"edit", "fire"} => admin[g].id \in Staff
  BY AskedTyped DEF Rights!Asked, Rights!OfUsers
<1> QED BY <1>1, <1>2 DEF UsersFound, Rights!Busy

(* A step that is not one of FindUser, or that ends the request.           *)
LEMMA FoundStaysSame ==
    ASSUME ErrandsTyped, UsersFound, NEW h \in Admins,
           \A u \in Staff : user[u] # None => user'[u] # None,
           \/ Rights!Done(h)
           \/ \E at \in {"find", "same", "write"} :
                Rights!Busy(h) /\ Rights!Go(h, at) /\ (at = "write" => admin[h].op \notin {"edit", "fire"})
           \/ Rights!Busy(h) /\ Rights!NextEntry(h)
    PROVE  UsersFound'
<1>1. CASE Rights!Done(h)
  BY <1>1, FoundStays DEF Rights!Done
<1>2. CASE \E at \in {"find", "same", "write"} :
             Rights!Busy(h) /\ Rights!Go(h, at) /\ (at = "write" => admin[h].op \notin {"edit", "fire"})
  <2>1. PICK at \in {"find", "same", "write"} :
             Rights!Busy(h) /\ Rights!Go(h, at) /\ (at = "write" => admin[h].op \notin {"edit", "fire"})
    BY <1>2
  <2>2. PICK x : x = [admin[h] EXCEPT !.at = at]
    OBVIOUS
  <2>3. x.at = at /\ x.op = admin[h].op
    BY <2>1, <2>2 DEF ErrandsTyped, ErrandTyped
  <2> QED BY <2>1, <2>2, <2>3, FoundStays DEF Rights!Go
<1>3. CASE Rights!Busy(h) /\ Len(admin[h].list) # 1 /\ Rights!NextEntry(h)
  <2>1. PICK x : x = [admin[h] EXCEPT !.at = "find", !.list = Tail(admin[h].list)]
    OBVIOUS
  <2>2. x.at = "find"
    BY <1>3, <2>1 DEF ErrandsTyped, ErrandTyped
  <2>3. admin' = [admin EXCEPT ![h] = x]
    BY <1>3, <2>1 DEF Rights!NextEntry
  <2> QED BY <2>2, <2>3, FoundStays
<1> QED BY <1>1, <1>2, <1>3 DEF Rights!NextEntry

LEMMA FindUserFound ==
    ASSUME AccessInv, UsersFound, NEW h \in Admins, Rights!FindUser(h) PROVE UsersFound'
<1>0. /\ ErrandsTyped /\ Rights!Busy(h) /\ UNCHANGED user
      /\ admin[h].op \in {"hire", "edit", "fire"}
  BY DEF AccessInv, Rights!FindUser, Rights!tables
<1>1. CASE Rights!Done(h)
  BY <1>0, <1>1, FoundStaysSame
<1>2. CASE Rights!Go(h, "write") /\ (admin[h].op = "hire") = (user[admin[h].id] = None)
  <2>1. PICK x : x = [admin[h] EXCEPT !.at = "write"]
    OBVIOUS
  <2>2. x.id = admin[h].id /\ x.op = admin[h].op
    BY <1>0, <2>1 DEF ErrandsTyped, ErrandTyped
  <2> QED BY <1>0, <1>2, <2>1, <2>2, FoundStays DEF Rights!Go
<1> QED BY <1>1, <1>2 DEF Rights!FindUser

LEMMA OthersFound ==
    ASSUME AccessInv, UsersFound, NEW h \in Admins, UNCHANGED user,
           \/ Rights!Guard(h) \/ Rights!FindPair(h) \/ Rights!CreatePermission(h)
           \/ Rights!FindPermission(h) \/ Rights!UpdatePermission(h) \/ Rights!DeletePermission(h)
           \/ Rights!FindEntry(h) \/ Rights!FindAssigned(h) \/ Rights!CreateRolePermission(h)
           \/ Rights!FindAssignment(h) \/ Rights!UpdateRolePermission(h)
           \/ Rights!DeleteRolePermission(h) \/ Rights!ClearRolePermissions(h)
    PROVE  UsersFound'
<1>1. \/ Rights!Done(h)
      \/ \E at \in {"find", "same", "write"} :
           Rights!Busy(h) /\ Rights!Go(h, at) /\ (at = "write" => admin[h].op \notin {"edit", "fire"})
      \/ Rights!Busy(h) /\ Rights!NextEntry(h)
  BY DEF Rights!Doing, Rights!SkipOrGo, Rights!Guard, Rights!FindPair, Rights!CreatePermission,
     Rights!FindPermission, Rights!UpdatePermission, Rights!DeletePermission,
     Rights!FindEntry, Rights!FindAssigned, Rights!CreateRolePermission, Rights!FindAssignment,
     Rights!UpdateRolePermission, Rights!DeleteRolePermission, Rights!ClearRolePermissions
<1> QED BY <1>1, FoundStaysSame DEF AccessInv

LEMMA AccessNext == AccessInv /\ UsersFound /\ [Rights!Next]_Rights!vars => (AccessInv /\ UsersFound)'
<1> SUFFICES ASSUME AccessInv, UsersFound, [Rights!Next]_Rights!vars PROVE (AccessInv /\ UsersFound)'
  OBVIOUS
<1>1. ASSUME NEW u \in Staff, Rights!Login(u) PROVE (AccessInv /\ UsersFound)'
  BY <1>1, LoginOK DEF UsersFound, Rights!Login, Rights!Busy
<1>2. ASSUME NEW h \in Admins, Rights!Begin(h) PROVE (AccessInv /\ UsersFound)'
  <2>1. AccessInv'
    BY <1>2, BeginErrandOK
  <2>2. PICK q : admin' = [admin EXCEPT ![h] =
              [op |-> q.op, by |-> q.by, list |-> q.list, id |-> q.id, role |-> q.role,
               at |-> "guard"]]
    BY <1>2 DEF Rights!Begin
  <2>3. UNCHANGED user
    BY <1>2 DEF Rights!Begin, Rights!tables
  <2>4. UsersFound'
    BY <2>2, <2>3, FoundStays DEF AccessInv
  <2> QED BY <2>1, <2>4
<1>3. ASSUME NEW h \in Admins, Rights!FindUser(h) PROVE (AccessInv /\ UsersFound)'
  BY <1>3, ReadsOK, FindUserFound
<1>4. ASSUME NEW h \in Admins, Rights!WriteUser(h) PROVE (AccessInv /\ UsersFound)'
  BY <1>4, WriteUserOK, FoundStaysSame DEF AccessInv, Rights!WriteUser
<1>5. ASSUME NEW h \in Admins,
           \/ Rights!Guard(h) \/ Rights!FindPair(h) \/ Rights!CreatePermission(h)
           \/ Rights!FindPermission(h) \/ Rights!UpdatePermission(h) \/ Rights!DeletePermission(h)
           \/ Rights!FindEntry(h) \/ Rights!FindAssigned(h) \/ Rights!CreateRolePermission(h)
           \/ Rights!FindAssignment(h) \/ Rights!UpdateRolePermission(h)
           \/ Rights!DeleteRolePermission(h) \/ Rights!ClearRolePermissions(h)
      PROVE  (AccessInv /\ UsersFound)'
  <2>1. UNCHANGED user
    BY <1>5 DEF Rights!tables, Rights!Guard, Rights!FindPair, Rights!CreatePermission,
       Rights!FindPermission, Rights!UpdatePermission, Rights!DeletePermission,
       Rights!FindEntry, Rights!FindAssigned, Rights!CreateRolePermission, Rights!FindAssignment,
       Rights!UpdateRolePermission, Rights!DeleteRolePermission, Rights!ClearRolePermissions
  <2>2. UsersFound'
    BY <1>5, <2>1, OthersFound
  <2> QED
    BY <1>5, <2>2, ReadsOK, CreatePermissionOK, UpdatePermissionOK, TakeStepsOK,
       CreateRolePermissionOK, UpdateRolePermissionOK
<1>6. CASE UNCHANGED Rights!vars
  <2>1. UNCHANGED <<perm, past, grants, given, user, token, admin, errands, reports, removed>>
    BY <1>6 DEF Rights!vars
  <2>2. ErrandsTyped'
    BY <2>1 DEF AccessInv, ErrandsTyped, ErrandTyped, Rights!Busy
  <2> QED BY <2>1, <2>2, TablesStay DEF UsersFound, Rights!Busy
<1> QED BY <1>1, <1>2, <1>3, <1>4, <1>5, <1>6 DEF Rights!Next

(* Permissions, assignments, accounts and requests keep to their types:    *)
(* no two permissions are the same pair, no assignment names a permission  *)
(* that is not there, and no role has one twice, however requests overlap. *)
THEOREM AccessTypeCorrect == Rights!Spec => []Rights!AccessTypeOK
<1>1. Rights!Init => UsersFound
  BY DEF Rights!Init, UsersFound, Rights!Busy
<1>2. AccessInv => Rights!AccessTypeOK
  BY DEF AccessInv
<1> QED BY <1>1, <1>2, AccessInit, AccessNext, PTL DEF Rights!Spec

(* What an assignment was reported as the role has, unless it was taken    *)
(* back, however requests overlap.                                         *)
THEOREM ReportsStayTrue == Rights!Spec => []ReportsHold
<1>1. Rights!Init => UsersFound
  BY DEF Rights!Init, UsersFound, Rights!Busy
<1>2. AccessInv => ReportsHold
  BY DEF AccessInv
<1> QED BY <1>1, <1>2, AccessInit, AccessNext, PTL DEF Rights!Spec

-----------------------------------------------------------------------------
(***************************************************************************)
(* Drafts.                                                                 *)
(***************************************************************************)
Past == {"list", "copy", "clear"}
Is(k, kind) == job[k].kind = kind
(* No send of the draft is past its look at the status.                    *)
NoSend(d) == \A k \in Calls : Is(k, "send") /\ d \in job[k].draft => job[k].step \notin Past

JobOK(k) ==
    \/ job[k] = Draft!NoJob
    \/ /\ DOMAIN job[k] = {"kind", "step", "draft", "set", "keep"}
       /\ job[k].set \subseteq Draft!Rows /\ job[k].keep \subseteq Files
       /\ \/ Is(k, "save") /\ job[k].draft \subseteq DraftIds /\ job[k].set = {}
             /\ \A d \in job[k].draft : status[d] # "absent"
          \/ Is(k, "clean") /\ job[k].draft = {}
          \/ /\ job[k].kind \in {"update", "discard", "add", "remove", "send"}
             /\ \E d \in DraftIds : job[k].draft = {d} /\ status[d] # "absent"
             /\ \A r \in job[k].set : r[1] \in job[k].draft

(* What an upload is about is young; its file is stored before its row.    *)
UploadYoung(k) ==
    Is(k, "add") =>
        \A r \in job[k].set : r[2] \notin old /\ (job[k].step = "row" => r[2] \in stored)
(* A send past its list has copied, or will, what is old of the draft.     *)
SendLists(k) ==
    Is(k, "send") =>
        /\ job[k].step = "copy" => \A r \in job[k].set : r[2] \in stored \/ r[1] \in lapsed
        /\ \A r \in attached : r[1] \in job[k].draft /\ r[2] \in old =>
             /\ job[k].step = "copy" => r \in job[k].set
             /\ job[k].step = "clear" => r \in sent
(* What a cleanup has chosen was discarded, or sent, or will never be.     *)
CleanSafe(k) ==
    Is(k, "clean") => \A r \in job[k].set :
        /\ r[2] \in old
        /\ \/ r[1] \in lapsed
           \/ /\ status[r[1]] = "cleared"
              /\ job[k].step = "references" => r \in sent \/ NoSend(r[1])
              /\ job[k].step = "delete" => r[2] \in job[k].keep \/ (r \notin sent /\ NoSend(r[1]))
JobSafe(k) == JobOK(k) /\ UploadYoung(k) /\ SendLists(k) /\ CleanSafe(k)

(* The old rows of a cleared draft were sent, or never will be.            *)
ClearedSettled ==
    \A r \in attached : r[2] \in old /\ status[r[1]] = "cleared" =>
        r[1] \in lapsed \/ r \in sent \/ NoSend(r[1])
FilesThere ==
    /\ \A r \in sent : r[2] \in stored \/ r[1] \in lapsed
    /\ \A r \in attached :
        \/ r[2] \in stored \/ r[1] \in lapsed
        \/ status[r[1]] = "cleared" /\ r \notin sent /\ NoSend(r[1])

(* Every file is of one row.                                               *)
AllRows == attached \cup sent \cup UNION {job[k].set : k \in Calls}
OneRowEach == \A r, s \in AllRows : r[2] = s[2] => r = s

TablesTyped ==
    /\ status \in [DraftIds -> {"absent", "active", "cleared"}]
    /\ fresh \subseteq DraftIds /\ lapsed \subseteq DraftIds
    /\ attached \subseteq Draft!Rows /\ sent \subseteq Draft!Rows
    /\ old \subseteq Files /\ stored \subseteq Files
    /\ todo \in [Draft!Kinds -> Nat]
    /\ \A d \in DraftIds : status[d] # "absent" /\ d \notin fresh => d \in lapsed
    /\ \A r \in attached \cup sent : status[r[1]] # "absent"

DraftsInv ==
    /\ TablesTyped /\ OneRowEach
    /\ DOMAIN job = Calls /\ \A k \in Calls : JobSafe(k)
    /\ ClearedSettled /\ FilesThere

LEMMA DraftsInit == Draft!Init => DraftsInv
<1> SUFFICES ASSUME Draft!Init PROVE DraftsInv
  OBVIOUS
<1>1. PICK d \in DraftIds :
        /\ status = [e \in DraftIds |-> IF e = d THEN "active" ELSE "absent"]
        /\ fresh = {d}
  BY DEF Draft!Init
<1>2. /\ todo \in Plans
      /\ attached = {} /\ old = {} /\ stored = {} /\ sent = {} /\ lapsed = {}
      /\ job = [k \in Calls |-> Draft!NoJob]
  BY DEF Draft!Init
<1>3. Plans \subseteq [Draft!Kinds -> Nat]
  BY RecordsAssumption DEF Draft!PlansOK
<1>4. TablesTyped
  BY <1>1, <1>2, <1>3 DEF TablesTyped
<1>5. \A k \in Calls : JobSafe(k) /\ job[k].set = {}
  BY <1>2 DEF JobSafe, JobOK, UploadYoung, SendLists, CleanSafe, Is, Draft!NoJob
<1>6. OneRowEach
  BY <1>2, <1>5 DEF OneRowEach, AllRows
<1> QED BY <1>2, <1>4, <1>5, <1>6 DEF DraftsInv, ClearedSettled, FilesThere

-----------------------------------------------------------------------------
LEMMA RowParts == \A r \in Draft!Rows : r[1] \in DraftIds /\ r[2] \in Files /\ r = <<r[1], r[2]>>
BY DEF Draft!Rows

(* What a step of one job has to leave alone for the others.               *)
StepFair ==
    /\ \A d \in DraftIds : /\ status[d] # "absent" => status'[d] # "absent"
                           /\ status[d] = "cleared" => status'[d] = "cleared"
                           /\ status[d] = "cleared" /\ NoSend(d) => NoSend(d)'
    /\ lapsed \subseteq lapsed' /\ sent \subseteq sent' /\ old' = old
    /\ \A r \in sent' \ sent : ~NoSend(r[1])
    /\ \A r \in attached' \ attached : r[2] \notin old

StoredFair(k) ==
    /\ \A f \in stored \ stored' : f \in old
    /\ \A g \in Calls \ {k} : Is(g, "send") /\ job[g].step = "copy" =>
        \A r \in job[g].set : r[2] \in stored \ stored' => r[1] \in lapsed

LEMMA OthersSafe ==
    ASSUME DraftsInv, NEW k \in Calls, NEW x, job' = [job EXCEPT ![k] = x], StepFair, StoredFair(k)
    PROVE  DOMAIN job' = Calls /\ job'[k] = x /\ \A g \in Calls \ {k} : JobSafe(g)'
<1>1. /\ DOMAIN job' = Calls /\ job'[k] = x
      /\ \A g \in Calls \ {k} : job'[g] = job[g] /\ (\A c : Is(g, c)' <=> Is(g, c))
  BY DEF DraftsInv, Is
<1> SUFFICES ASSUME NEW g \in Calls \ {k} PROVE JobSafe(g)'
  BY <1>1
<1>2. JobSafe(g)
  BY DEF DraftsInv
<1>3. JobOK(g)'
  BY <1>1, <1>2 DEF JobSafe, JobOK, StepFair
<1>4. UploadYoung(g)'
  BY <1>1, <1>2 DEF JobSafe, UploadYoung, StepFair, StoredFair
<1>5. SendLists(g)'
  BY <1>1, <1>2 DEF JobSafe, SendLists, StepFair, StoredFair
<1>6. CleanSafe(g)'
  <2>1. \A r \in job[g].set : r[1] \in DraftIds
    BY <1>2, RowParts DEF JobSafe, JobOK, Draft!NoJob
  <2> QED BY <1>1, <1>2, <2>1 DEF JobSafe, CleanSafe, StepFair
<1> QED BY <1>3, <1>4, <1>5, <1>6 DEF JobSafe

LEMMA StoredGrows == ASSUME stored \subseteq stored', NEW k \in Calls PROVE StoredFair(k)
BY DEF StoredFair

LEMMA DraftStep ==
    ASSUME DraftsInv, NEW k \in Calls, NEW x, job' = [job EXCEPT ![k] = x], StepFair, StoredFair(k),
           JobSafe(k)', TablesTyped', OneRowEach', ClearedSettled', FilesThere'
    PROVE  DraftsInv'
BY OthersSafe DEF DraftsInv

LEMMA NoSendKept ==
    ASSUME DraftsInv, NEW k \in Calls, NEW x, job' = [job EXCEPT ![k] = x], NEW d, NoSend(d),
           x.kind = "send" /\ d \in x.draft => x.step \notin Past
    PROVE  NoSend(d)'
<1>1. job'[k] = x /\ \A g \in Calls \ {k} : job'[g] = job[g]
  BY DEF DraftsInv
<1> QED BY <1>1 DEF NoSend, Is

LEMMA RowsKept ==
    ASSUME DraftsInv, NEW k \in Calls, NEW x, job' = [job EXCEPT ![k] = x],
           x.set \subseteq AllRows, attached' \subseteq AllRows, sent' \subseteq AllRows
    PROVE  OneRowEach'
<1>1. job'[k] = x /\ \A g \in Calls \ {k} : job'[g] = job[g]
  BY DEF DraftsInv
<1>2. AllRows' \subseteq AllRows
  BY <1>1 DEF AllRows
<1> QED BY <1>2 DEF OneRowEach, DraftsInv

(* A step that changes the job only, or lets a draft live on.              *)
LEMMA JobStep ==
    ASSUME DraftsInv, NEW k \in Calls, NEW x, job' = [job EXCEPT ![k] = x],
           UNCHANGED <<status, attached, old, stored, sent, lapsed>>,
           fresh \subseteq fresh', fresh' \subseteq DraftIds, todo' \in [Draft!Kinds -> Nat],
           \A d \in DraftIds : status[d] = "cleared" /\ NoSend(d) => NoSend(d)',
           JobSafe(k)', OneRowEach'
    PROVE  DraftsInv'
<1>1. StepFair /\ StoredFair(k)
  BY DEF StepFair, StoredFair
<1>2. TablesTyped'
  BY DEF DraftsInv, TablesTyped
<1>3. \A r \in attached : r[1] \in DraftIds
  BY RowParts DEF DraftsInv, TablesTyped
<1>4. ClearedSettled'
  BY <1>3 DEF DraftsInv, ClearedSettled
<1>5. FilesThere'
  BY <1>3 DEF DraftsInv, FilesThere
<1> QED BY <1>1, <1>2, <1>4, <1>5, DraftStep

LEMMA JobEnds ==
    ASSUME DraftsInv, NEW k \in Calls, job' = [job EXCEPT ![k] = Draft!NoJob]
    PROVE  /\ JobSafe(k)'
           /\ \A d \in DraftIds : NoSend(d) => NoSend(d)'
           /\ attached' \subseteq AllRows /\ sent' \subseteq AllRows => OneRowEach'
<1>1. job'[k] = Draft!NoJob
  BY DEF DraftsInv
<1>2. JobSafe(k)'
  BY <1>1 DEF JobSafe, JobOK, UploadYoung, SendLists, CleanSafe, Is, Draft!NoJob
<1>3. Draft!NoJob.kind # "send" /\ Draft!NoJob.set \subseteq AllRows
  BY DEF Draft!NoJob
<1> QED BY <1>2, <1>3, NoSendKept, RowsKept

LEMMA TablesHere ==
    ASSUME DraftsInv
    PROVE  /\ fresh \subseteq DraftIds /\ todo \in [Draft!Kinds -> Nat]
           /\ attached \subseteq AllRows /\ sent \subseteq AllRows
           /\ \A k \in Calls : job[k].set \subseteq AllRows
           /\ \A k \in Calls : JobSafe(k)
BY DEF DraftsInv, TablesTyped, AllRows

LEMMA FailOK == ASSUME DraftsInv, NEW k \in Calls, Draft!Fail(k) PROVE DraftsInv'
<1>1. /\ job' = [job EXCEPT ![k] = Draft!NoJob]
      /\ UNCHANGED <<status, fresh, attached, old, stored, sent, lapsed, todo>>
  BY DEF Draft!Fail, Draft!Done
<1> QED BY <1>1, JobEnds, JobStep, TablesHere

LEMMA SpendTyped ==
    ASSUME todo \in [Draft!Kinds -> Nat], NEW kind, Draft!Spend(kind)
    PROVE  todo' \in [Draft!Kinds -> Nat]
<1>1. todo[kind] > 0 /\ todo' = [todo EXCEPT ![kind] = @ - 1]
  BY DEF Draft!Spend
<1>2. CASE kind \in Draft!Kinds
  <2>1. todo[kind] - 1 \in Nat
    BY <1>1, <1>2
  <2> QED BY <1>1, <2>1
<1>3. CASE kind \notin Draft!Kinds
  BY <1>1, <1>3
<1> QED BY <1>2, <1>3

LEMMA ArriveOK ==
    ASSUME DraftsInv, NEW k \in Calls, NEW kind, NEW step1, NEW draft1, NEW set1,
           Draft!Arrive(k, kind, step1, draft1, set1), set1 \subseteq Draft!Rows,
           \/ kind = "save" /\ draft1 = {} /\ set1 = {}
           \/ /\ kind \in {"update", "discard", "add", "remove", "send"}
              /\ \E d \in DraftIds : draft1 = {d} /\ status[d] # "absent"
              /\ \A r \in set1 : r[1] \in draft1,
           kind = "add" => step1 = "check" /\ \A r \in set1 : r[2] \notin old,
           kind = "send" => step1 = "check",
           \/ set1 \subseteq AllRows
           \/ \E r \in Draft!Rows : set1 = {r} /\ \A s \in AllRows : s[2] # r[2]
    PROVE  DraftsInv'
<1>1. PICK x : x = [Draft!NoJob EXCEPT !.kind = kind, !.step = step1, !.draft = draft1, !.set = set1]
  OBVIOUS
<1>2. /\ DOMAIN x = {"kind", "step", "draft", "set", "keep"} /\ x.kind = kind /\ x.step = step1
      /\ x.draft = draft1 /\ x.set = set1 /\ x.keep = {}
  BY <1>1 DEF Draft!NoJob
<1>3. /\ job' = [job EXCEPT ![k] = x]
      /\ UNCHANGED <<status, fresh, attached, old, stored, sent, lapsed>>
      /\ todo' \in [Draft!Kinds -> Nat]
  BY <1>1, SpendTyped, TablesHere DEF Draft!Arrive
<1>4. job'[k] = x /\ \A g \in Calls \ {k} : job'[g] = job[g]
  BY <1>3 DEF DraftsInv
<1>5. JobSafe(k)'
  <2>1. JobOK(k)'
    BY <1>2, <1>3, <1>4 DEF JobOK, Is
  <2>2. UploadYoung(k)' /\ SendLists(k)' /\ CleanSafe(k)'
    BY <1>2, <1>3, <1>4 DEF UploadYoung, SendLists, CleanSafe, Is
  <2> QED BY <2>1, <2>2 DEF JobSafe
<1>6. \A d \in DraftIds : NoSend(d) => NoSend(d)'
  BY <1>2, <1>3, NoSendKept DEF Past
<1>7. OneRowEach'
  <2>1. CASE set1 \subseteq AllRows
    BY <1>2, <1>3, <2>1, RowsKept, TablesHere
  <2>2. CASE \E r \in Draft!Rows : set1 = {r} /\ \A s \in AllRows : s[2] # r[2]
    <3>1. PICK r \in Draft!Rows : set1 = {r} /\ \A s \in AllRows : s[2] # r[2]
      BY <2>2
    <3>2. AllRows' \subseteq AllRows \cup {r}
      BY <1>2, <1>3, <1>4, <3>1 DEF AllRows
    <3> QED BY <3>1, <3>2 DEF OneRowEach, DraftsInv
  <2> QED BY <2>1, <2>2
<1> QED BY <1>3, <1>5, <1>6, <1>7, JobStep, TablesHere

LEMMA ArrivalsOK ==
    ASSUME DraftsInv, NEW k \in Calls,
           \/ Draft!Save(k)
           \/ \E d \in DraftIds : Draft!Touch(k, d) \/ Draft!Discard(k, d) \/ Draft!Send(k, d)
           \/ \E d \in DraftIds, f \in Files : Draft!Add(k, d, f) \/ Draft!Remove(k, <<d, f>>)
    PROVE  DraftsInv'
<1>1. CASE Draft!Save(k)
  BY <1>1, ArriveOK DEF Draft!Save
<1>2. ASSUME NEW d \in DraftIds, Draft!Touch(k, d) PROVE DraftsInv'
  BY <1>2, ArriveOK DEF Draft!Touch
<1>3. ASSUME NEW d \in DraftIds, Draft!Discard(k, d) PROVE DraftsInv'
  BY <1>3, ArriveOK DEF Draft!Discard
<1>4. ASSUME NEW d \in DraftIds, Draft!Send(k, d) PROVE DraftsInv'
  BY <1>4, ArriveOK DEF Draft!Send
<1>5. ASSUME NEW d \in DraftIds, NEW f \in Files, Draft!Add(k, d, f) PROVE DraftsInv'
  <2>1. /\ status[d] # "absent" /\ Draft!Arrive(k, "add", "check", {d}, {<<d, f>>})
        /\ f \notin old /\ \A r \in AllRows : r[2] # f
    BY <1>5 DEF Draft!Add, Draft!Unused, AllRows
  <2>2. <<d, f>> \in Draft!Rows /\ <<d, f>>[1] = d /\ <<d, f>>[2] = f
    BY DEF Draft!Rows
  <2> QED BY <2>1, <2>2, ArriveOK
<1>6. ASSUME NEW d \in DraftIds, NEW f \in Files, Draft!Remove(k, <<d, f>>) PROVE DraftsInv'
  <2>1. <<d, f>> \in attached /\ Draft!Arrive(k, "remove", "write", {<<d, f>>[1]}, {<<d, f>>})
    BY <1>6 DEF Draft!Remove
  <2>2. <<d, f>> \in Draft!Rows /\ <<d, f>>[1] = d /\ <<d, f>>[2] = f /\ status[d] # "absent"
    BY <2>1 DEF Draft!Rows, DraftsInv, TablesTyped
  <2>3. {<<d, f>>} \subseteq AllRows
    BY <2>1, TablesHere
  <2> QED BY <2>1, <2>2, <2>3, ArriveOK
<1> QED BY <1>1, <1>2, <1>3, <1>4, <1>5, <1>6

-----------------------------------------------------------------------------
LEMMA SoleIs == \A d : Draft!Sole({d}) = d
BY DEF Draft!Sole

(* What a job at work carries, by kind.                                    *)
LEMMA JobAt ==
    ASSUME DraftsInv, NEW k \in Calls, job[k].kind # "none"
    PROVE  /\ DOMAIN job[k] = {"kind", "step", "draft", "set", "keep"}
           /\ job[k].set \subseteq Draft!Rows /\ job[k].set \subseteq AllRows /\ job[k].keep \subseteq Files
           /\ job[k].kind = "save" => job[k].draft \subseteq DraftIds /\ job[k].set = {}
                                      /\ \A d \in job[k].draft : status[d] # "absent"
           /\ job[k].kind = "clean" => job[k].draft = {}
           /\ job[k].kind \in {"update", "discard", "add", "remove", "send"} =>
                /\ \E d \in DraftIds : job[k].draft = {d} /\ status[d] # "absent" /\ Draft!Sole(job[k].draft) = d
                /\ \A r \in job[k].set : r[1] \in job[k].draft
<1>1. JobOK(k) /\ job[k] # Draft!NoJob
  BY TablesHere DEF JobSafe, Draft!NoJob
<1> QED BY <1>1, SoleIs, TablesHere DEF JobOK, Is

(* A job that goes on, with what the other fields say unchanged.           *)
GoesOnAs(k, s, x) ==
    /\ job' = [job EXCEPT ![k] = x] /\ job'[k] = x
    /\ x.kind = job[k].kind /\ x.step = s /\ x.draft = job[k].draft
    /\ x.set = job[k].set /\ x.keep = job[k].keep
    /\ DOMAIN x = {"kind", "step", "draft", "set", "keep"}
LEMMA GoesOn ==
    ASSUME DraftsInv, NEW k \in Calls, job[k].kind # "none", NEW s, Draft!Goto(k, s)
    PROVE  \E x : GoesOnAs(k, s, x)
<1>1. PICK x : x = [job[k] EXCEPT !.step = s]
  OBVIOUS
<1>2. job' = [job EXCEPT ![k] = x] /\ job'[k] = x
  BY <1>1 DEF DraftsInv, Draft!Goto
<1>3. GoesOnAs(k, s, x)
  BY <1>1, <1>2, JobAt DEF GoesOnAs
<1> QED BY <1>3

LEMMA KindsAt ==
    \A k : /\ (\A c, s : Draft!At(k, c, s) <=> job[k].kind = c /\ job[k].step = s)
           /\ (\A c : Is(k, c) <=> job[k].kind = c)
BY DEF Draft!At, Is

LEMMA FindDraftOK == ASSUME DraftsInv, NEW k \in Calls, Draft!FindDraft(k) PROVE DraftsInv'
<1>1. PICK live : live = {d \in fresh : status[d] = "active"}
  OBVIOUS
<1>2. /\ job[k].kind = "save"
      /\ job' = [job EXCEPT ![k].step = "write", ![k].draft = IF live = {} THEN {} ELSE {Draft!Sole(live)}]
      /\ UNCHANGED <<status, fresh, attached, old, stored, sent, lapsed, todo>>
  BY <1>1, KindsAt DEF Draft!FindDraft
<1>3. PICK x : x = [job[k] EXCEPT !.step = "write", !.draft = IF live = {} THEN {} ELSE {Draft!Sole(live)}]
  OBVIOUS
<1>4. job' = [job EXCEPT ![k] = x] /\ job'[k] = x
  BY <1>2, <1>3 DEF DraftsInv
<1>5. live # {} => Draft!Sole(live) \in live
  BY DEF Draft!Sole
<1>6. /\ DOMAIN x = {"kind", "step", "draft", "set", "keep"} /\ x.kind = "save" /\ x.set = {}
      /\ x.keep \subseteq Files /\ x.draft \subseteq {d \in fresh : status[d] = "active"}
  BY <1>1, <1>2, <1>3, <1>5, JobAt
<1>7. JobSafe(k)'
  <2>1. JobOK(k)'
    BY <1>2, <1>4, <1>6, TablesHere DEF JobOK, Is
  <2> QED BY <1>4, <1>6, <2>1 DEF JobSafe, UploadYoung, SendLists, CleanSafe, Is
<1>8. OneRowEach' /\ \A d \in DraftIds : NoSend(d) => NoSend(d)'
  BY <1>2, <1>4, <1>6, RowsKept, NoSendKept, TablesHere
<1> QED BY <1>2, <1>4, <1>7, <1>8, JobStep, TablesHere

LEMMA CheckActiveOK == ASSUME DraftsInv, NEW k \in Calls, Draft!CheckActive(k) PROVE DraftsInv'
<1>1. /\ job[k].kind \in {"update", "add", "send"} /\ job[k].step = "check"
      /\ UNCHANGED <<status, fresh, attached, old, stored, sent, lapsed, todo>>
      /\ \/ /\ status[Draft!Sole(job[k].draft)] = "active"
            /\ Draft!Goto(k, Draft!AfterCheck[job[k].kind])
         \/ job' = [job EXCEPT ![k] = Draft!NoJob]
  BY DEF Draft!CheckActive, Draft!AfterCheck, Draft!Done
<1>2. CASE job' = [job EXCEPT ![k] = Draft!NoJob]
  BY <1>1, <1>2, JobEnds, JobStep, TablesHere
<1>3. CASE /\ status[Draft!Sole(job[k].draft)] = "active"
           /\ Draft!Goto(k, Draft!AfterCheck[job[k].kind])
  <2>1. PICK s : s = Draft!AfterCheck[job[k].kind]
    OBVIOUS
  <2>2. /\ job[k].kind = "update" => s = "write"
        /\ job[k].kind = "add" => s = "upload"
        /\ job[k].kind = "send" => s = "list"
    BY <2>1 DEF Draft!AfterCheck
  <2>3. PICK x : GoesOnAs(k, s, x)
    BY <1>1, <1>3, <2>1, GoesOn
  <2>4. PICK d \in DraftIds : job[k].draft = {d} /\ status[d] = "active"
    BY <1>1, <1>3, JobAt
  <2>5. JobSafe(k)'
    <3>1. JobOK(k)'
      BY <1>1, <2>3, <2>4, JobAt DEF JobOK, Is, GoesOnAs
    <3>2. UploadYoung(k)'
      BY <1>1, <2>2, <2>3, TablesHere DEF JobSafe, UploadYoung, Is, GoesOnAs
    <3> QED BY <1>1, <2>2, <2>3, <3>1, <3>2 DEF JobSafe, SendLists, CleanSafe, Is, GoesOnAs
  <2>6. OneRowEach'
    BY <1>1, <2>3, RowsKept, TablesHere DEF GoesOnAs
  <2>7. \A e \in DraftIds : status[e] = "cleared" /\ NoSend(e) => NoSend(e)'
    BY <2>3, <2>4, NoSendKept DEF GoesOnAs
  <2> QED BY <1>1, <2>3, <2>5, <2>6, <2>7, JobStep, TablesHere DEF GoesOnAs
<1> QED BY <1>1, <1>2, <1>3

LEMMA WriteUpdateOK == ASSUME DraftsInv, NEW k \in Calls, Draft!WriteUpdate(k) PROVE DraftsInv'
<1>1. /\ job[k].kind = "update" /\ fresh' = fresh \cup job[k].draft
      /\ job' = [job EXCEPT ![k] = Draft!NoJob]
      /\ UNCHANGED <<status, attached, old, stored, sent, lapsed, todo>>
  BY DEF Draft!WriteUpdate, Draft!At, Draft!Done
<1>2. job[k].draft \subseteq DraftIds
  BY <1>1, JobAt
<1> QED BY <1>1, <1>2, JobEnds, JobStep, TablesHere

(* A draft is created, or lives on.                                        *)
LEMMA WriteDraftOK == ASSUME DraftsInv, NEW k \in Calls, Draft!WriteDraft(k) PROVE DraftsInv'
<1>1. /\ job[k].kind = "save" /\ job' = [job EXCEPT ![k] = Draft!NoJob]
      /\ UNCHANGED <<attached, old, stored, sent, lapsed, todo>>
      /\ \/ fresh' = fresh \cup job[k].draft /\ UNCHANGED status
         \/ \E d \in DraftIds : /\ status[d] = "absent"
                                /\ status' = [status EXCEPT ![d] = "active"]
                                /\ fresh' = fresh \cup {d}
  BY DEF Draft!WriteDraft, Draft!At, Draft!Done
<1>2. CASE fresh' = fresh \cup job[k].draft /\ UNCHANGED status
  <2>1. job[k].draft \subseteq DraftIds
    BY <1>1, JobAt
  <2> QED BY <1>1, <1>2, <2>1, JobEnds, JobStep, TablesHere
<1>3. ASSUME NEW d \in DraftIds, status[d] = "absent", fresh' = fresh \cup {d},
             status' = [status EXCEPT ![d] = "active"]
      PROVE  DraftsInv'
  <2>1. \A e \in DraftIds : e # d => status'[e] = status[e]
    BY <1>3 DEF DraftsInv, TablesTyped
  <2>2. \A r \in attached \cup sent : r[1] \in DraftIds /\ r[1] # d /\ status'[r[1]] = status[r[1]]
    BY <1>3, RowParts DEF DraftsInv, TablesTyped
  <2>3. status'[d] = "active" /\ status' \in [DraftIds -> {"absent", "active", "cleared"}]
    BY <1>3 DEF DraftsInv, TablesTyped
  <2>4. JobSafe(k)' /\ OneRowEach' /\ \A e \in DraftIds : NoSend(e) => NoSend(e)'
    BY <1>1, JobEnds, TablesHere
  <2>5. StepFair /\ StoredFair(k)
    BY <1>1, <1>3, <2>1, <2>3, <2>4 DEF StepFair, StoredFair
  <2>6. TablesTyped'
    BY <1>1, <1>3, <2>1, <2>2, <2>3 DEF DraftsInv, TablesTyped
  <2>7. ClearedSettled' /\ FilesThere'
    BY <1>1, <2>2, <2>4 DEF DraftsInv, ClearedSettled, FilesThere
  <2> QED BY <1>1, <2>4, <2>5, <2>6, <2>7, DraftStep
<1> QED BY <1>1, <1>2, <1>3

(* Only an active draft that is discarded lapses: a cleared one stays.     *)
LEMMA WriteDiscardOK == ASSUME DraftsInv, NEW k \in Calls, Draft!WriteDiscard(k) PROVE DraftsInv'
<1>1. /\ job[k].kind = "discard" /\ job' = [job EXCEPT ![k] = Draft!NoJob]
      /\ status' = [status EXCEPT ![Draft!Sole(job[k].draft)] = "cleared"]
      /\ lapsed' = lapsed \cup {d \in job[k].draft : status[d] = "active"}
      /\ UNCHANGED <<fresh, attached, old, stored, sent, todo>>
  BY DEF Draft!WriteDiscard, Draft!At, Draft!Done
<1>2. PICK d \in DraftIds :
        job[k].draft = {d} /\ status[d] # "absent" /\ Draft!Sole(job[k].draft) = d
  BY <1>1, JobAt
<1>3. /\ status'[d] = "cleared" /\ \A e \in DraftIds : e # d => status'[e] = status[e]
      /\ status' \in [DraftIds -> {"absent", "active", "cleared"}]
  BY <1>1, <1>2 DEF DraftsInv, TablesTyped
<1>4. status[d] \in {"active", "cleared"}
  BY <1>2 DEF DraftsInv, TablesTyped
<1>5. lapsed \subseteq lapsed' /\ lapsed' \subseteq DraftIds /\ (status[d] = "active" => d \in lapsed')
  BY <1>1, <1>2 DEF DraftsInv, TablesTyped
<1>6. JobSafe(k)' /\ OneRowEach' /\ \A e \in DraftIds : NoSend(e) => NoSend(e)'
  BY <1>1, JobEnds, TablesHere
<1>7. StepFair /\ StoredFair(k)
  BY <1>1, <1>3, <1>4, <1>5, <1>6 DEF StepFair, StoredFair
<1>8. \A r \in attached \cup sent : r[1] \in DraftIds
  BY RowParts DEF DraftsInv, TablesTyped
<1>9. TablesTyped'
  <2>1. \A e \in DraftIds : status'[e] # "absent" /\ e \notin fresh' => e \in lapsed'
    BY <1>1, <1>2, <1>3, <1>5 DEF DraftsInv, TablesTyped
  <2>2. \A r \in attached \cup sent : status'[r[1]] # "absent"
    BY <1>3, <1>8 DEF DraftsInv, TablesTyped
  <2> QED BY <1>1, <1>3, <1>5, <2>1, <2>2 DEF DraftsInv, TablesTyped
<1>10. ClearedSettled'
  BY <1>1, <1>3, <1>4, <1>5, <1>6, <1>8 DEF DraftsInv, ClearedSettled
<1>11. FilesThere'
  BY <1>1, <1>3, <1>4, <1>5, <1>6, <1>8 DEF DraftsInv, FilesThere
<1> QED BY <1>1, <1>6, <1>7, <1>9, <1>10, <1>11, DraftStep

LEMMA UploadOK == ASSUME DraftsInv, NEW k \in Calls, Draft!Upload(k) PROVE DraftsInv'
<1>1. /\ job[k].kind = "add" /\ job[k].step = "upload"
      /\ stored' = stored \cup {r[2] : r \in job[k].set}
      /\ Draft!Goto(k, "row")
      /\ UNCHANGED <<status, fresh, attached, old, sent, lapsed, todo>>
  BY DEF Draft!Upload, Draft!At
<1>2. PICK x : GoesOnAs(k, "row", x)
  BY <1>1, GoesOn
<1>3. \A r \in job[k].set : r[2] \in Files /\ r[2] \in stored'
  BY <1>1, RowParts, JobAt
<1>4. stored \subseteq stored' /\ stored' \subseteq Files
  BY <1>1, <1>3 DEF DraftsInv, TablesTyped
<1>5. JobSafe(k)'
  <2>1. JobOK(k)'
    BY <1>1, <1>2, JobAt DEF JobOK, Is, GoesOnAs
  <2>2. UploadYoung(k)'
    BY <1>1, <1>2, <1>3, TablesHere DEF JobSafe, UploadYoung, Is, GoesOnAs
  <2> QED BY <1>1, <1>2, <2>1, <2>2 DEF JobSafe, SendLists, CleanSafe, Is, GoesOnAs
<1>6. OneRowEach' /\ \A e \in DraftIds : NoSend(e) => NoSend(e)'
  BY <1>1, <1>2, RowsKept, NoSendKept, TablesHere DEF GoesOnAs
<1>7. StepFair /\ StoredFair(k)
  BY <1>1, <1>4, <1>6, StoredGrows DEF StepFair
<1>8. TablesTyped'
  BY <1>1, <1>4 DEF DraftsInv, TablesTyped
<1>9. \A r \in attached \cup sent : r[1] \in DraftIds
  BY RowParts DEF DraftsInv, TablesTyped
<1>10. ClearedSettled' /\ FilesThere'
  BY <1>1, <1>4, <1>6, <1>9 DEF DraftsInv, ClearedSettled, FilesThere
<1> QED BY <1>2, <1>5, <1>6, <1>7, <1>8, <1>10, DraftStep DEF GoesOnAs

(* The row is new and its file young and stored.                           *)
LEMMA AttachRowOK == ASSUME DraftsInv, NEW k \in Calls, Draft!AttachRow(k) PROVE DraftsInv'
<1>1. PICK x : x = [Draft!NoJob EXCEPT !.kind = "clean", !.step = "candidates"]
  OBVIOUS
<1>2. /\ job[k].kind = "add" /\ job[k].step = "row"
      /\ attached' = attached \cup job[k].set /\ job' = [job EXCEPT ![k] = x]
      /\ UNCHANGED <<status, fresh, old, stored, sent, lapsed, todo>>
  BY <1>1 DEF Draft!AttachRow, Draft!At
<1>3. /\ DOMAIN x = {"kind", "step", "draft", "set", "keep"} /\ x.kind = "clean"
      /\ x.step = "candidates" /\ x.draft = {} /\ x.set = {} /\ x.keep = {} /\ job'[k] = x
  BY <1>1, <1>2 DEF Draft!NoJob, DraftsInv
<1>4. \A r \in job[k].set : r[2] \notin old /\ r[2] \in stored
  BY <1>2, TablesHere DEF JobSafe, UploadYoung, Is
<1>5. \A r \in job[k].set : r \in Draft!Rows /\ r[1] \in DraftIds /\ status[r[1]] # "absent"
  BY <1>2, JobAt
<1>6. JobSafe(k)'
  BY <1>3 DEF JobSafe, JobOK, UploadYoung, SendLists, CleanSafe, Is
<1>7. OneRowEach' /\ \A e \in DraftIds : NoSend(e) => NoSend(e)'
  <2>1. attached' \subseteq AllRows /\ sent' \subseteq AllRows /\ x.set \subseteq AllRows
    BY <1>2, <1>3, TablesHere
  <2> QED BY <1>2, <1>3, <2>1, RowsKept, NoSendKept
<1>8. StepFair /\ StoredFair(k)
  BY <1>2, <1>4, <1>7 DEF StepFair, StoredFair
<1>9. TablesTyped'
  BY <1>2, <1>5 DEF DraftsInv, TablesTyped
<1>10. \A r \in attached \cup sent : r[1] \in DraftIds
  BY RowParts DEF DraftsInv, TablesTyped
<1>11. ClearedSettled' /\ FilesThere'
  BY <1>2, <1>4, <1>5, <1>7, <1>10 DEF DraftsInv, ClearedSettled, FilesThere
<1> QED BY <1>2, <1>6, <1>7, <1>8, <1>9, <1>11, DraftStep

(* A step that takes rows away and ends.                                   *)
LEMMA RowsGo ==
    ASSUME DraftsInv, NEW k \in Calls, NEW S, attached' = attached \ S,
           job' = [job EXCEPT ![k] = Draft!NoJob],
           UNCHANGED <<status, fresh, old, stored, sent, lapsed, todo>>
    PROVE  DraftsInv'
<1>1. JobSafe(k)' /\ OneRowEach' /\ \A e \in DraftIds : NoSend(e) => NoSend(e)'
  BY JobEnds, TablesHere
<1>2. StepFair /\ StoredFair(k)
  BY <1>1 DEF StepFair, StoredFair
<1>3. TablesTyped'
  BY DEF DraftsInv, TablesTyped
<1>4. \A r \in attached \cup sent : r[1] \in DraftIds
  BY RowParts DEF DraftsInv, TablesTyped
<1>5. ClearedSettled' /\ FilesThere'
  BY <1>1, <1>4 DEF DraftsInv, ClearedSettled, FilesThere
<1> QED BY <1>1, <1>2, <1>3, <1>5, DraftStep

LEMMA RowStepsOK ==
    ASSUME DraftsInv, NEW k \in Calls, Draft!DetachRow(k) \/ Draft!DeleteRows(k) PROVE DraftsInv'
BY RowsGo DEF Draft!DetachRow, Draft!DeleteRows, Draft!Done

LEMMA ListAttachmentsOK == ASSUME DraftsInv, NEW k \in Calls, Draft!ListAttachments(k) PROVE DraftsInv'
<1>1. /\ job[k].kind = "send" /\ job[k].step = "list"
      /\ job' = [job EXCEPT ![k].step = "copy", ![k].set = {r \in attached : r[1] \in job[k].draft}]
      /\ UNCHANGED <<status, fresh, attached, old, stored, sent, lapsed, todo>>
  BY DEF Draft!ListAttachments, Draft!At
<1>2. PICK x : x = [job[k] EXCEPT !.step = "copy", !.set = {r \in attached : r[1] \in job[k].draft}]
  OBVIOUS
<1>3. job' = [job EXCEPT ![k] = x] /\ job'[k] = x
  BY <1>1, <1>2 DEF DraftsInv
<1>4. /\ DOMAIN x = {"kind", "step", "draft", "set", "keep"} /\ x.kind = "send" /\ x.step = "copy"
      /\ x.set = {r \in attached : r[1] \in job[k].draft} /\ x.draft = job[k].draft
      /\ x.keep \subseteq Files
  BY <1>1, <1>2, JobAt
<1>5. PICK d \in DraftIds : job[k].draft = {d} /\ status[d] # "absent"
  BY <1>1, JobAt
<1>6. ~NoSend(d)
  BY <1>1, <1>5 DEF NoSend, Is, Past
<1>7. JobSafe(k)'
  <2>1. x.set \subseteq Draft!Rows
    BY <1>4 DEF DraftsInv, TablesTyped
  <2>2. JobOK(k)'
    BY <1>1, <1>3, <1>4, <1>5, <2>1 DEF JobOK, Is
  <2>3. \A r \in x.set : r[2] \in stored \/ r[1] \in lapsed
    BY <1>4, <1>5, <1>6 DEF DraftsInv, FilesThere
  <2>4. SendLists(k)'
    BY <1>1, <1>3, <1>4, <2>3 DEF SendLists, Is
  <2> QED BY <1>3, <1>4, <2>2, <2>4 DEF JobSafe, UploadYoung, CleanSafe, Is
<1>8. OneRowEach'
  <2>1. x.set \subseteq AllRows
    BY <1>4, TablesHere
  <2> QED BY <1>1, <1>3, <2>1, RowsKept, TablesHere
<1>9. \A e \in DraftIds : NoSend(e) => NoSend(e)'
  BY <1>3, <1>4, <1>5, <1>6, NoSendKept
<1> QED BY <1>1, <1>3, <1>7, <1>8, <1>9, JobStep, TablesHere

(* What was listed is sent: its files are there, or its draft lapsed.      *)
LEMMA CopyAttachmentsOK == ASSUME DraftsInv, NEW k \in Calls, Draft!CopyAttachments(k) PROVE DraftsInv'
<1>1. /\ job[k].kind = "send" /\ job[k].step = "copy" /\ sent' = sent \cup job[k].set
      /\ Draft!Goto(k, "clear")
      /\ UNCHANGED <<status, fresh, attached, old, stored, lapsed, todo>>
  BY DEF Draft!CopyAttachments, Draft!At
<1>2. PICK x : GoesOnAs(k, "clear", x)
  BY <1>1, GoesOn
<1>3. PICK d \in DraftIds : job[k].draft = {d} /\ status[d] # "absent"
  BY <1>1, JobAt
<1>4. ~NoSend(d)
  BY <1>1, <1>3 DEF NoSend, Is, Past
<1>5. \A r \in job[k].set : /\ r \in Draft!Rows /\ r[1] = d
                            /\ r[2] \in stored \/ r[1] \in lapsed
  <2>1. \A r \in job[k].set : r \in Draft!Rows /\ r[1] = d
    BY <1>1, <1>3, JobAt
  <2>2. SendLists(k)
    BY TablesHere DEF JobSafe
  <2> QED BY <1>1, <2>1, <2>2 DEF SendLists, Is
<1>6. JobSafe(k)'
  <2>1. JobOK(k)'
    BY <1>1, <1>2, JobAt DEF JobOK, Is, GoesOnAs
  <2>2. SendLists(k)'
    BY <1>1, <1>2, TablesHere DEF JobSafe, SendLists, Is, GoesOnAs
  <2> QED BY <1>1, <1>2, <2>1, <2>2 DEF JobSafe, UploadYoung, CleanSafe, Is, GoesOnAs
<1>7. OneRowEach'
  <2>1. attached' \subseteq AllRows /\ sent' \subseteq AllRows /\ x.set \subseteq AllRows
    BY <1>1, <1>2, TablesHere DEF GoesOnAs
  <2> QED BY <1>2, <2>1, RowsKept DEF GoesOnAs
<1>8. \A e \in DraftIds : NoSend(e) => NoSend(e)'
  BY <1>2, <1>3, <1>4, NoSendKept DEF GoesOnAs
<1>9. StepFair /\ StoredFair(k)
  BY <1>1, <1>4, <1>5, <1>8, StoredGrows DEF StepFair
<1>10. TablesTyped'
  BY <1>1, <1>3, <1>5 DEF DraftsInv, TablesTyped
<1>11. \A r \in attached \cup sent : r[1] \in DraftIds
  BY RowParts DEF DraftsInv, TablesTyped
<1>12. ClearedSettled' /\ FilesThere'
  BY <1>1, <1>4, <1>5, <1>8, <1>11 DEF DraftsInv, ClearedSettled, FilesThere
<1> QED BY <1>2, <1>6, <1>7, <1>9, <1>10, <1>12, DraftStep DEF GoesOnAs

(* The old rows of the draft have been copied by now.                      *)
LEMMA ClearDraftOK == ASSUME DraftsInv, NEW k \in Calls, Draft!ClearDraft(k) PROVE DraftsInv'
<1>1. /\ job[k].kind = "send" /\ job[k].step = "clear" /\ job' = [job EXCEPT ![k] = Draft!NoJob]
      /\ status' = [status EXCEPT ![Draft!Sole(job[k].draft)] = "cleared"]
      /\ UNCHANGED <<fresh, attached, old, stored, sent, lapsed, todo>>
  BY DEF Draft!ClearDraft, Draft!At, Draft!Done
<1>2. PICK d \in DraftIds :
        job[k].draft = {d} /\ status[d] # "absent" /\ Draft!Sole(job[k].draft) = d
  BY <1>1, JobAt
<1>3. /\ status'[d] = "cleared" /\ \A e \in DraftIds : e # d => status'[e] = status[e]
      /\ status' \in [DraftIds -> {"absent", "active", "cleared"}]
  BY <1>1, <1>2 DEF DraftsInv, TablesTyped
<1>4. ~NoSend(d)
  BY <1>1, <1>2 DEF NoSend, Is, Past
<1>5. \A r \in attached : r[1] = d /\ r[2] \in old => r \in sent
  BY <1>1, <1>2, TablesHere DEF JobSafe, SendLists, Is
<1>6. JobSafe(k)' /\ OneRowEach' /\ \A e \in DraftIds : NoSend(e) => NoSend(e)'
  BY <1>1, JobEnds, TablesHere
<1>7. StepFair /\ StoredFair(k)
  BY <1>1, <1>3, <1>6 DEF StepFair, StoredFair
<1>8. \A r \in attached \cup sent : r[1] \in DraftIds
  BY RowParts DEF DraftsInv, TablesTyped
<1>9. TablesTyped'
  <2>1. \A e \in DraftIds : status'[e] # "absent" /\ e \notin fresh' => e \in lapsed'
    BY <1>1, <1>2, <1>3 DEF DraftsInv, TablesTyped
  <2>2. \A r \in attached \cup sent : status'[r[1]] # "absent"
    BY <1>3, <1>8 DEF DraftsInv, TablesTyped
  <2> QED BY <1>1, <1>3, <2>1, <2>2 DEF DraftsInv, TablesTyped
<1>10. ClearedSettled'
  BY <1>1, <1>3, <1>5, <1>6, <1>8 DEF DraftsInv, ClearedSettled
<1>11. FilesThere'
  BY <1>1, <1>3, <1>4, <1>6, <1>8 DEF DraftsInv, FilesThere
<1> QED BY <1>1, <1>6, <1>7, <1>9, <1>10, <1>11, DraftStep

-----------------------------------------------------------------------------
LEMMA FindCandidatesOK == ASSUME DraftsInv, NEW k \in Calls, Draft!FindCandidates(k) PROVE DraftsInv'
<1>1. PICK found : found = {r \in attached : Draft!Abandoned(r)}
  OBVIOUS
<1>2. /\ job[k].kind = "clean"
      /\ UNCHANGED <<status, fresh, attached, old, stored, sent, lapsed, todo>>
      /\ \/ job' = [job EXCEPT ![k] = Draft!NoJob]
         \/ job' = [job EXCEPT ![k].step = "references", ![k].set = found]
  BY <1>1 DEF Draft!FindCandidates, Draft!At, Draft!Done
<1>3. CASE job' = [job EXCEPT ![k] = Draft!NoJob]
  BY <1>2, <1>3, JobEnds, JobStep, TablesHere
<1>4. CASE job' = [job EXCEPT ![k].step = "references", ![k].set = found]
  <2>1. PICK x : x = [job[k] EXCEPT !.step = "references", !.set = found]
    OBVIOUS
  <2>2. job' = [job EXCEPT ![k] = x] /\ job'[k] = x
    BY <1>4, <2>1 DEF DraftsInv
  <2>3. /\ DOMAIN x = {"kind", "step", "draft", "set", "keep"} /\ x.kind = "clean"
        /\ x.step = "references" /\ x.set = found /\ x.draft = {} /\ x.keep \subseteq Files
    BY <1>2, <2>1, JobAt
  <2>4. OneRowEach' /\ \A e \in DraftIds : NoSend(e) => NoSend(e)'
    <3>1. found \subseteq AllRows
      BY <1>1, TablesHere
    <3> QED BY <1>2, <2>2, <2>3, <3>1, RowsKept, NoSendKept, TablesHere
  <2>5. \A r \in found : /\ r \in Draft!Rows /\ r[1] \in DraftIds /\ r[2] \in old
                         /\ r[1] \in lapsed \/ (status[r[1]] = "cleared" /\ (r \in sent \/ NoSend(r[1])))
    <3> SUFFICES ASSUME NEW r \in found
                 PROVE  /\ r \in Draft!Rows /\ r[1] \in DraftIds /\ r[2] \in old
                        /\ r[1] \in lapsed \/ (status[r[1]] = "cleared" /\ (r \in sent \/ NoSend(r[1])))
      OBVIOUS
    <3>1. /\ r \in attached /\ r[2] \in old /\ (status[r[1]] = "cleared" \/ r[1] \notin fresh)
          /\ r \in Draft!Rows /\ r[1] \in DraftIds
      BY <1>1, RowParts DEF Draft!Abandoned, DraftsInv, TablesTyped
    <3>2. CASE status[r[1]] = "cleared"
      BY <3>1, <3>2 DEF DraftsInv, ClearedSettled
    <3>3. CASE r[1] \notin fresh
      BY <3>1, <3>3 DEF DraftsInv, TablesTyped
    <3> QED BY <3>1, <3>2, <3>3
  <2>6. JobSafe(k)'
    <3>1. JobOK(k)'
      BY <2>2, <2>3, <2>5 DEF JobOK, Is
    <3>2. CleanSafe(k)'
      BY <1>2, <2>2, <2>3, <2>4, <2>5 DEF CleanSafe
    <3> QED BY <2>2, <2>3, <3>1, <3>2 DEF JobSafe, UploadYoung, SendLists, Is
  <2> QED BY <1>2, <2>2, <2>4, <2>6, JobStep, TablesHere
<1> QED BY <1>2, <1>3, <1>4

LEMMA FindReferencesOK == ASSUME DraftsInv, NEW k \in Calls, Draft!FindReferences(k) PROVE DraftsInv'
<1>1. PICK refs : refs = {r[2] : r \in sent}
  OBVIOUS
<1>2. /\ job[k].kind = "clean" /\ job[k].step = "references"
      /\ job' = [job EXCEPT ![k].step = "delete", ![k].keep = refs]
      /\ UNCHANGED <<status, fresh, attached, old, stored, sent, lapsed, todo>>
  BY <1>1 DEF Draft!FindReferences, Draft!At
<1>3. PICK x : x = [job[k] EXCEPT !.step = "delete", !.keep = refs]
  OBVIOUS
<1>4. job' = [job EXCEPT ![k] = x] /\ job'[k] = x
  BY <1>2, <1>3 DEF DraftsInv
<1>5. refs \subseteq Files
  BY <1>1, RowParts DEF DraftsInv, TablesTyped
<1>6. /\ DOMAIN x = {"kind", "step", "draft", "set", "keep"} /\ x.kind = "clean"
      /\ x.step = "delete" /\ x.set = job[k].set /\ x.draft = {} /\ x.keep = refs
  BY <1>2, <1>3, JobAt
<1>7. OneRowEach' /\ \A e \in DraftIds : NoSend(e) => NoSend(e)'
  BY <1>2, <1>4, <1>6, RowsKept, NoSendKept, TablesHere
<1>8. JobSafe(k)'
  <2>1. JobOK(k)'
    BY <1>2, <1>4, <1>5, <1>6, JobAt DEF JobOK, Is
  <2>2. CleanSafe(k) /\ \A r \in job[k].set : r[1] \in DraftIds
    BY <1>2, TablesHere, JobAt, RowParts DEF JobSafe
  <2>3. \A r \in sent : r[2] \in refs
    BY <1>1
  <2>4. CleanSafe(k)'
    BY <1>2, <1>4, <1>6, <1>7, <2>2, <2>3 DEF CleanSafe, Is
  <2> QED BY <1>4, <1>6, <2>1, <2>4 DEF JobSafe, UploadYoung, SendLists, Is
<1> QED BY <1>2, <1>4, <1>7, <1>8, JobStep, TablesHere

(* A deleted file is of one row only: one that lapsed, or was never sent   *)
(* and never will be.                                                      *)
LEMMA DeleteFilesOK == ASSUME DraftsInv, NEW k \in Calls, Draft!DeleteFiles(k) PROVE DraftsInv'
<1>1. /\ job[k].kind = "clean" /\ job[k].step = "delete" /\ Draft!Goto(k, "rows")
      /\ \E failing \in SUBSET {r[2] : r \in job[k].set} :
             stored' = stored \ ({r[2] : r \in job[k].set} \ (job[k].keep \cup failing))
      /\ UNCHANGED <<status, fresh, attached, old, sent, lapsed, todo>>
  BY DEF Draft!DeleteFiles, Draft!At
<1>2. PICK x : GoesOnAs(k, "rows", x)
  BY <1>1, GoesOn
<1>3. /\ stored' \subseteq stored
      /\ \A f \in stored \ stored' : f \notin job[k].keep /\ \E s \in job[k].set : f = s[2]
  BY <1>1
<1>4. \A s \in job[k].set :
        /\ s \in AllRows /\ s[1] \in DraftIds /\ s[2] \in old
        /\ \/ s[1] \in lapsed \/ s[2] \in job[k].keep
           \/ status[s[1]] = "cleared" /\ s \notin sent /\ NoSend(s[1])
  <2>1. CleanSafe(k)
    BY TablesHere DEF JobSafe
  <2>2. \A s \in job[k].set : s \in AllRows /\ s[1] \in DraftIds
    BY <1>1, JobAt, RowParts
  <2> QED BY <1>1, <2>1, <2>2 DEF CleanSafe, Is
<1>5. \A r \in AllRows : r[2] \in stored \ stored' =>
        /\ r[2] \in old
        /\ r[1] \in lapsed \/ (status[r[1]] = "cleared" /\ r \notin sent /\ NoSend(r[1]))
  BY <1>3, <1>4 DEF DraftsInv, OneRowEach
<1>6. OneRowEach' /\ \A e \in DraftIds : NoSend(e) => NoSend(e)'
  BY <1>1, <1>2, RowsKept, NoSendKept, TablesHere DEF GoesOnAs
<1>7. StepFair
  BY <1>1, <1>6 DEF StepFair
<1>8. StoredFair(k)
  <2>1. \A f \in stored \ stored' : f \in old
    BY <1>3, <1>4
  <2>2. ASSUME NEW g \in Calls \ {k}, Is(g, "send"), job[g].step = "copy",
               NEW r \in job[g].set, r[2] \in stored \ stored'
        PROVE  r[1] \in lapsed
    <3>1. r \in AllRows /\ r[1] \in job[g].draft
      BY <2>2, JobAt DEF Is
    <3>2. ~NoSend(r[1])
      BY <2>2, <3>1 DEF NoSend, Past
    <3> QED BY <1>5, <2>2, <3>1, <3>2
  <2> QED BY <2>1, <2>2 DEF StoredFair
<1>9. JobSafe(k)'
  <2>1. JobOK(k)'
    BY <1>1, <1>2, JobAt DEF JobOK, Is, GoesOnAs
  <2>2. CleanSafe(k)'
    <3>1. CleanSafe(k) /\ \A r \in job[k].set : r[1] \in DraftIds
      BY <1>4, TablesHere DEF JobSafe
    <3> QED BY <1>1, <1>2, <3>1 DEF CleanSafe, Is, GoesOnAs
  <2> QED BY <1>1, <1>2, <2>1, <2>2 DEF JobSafe, UploadYoung, SendLists, Is, GoesOnAs
<1>10. TablesTyped'
  BY <1>1, <1>3 DEF DraftsInv, TablesTyped
<1>11. attached \subseteq AllRows /\ sent \subseteq AllRows
       /\ \A r \in attached \cup sent : r[1] \in DraftIds
  BY TablesHere, RowParts DEF DraftsInv, TablesTyped
<1>12. ClearedSettled'
  BY <1>1, <1>6, <1>11 DEF DraftsInv, ClearedSettled
<1>13. FilesThere'
  BY <1>1, <1>5, <1>6, <1>11 DEF DraftsInv, FilesThere
<1> QED BY <1>2, <1>6, <1>7, <1>8, <1>9, <1>10, <1>12, <1>13, DraftStep DEF GoesOnAs

(* Time: a draft expires, and is counted as lapsed.                        *)
LEMMA ExpireOK == ASSUME DraftsInv, NEW d \in DraftIds, Draft!Expire(d) PROVE DraftsInv'
<1>1. /\ fresh' = fresh \ {d} /\ lapsed' = lapsed \cup {d}
      /\ UNCHANGED <<status, attached, old, stored, sent, job>>
      /\ todo' \in [Draft!Kinds -> Nat]
  BY SpendTyped, TablesHere DEF Draft!Expire
<1>2. OneRowEach' /\ DOMAIN job' = Calls /\ \A e : NoSend(e)' <=> NoSend(e)
  BY <1>1 DEF DraftsInv, OneRowEach, AllRows, NoSend, Is
<1>3. ASSUME NEW g \in Calls PROVE JobSafe(g)'
  <2>1. JobOK(g)' /\ UploadYoung(g)' /\ SendLists(g)'
    BY <1>1, TablesHere DEF JobSafe, JobOK, UploadYoung, SendLists, Is
  <2>2. CleanSafe(g)'
    BY <1>1, <1>2, TablesHere DEF JobSafe, CleanSafe, Is
  <2> QED BY <2>1, <2>2 DEF JobSafe
<1>4. TablesTyped'
  BY <1>1 DEF DraftsInv, TablesTyped
<1>5. ClearedSettled' /\ FilesThere'
  BY <1>1, <1>2 DEF DraftsInv, ClearedSettled, FilesThere
<1> QED BY <1>2, <1>3, <1>4, <1>5 DEF DraftsInv

(* Between requests a file grows old: nobody sends, nobody uploads.        *)
LEMMA AgeOK == ASSUME DraftsInv, NEW f \in Files, Draft!Age(f) PROVE DraftsInv'
<1>1. /\ \A g \in Calls : job[g] = Draft!NoJob
      /\ old' = old \cup {f}
      /\ UNCHANGED <<status, fresh, attached, stored, sent, lapsed, job, todo>>
  BY DEF Draft!Age
<1>2. OneRowEach' /\ DOMAIN job' = Calls /\ \A e : NoSend(e)' <=> NoSend(e)
  BY <1>1 DEF DraftsInv, OneRowEach, AllRows, NoSend, Is
<1>3. \A e : NoSend(e)
  BY <1>1 DEF NoSend, Is, Draft!NoJob
<1>4. \A g \in Calls : JobSafe(g)'
  BY <1>1 DEF JobSafe, JobOK, UploadYoung, SendLists, CleanSafe, Is, Draft!NoJob
<1>5. TablesTyped'
  BY <1>1 DEF DraftsInv, TablesTyped
<1>6. ClearedSettled' /\ FilesThere'
  BY <1>1, <1>2, <1>3 DEF DraftsInv, ClearedSettled, FilesThere
<1> QED BY <1>2, <1>4, <1>5, <1>6 DEF DraftsInv

-----------------------------------------------------------------------------
LEMMA DraftsNext == DraftsInv /\ [Draft!Next]_Draft!vars => DraftsInv'
<1> SUFFICES ASSUME DraftsInv, [Draft!Next]_Draft!vars PROVE DraftsInv'
  OBVIOUS
<1>1. ASSUME NEW k \in Calls, Draft!Advance(k) PROVE DraftsInv'
  BY <1>1, FindDraftOK, WriteDraftOK, CheckActiveOK, WriteUpdateOK, WriteDiscardOK, UploadOK,
     AttachRowOK, RowStepsOK, ListAttachmentsOK, CopyAttachmentsOK, ClearDraftOK,
     FindCandidatesOK, FindReferencesOK, DeleteFilesOK DEF Draft!Advance
<1>2. ASSUME NEW k \in Calls, Draft!Fail(k) PROVE DraftsInv'
  BY <1>2, FailOK
<1>3. CASE UNCHANGED Draft!vars
  BY <1>3 DEF Draft!vars, DraftsInv, TablesTyped, OneRowEach, AllRows, JobSafe, JobOK, UploadYoung,
              SendLists, CleanSafe, ClearedSettled, FilesThere, NoSend, Is
<1> QED BY <1>1, <1>2, <1>3, ArrivalsOK, ExpireOK, AgeOK DEF Draft!Next

LEMMA DraftsAlways == Draft!Spec => []DraftsInv
BY DraftsInit, DraftsNext, PTL DEF Draft!Spec

LEMMA DraftsMeans == DraftsInv => FilesKept /\ Draft!DraftsTypeOK
<1> SUFFICES ASSUME DraftsInv PROVE FilesKept /\ Draft!DraftsTypeOK
  OBVIOUS
<1>1. FilesKept
  BY DEF DraftsInv, FilesThere, FilesKept, Draft!FilesKept
<1>2. ASSUME NEW k \in Calls
      PROVE  job[k].draft \subseteq DraftIds /\ job[k].set \subseteq Draft!Rows /\ job[k].keep \subseteq Files
  <2>1. JobOK(k)
    BY TablesHere DEF JobSafe
  <2> QED BY <2>1 DEF JobOK, Is, Draft!NoJob
<1>3. Draft!DraftsTypeOK
  BY <1>2 DEF DraftsInv, TablesTyped, Draft!DraftsTypeOK
<1> QED BY <1>1, <1>3

(* DraftService.saveDraft, removeAttachment, sendDraft: a file that a row  *)
(* still names stays in the store, however calls overlap.                  *)
THEOREM DraftFilesKept == Draft!Spec => []FilesKept
BY DraftsAlways, DraftsMeans, PTL

(* Drafts, attachments, stored files and calls keep to their types.        *)
THEOREM DraftsTypeCorrect == Draft!Spec => []Draft!DraftsTypeOK
BY DraftsAlways, DraftsMeans, PTL

-----------------------------------------------------------------------------
-----------------------------------------------------------------------------
(***************************************************************************)
(* Templates: the variables of a template are those of its body, for any   *)
(* number of templates, editors and bodies of any length, unless two       *)
(* updates of it overlapped.                                               *)
(***************************************************************************)
TemplateSpace == {p \in Nat \X Nat : p[1] < p[2]}

(* A set of numbers has a least one.                                       *)
LEMMA LeastNumber ==
    ASSUME NEW T, T \subseteq Nat, T # {}
    PROVE  \E x \in T : \A y \in T : x <= y
<1>1. IsWellFoundedOn(TemplateSpace, Nat)
  BY NatLessThanWellFounded DEF OpToRel, TemplateSpace
<1>2. PICK x \in T : \A y \in T : ~ (<<y, x>> \in TemplateSpace)
  BY <1>1, WFMin
<1>3. \A a, b \in Nat : a < b => <<a, b>> \in TemplateSpace
  BY DEF TemplateSpace
<1>4. ASSUME NEW y \in T PROVE x <= y
  <2>1. x \in Nat /\ y \in Nat
    OBVIOUS
  <2>2. ~(y < x)
    BY <1>2, <1>3, <2>1
  <2> QED BY <2>1, <2>2
<1> QED BY <1>4

LEMMA TemplateSets ==
    /\ \A S : Template!Cardinality(S) = Cardinality(S) /\ Template!IsFiniteSet(S) = IsFiniteSet(S)
    /\ \A s : Template!ToSet(s) = {s[i] : i \in DOMAIN s}
BY DEF Template!Cardinality, Cardinality, Template!IsFiniteSet, IsFiniteSet, Template!ToSet

LEMMA BodyLength == ASSUME NEW b, Template!IsBody(b) PROVE \E n \in Nat : DOMAIN b = 1..n
BY DEF Template!IsBody

LEMMA LabelsFinite ==
    ASSUME NEW b, Template!IsBody(b)
    PROVE  IsFiniteSet(Template!Labels(b))
<1>1. PICK n \in Nat : DOMAIN b = 1..n
  BY BodyLength
<1>2. IsFiniteSet(1..n)
  BY FS_Interval
<1> DEFINE all == {b[i] : i \in 1..n}
           f == [i \in 1..n |-> b[i]]
<1>3. f \in Surjection(1..n, all)
  BY DEF Surjection
<1> HIDE DEF f
<1>4. IsFiniteSet(all)
  BY <1>2, <1>3, FS_Surjection
<1>5. Template!Labels(b) \subseteq all
  BY <1>1, TemplateSets DEF Template!Labels
<1> HIDE DEF all
<1> QED BY <1>4, <1>5, FS_Subset

(* Every label has a first marker.                                         *)
LEMMA FirstMarker ==
    ASSUME NEW b, Template!IsBody(b), NEW l \in Template!Labels(b)
    PROVE  /\ Template!FirstAt(b, l) \in DOMAIN b /\ Template!FirstAt(b, l) \in Nat
           /\ b[Template!FirstAt(b, l)] = l
<1>1. PICK n \in Nat : DOMAIN b = 1..n
  BY BodyLength
<1> DEFINE T == {i \in DOMAIN b : b[i] = l}
<1>2. T \subseteq Nat /\ T # {}
  BY <1>1, TemplateSets DEF Template!Labels
<1>3. PICK x \in T : \A y \in T : x <= y
  BY <1>2, LeastNumber
<1>4. x \in DOMAIN b /\ b[x] = l /\ \A j \in DOMAIN b : b[j] = l => x <= j
  BY <1>3
<1>5. \A i \in DOMAIN b : i \in Nat
  BY <1>1
<1> QED BY <1>4, <1>5 DEF Template!FirstAt

(* The variables of a body: one for each label, numbered without a gap;    *)
(* each marker is compiled to the number of its label.                     *)
LEMMA ParseIsGapless ==
    ASSUME NEW b, Template!IsBody(b)
    PROVE  LET parsed == Template!parseBody(b) IN
           /\ {r.position : r \in parsed} = 1..Cardinality(parsed)
           /\ {r.label : r \in parsed} = Template!Labels(b)
           /\ \A q, r \in parsed : q.label = r.label => q = r
           /\ \A r \in parsed : r.position \in Nat \ {0} /\ r.label # Blank
           /\ \A i \in DOMAIN b : b[i] # Blank =>
                 [position |-> Template!compileBody(b)[i], label |-> b[i]] \in parsed
<1> DEFINE L == Template!Labels(b)
           n == Cardinality(L)
           First(l) == Template!FirstAt(b, l)
           Upto(l) == {m \in L : First(m) <= First(l)}
           rank == [l \in L |-> Cardinality(Upto(l))]
           parsed == Template!parseBody(b)
<1>1. IsFiniteSet(L) /\ n \in Nat
  BY LabelsFinite, FS_CardinalityType
<1>2. \A l \in L : First(l) \in Nat /\ b[First(l)] = l
  BY FirstMarker
<1> HIDE DEF First
<1>3. ASSUME NEW l \in L PROVE IsFiniteSet(Upto(l)) /\ Cardinality(Upto(l)) \in 1..n
  <2>1. Upto(l) \in SUBSET L /\ l \in Upto(l)
    BY <1>2
  <2> HIDE DEF Upto, L
  <2>2. IsFiniteSet(Upto(l)) /\ Cardinality(Upto(l)) <= n /\ Cardinality(Upto(l)) \in Nat
    BY <1>1, <2>1, FS_Subset, FS_CardinalityType
  <2>3. Cardinality(Upto(l)) # 0
    BY <2>1, <2>2, FS_EmptySet
  <2> QED BY <1>1, <2>2, <2>3
<1>4. ASSUME NEW k \in L, NEW l \in L, First(k) < First(l)
      PROVE  Cardinality(Upto(k)) # Cardinality(Upto(l))
  <2>1. Upto(k) \in SUBSET Upto(l)
    <3>1. \A m \in L : First(m) <= First(k) => First(m) <= First(l)
      BY <1>2, <1>4
    <3> QED BY <3>1
  <2>2. l \in Upto(l) /\ l \notin Upto(k)
    BY <1>2, <1>4
  <2>3. IsFiniteSet(Upto(l))
    BY <1>3
  <2> HIDE DEF Upto
  <2> QED BY <2>1, <2>2, <2>3, FS_Subset
<1> HIDE DEF Upto
<1>5. rank \in Injection(L, 1..n)
  <2>1. rank \in [L -> 1..n]
    BY <1>3
  <2>2. ASSUME NEW k \in L, NEW l \in L, rank[k] = rank[l] PROVE k = l
    <3>1. ~(First(k) < First(l)) /\ ~(First(l) < First(k))
      BY <1>4, <2>2
    <3>2. First(k) = First(l)
      BY <1>2, <3>1
    <3> QED BY <1>2, <3>2
  <2> HIDE DEF rank
  <2> QED BY <2>1, <2>2 DEF Injection, IsInjective
<1>6. rank \in Surjection(L, 1..n)
  <2>1. IsFiniteSet(1..n) /\ Cardinality(1..n) = n
    BY <1>1, FS_Interval
  <2> HIDE DEF n, L, rank
  <2>2. Cardinality(L) = Cardinality(1..n)
    BY <2>1 DEF n
  <2> QED BY <1>5, <2>1, <2>2, FS_Injection
<1>7. parsed = {[position |-> rank[l], label |-> l] : l \in L}
  BY TemplateSets DEF Template!parseBody, Upto, First
<1> HIDE DEF parsed, rank, L
<1>8. \A l \in L : rank[l] \in 1..n
  BY <1>5 DEF Injection
<1>9. Cardinality(parsed) = n
  <2> DEFINE g == [l \in L |-> [position |-> rank[l], label |-> l]]
  <2>1. g \in Injection(L, parsed)
    BY <1>7 DEF Injection, IsInjective
  <2>2. g \in Surjection(L, parsed)
    BY <1>7 DEF Surjection
  <2> HIDE DEF g
  <2>3. ExistsBijection(L, parsed)
    BY <2>1, <2>2 DEF ExistsBijection, Bijection
  <2> QED BY <1>1, <2>3, FS_Bijection
<1> DEFINE Var(l) == [position |-> rank[l], label |-> l]
<1>15. \A l \in L : Var(l) \in parsed /\ Var(l).position = rank[l] /\ Var(l).label = l
  BY <1>7
<1>16. \A r \in parsed : r.label \in L /\ r = Var(r.label) /\ r.position = rank[r.label]
  BY <1>7
<1> HIDE DEF Var
<1>10. {r.position : r \in parsed} = 1..n
  <2>1. \A p \in 1..n : \E l \in L : rank[l] = p
    BY <1>6 DEF Surjection
  <2> HIDE DEF n
  <2>2. \A p \in 1..n : \E r \in parsed : r.position = p
    BY <1>15, <2>1
  <2>3. \A r \in parsed : r.position \in 1..n
    BY <1>8, <1>16
  <2> QED BY <2>2, <2>3
<1>11. {r.label : r \in parsed} = L /\ \A q, r \in parsed : q.label = r.label => q = r
  <2>1. \A l \in L : \E r \in parsed : r.label = l
    BY <1>15
  <2> QED BY <1>16, <2>1
<1>12. \A r \in parsed : r.position \in Nat \ {0} /\ r.label # Blank
  <2>1. \A r \in parsed : r.position \in 1..n /\ r.label \in L
    BY <1>8, <1>16
  <2>2. \A l \in L : l # Blank
    BY DEF L, Template!Labels
  <2>3. \A p \in 1..n : p \in Nat \ {0}
    BY <1>1
  <2> HIDE DEF n
  <2> QED BY <2>1, <2>2, <2>3
<1>13. \A i \in DOMAIN b : b[i] # Blank => b[i] \in L
  BY TemplateSets DEF L, Template!Labels
<1>14. ASSUME NEW i \in DOMAIN b, b[i] # Blank
       PROVE  [position |-> Template!compileBody(b)[i], label |-> b[i]] \in parsed
  <2>1. Template!compileBody(b)[i] = (CHOOSE v \in parsed : v.label = b[i]).position
    BY <1>14 DEF Template!compileBody, parsed
  <2>2. \E v \in parsed : v.label = b[i]
    BY <1>13, <1>14, <1>15
  <2>3. PICK v \in parsed : v.label = b[i] /\ Template!compileBody(b)[i] = v.position
    BY <2>1, <2>2
  <2>4. v = [position |-> v.position, label |-> v.label]
    BY <1>16 DEF Var
  <2> QED BY <2>3, <2>4
<1> QED BY <1>9, <1>10, <1>11, <1>12, <1>14 DEF parsed, L

-----------------------------------------------------------------------------
(* What is stored of a template, and what a handler holds.                 *)
Sound(s) ==
    /\ s.type \in Template!Types
    /\ Template!IsBody(s.body)
    /\ s.bodyCompiled # None => s.bodyCompiled = Template!compileBody(s.body)
    /\ s.edition \in Nat \ {0}
    /\ \A r \in s.rows : r.position \in Nat \ {0} /\ r.label # Blank
Whole(s) == s.rows = Template!parseBody(s.body)

Served(r) ==
    /\ DOMAIN r = {"op", "id", "dto", "at", "existing", "deleted"}
    /\ Template!IsRequest(r)
    /\ r.at \in {"read", "begin", "write"}
    /\ r.op = "create" => r.at = "read"
    /\ r.at # "read" => r.id \in used /\ Sound(r.existing)

(* An update that overlaps no other has before it what it read, and has    *)
(* deleted the rows that are stored if it writes others.                   *)
Updating(r) == r.op = "update" /\ r.at # "read"
Current(r) ==
    (Updating(r) /\ r.id \in Template!Live \ torn) =>
        /\ r.existing.body = shelf[r.id].body
        /\ r.at = "write" =>
              r.deleted = IF r.dto.body # None /\ r.dto.body # r.existing.body
                          THEN shelf[r.id].edition ELSE 0

EditorsOK ==
    \A h \in Editors : Template!Busy(h) => Served(editor[h]) /\ Current(editor[h])
OneUpdate ==
    \A g, h \in Editors :
        (/\ g # h /\ Template!Busy(g) /\ Template!Busy(h)
         /\ Updating(editor[g]) /\ Updating(editor[h]) /\ editor[g].id = editor[h].id)
            => editor[h].id \in torn
ShelfOK ==
    /\ shelf = [t \in Slots |-> shelf[t]]
    /\ editor = [h \in Editors |-> editor[h]]
    /\ Template!Live \subseteq used /\ used \subseteq Slots /\ torn \subseteq Slots
    /\ \A q \in edits : Template!IsRequest(q)
    /\ \A t \in Template!Live :
          /\ Sound(shelf[t])
          /\ shelf[t].name[2] \in Nat /\ shelf[t].name[2] < Cardinality(used)
          /\ t \notin torn => Whole(shelf[t])
    /\ \A t, u \in Template!Live : shelf[t].name = shelf[u].name => t = u
TemplatesInv == ShelfOK /\ EditorsOK /\ OneUpdate

LEMMA TemplateTypes == TemplatesInv => Template!TemplatesTypeOK
BY DEF TemplatesInv, ShelfOK, EditorsOK, Sound, Served, Template!TemplatesTypeOK

LEMMA TemplatesAreFilled == TemplatesInv => PlaceholdersFilled
<1> SUFFICES ASSUME TemplatesInv, NEW t \in Template!Live
             PROVE  LET s == shelf[t] IN
                    /\ s.bodyCompiled # None => s.bodyCompiled = Template!compileBody(s.body)
                    /\ t \notin torn =>
                        /\ {r.position : r \in s.rows} = 1..Cardinality(s.rows)
                        /\ {r.label : r \in s.rows} = Template!ToSet(s.body) \ {Blank}
                        /\ \A q, r \in s.rows : q.label = r.label => q = r
                        /\ s.bodyCompiled # None =>
                            \A i \in DOMAIN s.body : s.body[i] # Blank =>
                                [position |-> s.bodyCompiled[i], label |-> s.body[i]] \in s.rows
  BY TemplateSets DEF PlaceholdersFilled, Template!PlaceholdersFilled
<1> DEFINE s == shelf[t]
<1>1. Sound(s) /\ (t \notin torn => Whole(s))
  BY DEF TemplatesInv, ShelfOK
<1>2. s.bodyCompiled # None => s.bodyCompiled = Template!compileBody(s.body)
  BY <1>1 DEF Sound
<1>3. Template!IsBody(s.body)
  BY <1>1 DEF Sound
<1> HIDE DEF s
<1>4. ASSUME t \notin torn
      PROVE  /\ {r.position : r \in s.rows} = 1..Cardinality(s.rows)
             /\ {r.label : r \in s.rows} = Template!Labels(s.body)
             /\ \A q, r \in s.rows : q.label = r.label => q = r
             /\ \A i \in DOMAIN s.body : s.body[i] # Blank =>
                    [position |-> Template!compileBody(s.body)[i], label |-> s.body[i]] \in s.rows
  BY <1>1, <1>3, <1>4, ParseIsGapless DEF Whole
<1> QED BY <1>2, <1>4 DEF s, Template!Labels

-----------------------------------------------------------------------------
LEMMA FreeIsNotServed == \A r : Served(r) => r # Template!Free
BY DEF Served, Template!Free, Template!IsRequest

(* A handler's step that stores nothing.                                   *)
LEMMA TemplateHandlerMoves ==
    ASSUME TemplatesInv, NEW h \in Editors, NEW r, editor' = [editor EXCEPT ![h] = r],
           UNCHANGED <<shelf, used>>, edits' \subseteq edits,
           torn \subseteq torn', torn' \subseteq Slots,
           r # Template!Free => Served(r),
           (r # Template!Free /\ Updating(r) /\ r.id \in Template!Live \ torn') => Current(r),
           \A g \in Editors \ {h} :
               (/\ Template!Busy(g) /\ Updating(editor[g])
                /\ r # Template!Free /\ Updating(r) /\ editor[g].id = r.id) => r.id \in torn'
    PROVE  TemplatesInv'
<1> USE DEF TemplatesInv
<1>1. editor'[h] = r /\ \A g \in Editors \ {h} : editor'[g] = editor[g]
  BY DEF ShelfOK
<1>2. Template!Live' = Template!Live
  BY DEF Template!Live
<1>3. ShelfOK'
  <2>1. editor' = [g \in Editors |-> editor'[g]]
    BY DEF ShelfOK
  <2>2. \A t \in Template!Live' : Sound(shelf'[t]) /\ (t \notin torn' => Whole(shelf'[t]))
    BY <1>2 DEF ShelfOK
  <2> QED BY <1>2, <2>1, <2>2 DEF ShelfOK
<1>4. ASSUME NEW g \in Editors, Template!Busy(g)' PROVE Served(editor[g])' /\ Current(editor[g])'
  <2>1. CASE g = h
    <3>1. r # Template!Free
      BY <1>1, <1>4, <2>1 DEF Template!Busy
    <3>2. Served(editor'[g])
      BY <1>1, <2>1, <3>1
    <3>3. Updating(r) /\ r.id \in Template!Live \ torn' => Current(r)
      BY <3>1
    <3>4. Served(editor[g])'
      BY <3>2 DEF Served, Sound, Template!IsRequest, Template!IsDto
    <3>5. Current(editor[g])'
      BY <1>1, <1>2, <2>1, <3>3 DEF Current, Updating
    <3> QED BY <3>4, <3>5
  <2>2. CASE g # h
    <3>1. editor'[g] = editor[g] /\ Served(editor[g]) /\ Current(editor[g])
      BY <1>1, <1>4, <2>2 DEF Template!Busy, EditorsOK
    <3>2. Served(editor[g])'
      BY <3>1 DEF Served, Sound, Template!IsRequest, Template!IsDto
    <3>3. Current(editor[g])'
      BY <1>2, <3>1 DEF Current, Updating
    <3> QED BY <3>2, <3>3
  <2> QED BY <2>1, <2>2
<1>5. OneUpdate'
  <2> SUFFICES ASSUME NEW f \in Editors, NEW g \in Editors, f # g,
                      Template!Busy(f)', Template!Busy(g)',
                      Updating(editor'[f]), Updating(editor'[g]), editor'[f].id = editor'[g].id
               PROVE  editor'[g].id \in torn'
    BY DEF OneUpdate, Updating
  <2>1. \A x \in Editors \ {h} : Template!Busy(x)' <=> Template!Busy(x)
    BY <1>1 DEF Template!Busy
  <2>2. Template!Busy(h)' <=> r # Template!Free
    BY <1>1 DEF Template!Busy
  <2>3. CASE f = h \/ g = h
    BY <1>1, <2>1, <2>2, <2>3
  <2>4. CASE f # h /\ g # h
    BY <1>1, <2>1, <2>4 DEF OneUpdate
  <2> QED BY <2>3, <2>4
<1> QED BY <1>3, <1>4, <1>5 DEF EditorsOK

LEMMA TemplateBeginOK ==
    ASSUME TemplatesInv, NEW h \in Editors, Template!Begin(h) PROVE TemplatesInv'
<1>1. PICK q \in edits :
        /\ editor' = [editor EXCEPT ![h] =
              [op |-> q.op, id |-> q.id, dto |-> q.dto, at |-> "read",
               existing |-> None, deleted |-> 0]]
        /\ edits' = edits \ {q}
  BY DEF Template!Begin
<1> DEFINE r == [op |-> q.op, id |-> q.id, dto |-> q.dto, at |-> "read",
                 existing |-> None, deleted |-> 0]
<1>2. Template!IsRequest(q)
  BY DEF TemplatesInv, ShelfOK
<1>3. Served(r) /\ ~Updating(r)
  BY <1>2 DEF Served, Updating, Template!IsRequest
<1>4. UNCHANGED <<shelf, used, torn>> /\ torn \subseteq Slots
  BY DEF Template!Begin, TemplatesInv, ShelfOK
<1> HIDE DEF r
<1>5. editor' = [editor EXCEPT ![h] = r] /\ edits' \subseteq edits
  BY <1>1 DEF r
<1> QED BY <1>3, <1>4, <1>5, TemplateHandlerMoves

LEMMA TemplateDoneOK ==
    ASSUME TemplatesInv, NEW h \in Editors, Template!Done(h), UNCHANGED <<shelf, used, edits, torn>>
    PROVE  TemplatesInv'
<1>1. editor' = [editor EXCEPT ![h] = Template!Free] /\ torn \subseteq Slots
  BY DEF Template!Done, TemplatesInv, ShelfOK
<1> DEFINE r == Template!Free
<1>2. r = Template!Free
  OBVIOUS
<1> HIDE DEF r
<1>3. editor' = [editor EXCEPT ![h] = r]
  BY <1>1, <1>2
<1> QED BY <1>1, <1>2, <1>3, TemplateHandlerMoves

LEMMA UsedIsFinite ==
    ASSUME TemplatesInv
    PROVE  /\ IsFiniteSet(used) /\ Cardinality(used) \in Nat
           /\ \A t \in Slots \ used : Cardinality(used \cup {t}) = Cardinality(used) + 1
           /\ \A t \in used : used \cup {t} = used /\ 0 < Cardinality(used)
<1>1. IsFiniteSet(Slots) /\ used \subseteq Slots
  BY RecordsAssumption, TemplateSets DEF TemplatesInv, ShelfOK, Template!ShelvesOK
<1>2. IsFiniteSet(used)
  BY <1>1, FS_Subset
<1>3. Cardinality(used) \in Nat /\ \A t \in Slots \ used : Cardinality(used \cup {t}) = Cardinality(used) + 1
  BY <1>2, FS_CardinalityType, FS_AddElement
<1>4. \A t \in used : Cardinality(used) # 0 /\ used \cup {t} = used
  BY <1>2, FS_EmptySet
<1> QED BY <1>2, <1>3, <1>4

LEMMA TemplateStoreOK ==
    ASSUME TemplatesInv, NEW h \in Editors, Template!Done(h), NEW t \in Slots, NEW new,
           shelf' = [shelf EXCEPT ![t] = new], used' = used \cup {t}, UNCHANGED <<edits, torn>>,
           new # None => /\ Sound(new) /\ (t \notin torn => Whole(new))
                         /\ new.name[2] \in Nat /\ new.name[2] < Cardinality(used')
                         /\ \A u \in Template!Live \ {t} : shelf[u].name # new.name,
           new # None => \A g \in Editors \ {h} :
               (Template!Busy(g) /\ Updating(editor[g]) /\ editor[g].id = t) => t \in torn
    PROVE  TemplatesInv'
<1>6. Cardinality(used') \in Nat /\ Cardinality(used) \in Nat /\ Cardinality(used) <= Cardinality(used')
  <2> DEFINE n == Cardinality(used)
             m == Cardinality(used \cup {t})
  <2>1. n \in Nat /\ (m = n \/ m = n + 1)
    BY UsedIsFinite
  <2>2. Cardinality(used') = m
    OBVIOUS
  <2> HIDE DEF n, m
  <2>3. m \in Nat /\ n <= m
    BY <2>1
  <2> QED BY <2>1, <2>2, <2>3 DEF n
<1> USE DEF TemplatesInv
<1>1. editor'[h] = Template!Free /\ \A g \in Editors \ {h} : editor'[g] = editor[g]
  BY DEF ShelfOK, Template!Done
<1>2. shelf'[t] = new /\ \A u \in Slots \ {t} : shelf'[u] = shelf[u]
  BY DEF ShelfOK
<1>3. \A u \in Slots \ {t} : u \in Template!Live' <=> u \in Template!Live
  BY <1>2 DEF Template!Live
<1>4. t \in Template!Live' <=> new # None
  BY <1>2 DEF Template!Live
<1>5. Template!Live' \subseteq Slots /\ Template!Live \subseteq Slots
  BY DEF Template!Live
<1>7. \A u \in Template!Live' :
         /\ Sound(shelf'[u]) /\ (u \notin torn => Whole(shelf'[u]))
         /\ shelf'[u].name[2] \in Nat /\ shelf'[u].name[2] < Cardinality(used')
  <2> SUFFICES ASSUME NEW u \in Template!Live'
               PROVE  /\ Sound(shelf'[u]) /\ (u \notin torn => Whole(shelf'[u]))
                      /\ shelf'[u].name[2] \in Nat /\ shelf'[u].name[2] < Cardinality(used')
    OBVIOUS
  <2>1. CASE u = t
    BY <1>2, <1>4, <2>1
  <2>2. CASE u # t
    <3>1. shelf'[u] = shelf[u] /\ u \in Template!Live
      BY <1>2, <1>3, <1>5, <2>2
    <3>2. /\ Sound(shelf[u]) /\ (u \notin torn => Whole(shelf[u]))
          /\ shelf[u].name[2] \in Nat /\ shelf[u].name[2] < Cardinality(used)
      BY <3>1 DEF ShelfOK
    <3> QED BY <1>6, <3>1, <3>2
  <2> QED BY <2>1, <2>2
<1>8. \A u, v \in Template!Live' : shelf'[u].name = shelf'[v].name => u = v
  <2> SUFFICES ASSUME NEW u \in Template!Live', NEW v \in Template!Live',
                      shelf'[u].name = shelf'[v].name, u # v
               PROVE  FALSE
    OBVIOUS
  <2>1. CASE u = t \/ v = t
    BY <1>2, <1>3, <1>4, <1>5, <2>1
  <2>2. CASE u # t /\ v # t
    BY <1>2, <1>3, <1>5, <2>2 DEF ShelfOK
  <2> QED BY <2>1, <2>2
<1>9. ShelfOK'
  <2>1. shelf' = [u \in Slots |-> shelf'[u]] /\ editor' = [g \in Editors |-> editor'[g]]
    BY DEF ShelfOK, Template!Done
  <2>2. Template!Live' \subseteq used' /\ used' \subseteq Slots /\ torn' \subseteq Slots
    <3>1. Template!Live \subseteq used /\ used \subseteq Slots /\ torn \subseteq Slots
      BY DEF ShelfOK
    <3> QED BY <1>3, <1>5, <3>1
  <2>3. \A q \in edits' : Template!IsRequest(q)
    BY DEF ShelfOK
  <2>4. \A u \in Template!Live' : Sound(shelf'[u]) /\ (u \notin torn' => Whole(shelf'[u]))
    BY <1>7
  <2> QED BY <1>7, <1>8, <2>1, <2>2, <2>3, <2>4 DEF ShelfOK
<1>10. ASSUME NEW g \in Editors, Template!Busy(g)' PROVE Served(editor[g])' /\ Current(editor[g])'
  <2>1. g # h
    BY <1>1, <1>10 DEF Template!Busy
  <2>2. editor'[g] = editor[g] /\ Template!Busy(g) /\ Served(editor[g]) /\ Current(editor[g])
    BY <1>1, <1>10, <2>1 DEF Template!Busy, EditorsOK
  <2>3. Served(editor[g])'
    BY <2>2 DEF Served, Sound, Template!IsRequest, Template!IsDto
  <2>4. Current(editor[g])'
    <3>1. CASE editor[g].id = t /\ new # None
      BY <2>1, <2>2, <3>1 DEF Current, Updating
    <3>2. CASE editor[g].id = t /\ new = None
      BY <1>4, <2>2, <3>2 DEF Current, Updating
    <3>3. CASE editor[g].id # t
      BY <1>2, <1>3, <1>5, <2>2, <3>3 DEF Current, Updating
    <3> QED BY <3>1, <3>2, <3>3
  <2> QED BY <2>3, <2>4
<1>11. OneUpdate'
  <2>1. \A g \in Editors : Template!Busy(g)' => g # h /\ Template!Busy(g) /\ editor'[g] = editor[g]
    BY <1>1 DEF Template!Busy
  <2> QED BY <2>1 DEF OneUpdate, Updating
<1> QED BY <1>9, <1>10, <1>11 DEF EditorsOK

(* A template newly written.                                               *)
LEMMA NewIsSound ==
    ASSUME NEW name, NEW type \in Template!Types, NEW b, Template!IsBody(b)
    PROVE  LET s == Template!Template(name, type, b) IN
           Sound(s) /\ Whole(s) /\ s.name = name
<1>1. \A r \in Template!parseBody(b) : r.position \in Nat \ {0} /\ r.label # Blank
  BY ParseIsGapless
<1> QED BY <1>1 DEF Sound, Whole, Template!Template, Template!Compiled

LEMMA StoreNewOK ==
    ASSUME TemplatesInv, NEW h \in Editors, Template!Done(h),
           NEW name, NEW type \in Template!Types, NEW b, Template!IsBody(b),
           Template!StoreNew(name, type, b), UNCHANGED <<edits, torn>>,
           name[2] \in Nat, name[2] <= Cardinality(used),
           \A u \in Template!Live : shelf[u].name # name
    PROVE  TemplatesInv'
<1> DEFINE new == Template!Template(name, type, b)
<1>1. PICK t \in Slots \ used : shelf' = [shelf EXCEPT ![t] = new] /\ used' = used \cup {t}
  BY DEF Template!StoreNew
<1>2. Sound(new) /\ Whole(new) /\ new.name = name
  BY NewIsSound
<1>3. \A g \in Editors : Template!Busy(g) /\ Updating(editor[g]) => editor[g].id \in used
  BY DEF TemplatesInv, EditorsOK, Served, Updating
<1> HIDE DEF new
<1>4. new.name[2] \in Nat /\ new.name[2] < Cardinality(used')
  BY <1>1, <1>2, UsedIsFinite
<1>5. \A u \in Template!Live \ {t} : shelf[u].name # new.name
  BY <1>2
<1>6. \A g \in Editors \ {h} : (Template!Busy(g) /\ Updating(editor[g]) /\ editor[g].id = t) => t \in torn
  BY <1>1, <1>3
<1> QED BY <1>1, <1>2, <1>4, <1>5, <1>6, TemplateStoreOK

-----------------------------------------------------------------------------
LEMMA RequestServed ==
    ASSUME TemplatesInv, NEW h \in Editors, NEW op, NEW at, Template!Doing(h, op, at)
    PROVE  /\ Served(editor[h]) /\ editor[h].op = op /\ editor[h].at = at
           /\ op # "create" => editor[h].id \in Slots
           /\ op = "create" => Template!IsDto(editor[h].dto, op)
           /\ op = "update" => Template!IsDto(editor[h].dto, op)
BY DEF TemplatesInv, EditorsOK, Served, Template!Doing, Template!IsRequest

LEMMA TemplateCreateOK ==
    ASSUME TemplatesInv, NEW h \in Editors, Template!Create(h) PROVE TemplatesInv'
<1> DEFINE d == editor[h].dto
<1>1. Template!Done(h) /\ UNCHANGED <<edits, torn>>
  BY DEF Template!Create
<1>2. d.name[2] = 0 /\ d.type \in Template!Types /\ Template!IsBody(d.body)
  BY RequestServed DEF Template!Create, Template!IsDto
<1>3. CASE Template!NameTaken(d.name, None)
  BY <1>1, <1>3, TemplateDoneOK DEF Template!Create
<1>4. CASE ~Template!NameTaken(d.name, None)
  <2>1. Template!StoreNew(d.name, d.type, d.body)
    BY <1>4 DEF Template!Create
  <2>2. \A u \in Template!Live : shelf[u].name # d.name
    BY <1>4, RecordsAssumption DEF Template!NameTaken, Template!Live, Template!ShelvesOK
  <2>3. d.name[2] \in Nat /\ d.name[2] <= Cardinality(used)
    BY <1>2, UsedIsFinite
  <2> HIDE DEF d
  <2> QED BY <1>1, <1>2, <2>1, <2>2, <2>3, StoreNewOK
<1> QED BY <1>3, <1>4

LEMMA DuplicateOK ==
    ASSUME TemplatesInv, NEW h \in Editors, Template!Duplicate(h) PROVE TemplatesInv'
<1> DEFINE src == editor[h].existing
           name == <<src.name[1], Cardinality(used)>>
<1>1. Template!Done(h) /\ UNCHANGED <<edits, torn>> /\ Template!StoreNew(name, src.type, src.body)
  BY TemplateSets DEF Template!Duplicate
<1>2. Sound(src)
  BY RequestServed DEF Template!Duplicate, Served
<1>3. src.type \in Template!Types /\ Template!IsBody(src.body)
  BY <1>2 DEF Sound
<1>4. name[2] = Cardinality(used) /\ Cardinality(used) \in Nat
  BY UsedIsFinite
<1>5. name[2] \in Nat /\ name[2] <= Cardinality(used)
  BY <1>4
<1>6. \A u \in Template!Live : shelf[u].name # name
  <2>1. \A u \in Template!Live : shelf[u].name[2] \in Nat /\ shelf[u].name[2] < Cardinality(used)
    BY DEF TemplatesInv, ShelfOK
  <2> HIDE DEF name
  <2> QED BY <1>4, <2>1
<1> HIDE DEF name, src
<1> QED BY <1>1, <1>3, <1>5, <1>6, StoreNewOK

LEMMA RemoveTemplateOK ==
    ASSUME TemplatesInv, NEW h \in Editors, Template!RemoveTemplate(h) PROVE TemplatesInv'
<1> DEFINE t == editor[h].id
           new == None
<1>1. Template!Done(h) /\ UNCHANGED <<used, edits, torn>>
  BY DEF Template!RemoveTemplate
<1>2. t \in Slots /\ t \in used
  BY RequestServed DEF Template!RemoveTemplate, Served
<1>3. shelf' = [shelf EXCEPT ![t] = new] /\ used' = used \cup {t}
  BY <1>2 DEF Template!RemoveTemplate
<1>4. new = None
  OBVIOUS
<1> HIDE DEF new, t
<1> QED BY <1>1, <1>2, <1>3, <1>4, TemplateStoreOK

LEMMA FindOneOK ==
    ASSUME TemplatesInv, NEW h \in Editors, Template!FindOne(h) PROVE TemplatesInv'
<1> DEFINE t == editor[h].id
           at == IF editor[h].op = "update" THEN "begin" ELSE "write"
           r == [editor[h] EXCEPT !.at = at, !.existing = shelf[t]]
           others == {u \in {t} : editor[h].op = "update" /\ \E g \in Editors \ {h} :
                         Template!Busy(g) /\ editor[g].op = "update" /\ editor[g].id = u
                         /\ editor[g].at # "read"}
<1>1. Served(editor[h]) /\ editor[h].op # "create" /\ t \in Slots /\ UNCHANGED <<shelf, used, edits>>
  BY DEF Template!FindOne, TemplatesInv, EditorsOK, Served, Template!IsRequest
<1>2. CASE shelf[t] = None
  BY <1>1, <1>2, TemplateDoneOK DEF Template!FindOne
<1>3. CASE shelf[t] # None
  <2>1. editor' = [editor EXCEPT ![h] = r] /\ torn' = torn \cup others
    BY <1>3 DEF Template!FindOne
  <2>2. t \in Template!Live /\ Sound(shelf[t]) /\ t \in used
    BY <1>1, <1>3 DEF Template!Live, TemplatesInv, ShelfOK
  <2>3. /\ r.op = editor[h].op /\ r.id = t /\ r.dto = editor[h].dto /\ r.at = at
        /\ r.existing = shelf[t] /\ DOMAIN r = DOMAIN editor[h]
    BY <1>1 DEF Served
  <2>4. torn \subseteq torn' /\ torn' \subseteq Slots
    BY <1>1, <2>1 DEF TemplatesInv, ShelfOK
  <2> HIDE DEF r
  <2>5. Served(r)
    <3>1. Template!IsRequest(r)
      BY <1>1, <2>3 DEF Served, Template!IsRequest
    <3> QED BY <1>1, <2>2, <2>3, <3>1 DEF Served
  <2>6. Current(r)
    BY <2>3 DEF Current, Updating
  <2>7. ASSUME NEW g \in Editors \ {h}, Template!Busy(g), Updating(editor[g]), Updating(r), editor[g].id = r.id
        PROVE  r.id \in torn'
    BY <2>1, <2>3, <2>7 DEF Updating
  <2>8. editor' = [editor EXCEPT ![h] = r]
    BY <2>1
  <2> HIDE DEF t
  <2> QED BY <1>1, <2>4, <2>5, <2>6, <2>7, <2>8, TemplateHandlerMoves
<1> QED BY <1>2, <1>3

LEMMA DeleteVariablesOK ==
    ASSUME TemplatesInv, NEW h \in Editors, Template!DeleteVariables(h) PROVE TemplatesInv'
<1> DEFINE t == editor[h].id
           deleted == IF Template!bodyChanged(h) /\ t \in Template!Live
                      THEN shelf[t].edition ELSE 0
           r == [editor[h] EXCEPT !.at = "write", !.deleted = deleted]
<1>1. /\ Served(editor[h]) /\ editor[h].op = "update" /\ editor[h].at = "begin"
      /\ Template!Busy(h) /\ Current(editor[h])
  BY RequestServed DEF Template!DeleteVariables, Template!Doing, TemplatesInv, EditorsOK
<1>2. editor' = [editor EXCEPT ![h] = r] /\ UNCHANGED <<shelf, used, edits, torn>>
  BY DEF Template!DeleteVariables
<1>3. /\ r.op = "update" /\ r.id = t /\ r.dto = editor[h].dto /\ r.at = "write"
      /\ r.existing = editor[h].existing /\ r.deleted = deleted /\ DOMAIN r = DOMAIN editor[h]
  BY <1>1 DEF Served
<1> HIDE DEF r
<1>4. Served(r)
  <2>1. Template!IsRequest(r)
    BY <1>1, <1>3 DEF Served, Template!IsRequest
  <2> QED BY <1>1, <1>3, <2>1 DEF Served
<1>5. Current(r)
  BY <1>1, <1>3 DEF Current, Updating, Template!bodyChanged
<1>6. ASSUME NEW g \in Editors \ {h}, Template!Busy(g), Updating(editor[g]), editor[g].id = r.id
      PROVE  r.id \in torn'
  BY <1>1, <1>2, <1>3, <1>6 DEF Updating, TemplatesInv, OneUpdate
<1>7. torn' \subseteq Slots /\ torn \subseteq torn' /\ edits' \subseteq edits
  BY <1>2 DEF TemplatesInv, ShelfOK
<1> HIDE DEF t, deleted
<1> QED BY <1>2, <1>4, <1>5, <1>6, <1>7, TemplateHandlerMoves

LEMMA UpdateOK ==
    ASSUME TemplatesInv, NEW h \in Editors, Template!Update(h) PROVE TemplatesInv'
<1> DEFINE t == editor[h].id
           d == editor[h].dto
           was == editor[h].existing
           now == shelf[t]
           changed == Template!bodyChanged(h)
           kept == IF editor[h].deleted = now.edition THEN {} ELSE now.rows
           written == IF changed THEN Template!parseBody(d.body) ELSE {}
           clash == \E r \in kept, s \in written : r.position = s.position
           new == [name |-> Template!Given(d.name, now.name), type |-> Template!Given(d.type, now.type),
                   body |-> Template!Given(d.body, now.body),
                   edition |-> now.edition + (IF changed THEN 1 ELSE 0),
                   bodyCompiled |-> IF d.body = None THEN now.bodyCompiled
                                    ELSE Template!Compiled(Template!Given(d.type, was.type), d.body),
                   rows |-> kept \cup written]
<1>1. /\ Served(editor[h]) /\ editor[h].op = "update" /\ editor[h].at = "write"
      /\ t \in Slots /\ t \in used /\ Template!IsDto(d, "update")
      /\ Template!Busy(h) /\ Current(editor[h])
  BY RequestServed DEF Template!Update, Template!Doing, Served, TemplatesInv, EditorsOK
<1>2. Template!Done(h) /\ UNCHANGED <<used, edits, torn>>
  BY DEF Template!Update
<1>3. shelf' = IF now = None \/ Template!NameTaken(d.name, t) \/ clash THEN shelf
               ELSE [shelf EXCEPT ![t] = new]
  BY DEF Template!Update
<1>4. CASE now = None \/ Template!NameTaken(d.name, t) \/ clash
  BY <1>2, <1>3, <1>4, TemplateDoneOK
<1>5. CASE ~(now = None \/ Template!NameTaken(d.name, t) \/ clash)
  <2>1. shelf' = [shelf EXCEPT ![t] = new] /\ t \in Template!Live
    BY <1>1, <1>3, <1>5 DEF Template!Live
  <2>2. /\ Sound(now) /\ now.name[2] \in Nat /\ now.name[2] < Cardinality(used)
        /\ t \notin torn => Whole(now)
        /\ \A u \in Template!Live \ {t} : shelf[u].name # now.name
    BY <2>1 DEF TemplatesInv, ShelfOK
  <2>3. \A r \in written : r.position \in Nat \ {0} /\ r.label # Blank
    <3>1. changed => Template!IsBody(d.body)
      BY <1>1 DEF Template!IsDto, Template!bodyChanged
    <3> QED BY <3>1, ParseIsGapless
  <2>4. \A r \in kept : r.position \in Nat \ {0} /\ r.label # Blank
    BY <2>2 DEF Sound
  <2>5. t \notin torn => kept \cup written = Template!parseBody(Template!Given(d.body, now.body))
    BY <1>1, <2>1, <2>2 DEF Current, Updating, Whole, Sound, Template!bodyChanged, Template!Given
  <2> HIDE DEF kept, written, clash
  <2>6. /\ new.name = Template!Given(d.name, now.name) /\ new.rows = kept \cup written
        /\ new.body = Template!Given(d.body, now.body) /\ new.type = Template!Given(d.type, now.type)
        /\ new.edition = now.edition + (IF changed THEN 1 ELSE 0)
        /\ new.bodyCompiled = IF d.body = None THEN now.bodyCompiled
                              ELSE Template!Compiled(Template!Given(d.type, was.type), d.body)
    OBVIOUS
  <2> HIDE DEF new
  <2>7. Sound(new)
    <3>1. new.type \in Template!Types /\ Template!IsBody(new.body)
      BY <1>1, <2>2, <2>6 DEF Sound, Template!Given, Template!IsDto
    <3>2. new.bodyCompiled # None => new.bodyCompiled = Template!compileBody(new.body)
      BY <2>2, <2>6 DEF Sound, Template!Given, Template!Compiled
    <3>3. new.edition \in Nat \ {0}
      <4>1. now.edition \in Nat \ {0}
        BY <2>2 DEF Sound
      <4> HIDE DEF changed, now
      <4> QED BY <2>6, <4>1
    <3>4. \A r \in new.rows : r.position \in Nat \ {0} /\ r.label # Blank
      BY <2>3, <2>4, <2>6
    <3> QED BY <3>1, <3>2, <3>3, <3>4 DEF Sound
  <2>8. t \notin torn => Whole(new)
    BY <2>5, <2>6 DEF Whole
  <2>9. new.name[2] \in Nat /\ new.name[2] < Cardinality(used)
    <3>1. d.name # None => d.name[2] = 0
      BY <1>1 DEF Template!IsDto
    <3>2. 0 < Cardinality(used)
      BY <1>1, UsedIsFinite
    <3>3. CASE d.name = None
      BY <2>2, <2>6, <3>3 DEF Template!Given
    <3>4. CASE d.name # None
      BY <2>6, <3>1, <3>2, <3>4 DEF Template!Given
    <3> QED BY <3>3, <3>4
  <2>10. \A u \in Template!Live \ {t} : shelf[u].name # new.name
    BY <1>5, <2>2, <2>6 DEF Template!Given, Template!NameTaken
  <2>11. \A g \in Editors \ {h} : (Template!Busy(g) /\ Updating(editor[g]) /\ editor[g].id = t) => t \in torn
    BY <1>1 DEF Updating, TemplatesInv, OneUpdate
  <2>12. used' = used \cup {t} /\ used' = used
    BY <1>1, <1>2
  <2> HIDE DEF t
  <2> QED BY <1>1, <1>2, <2>1, <2>7, <2>8, <2>9, <2>10, <2>11, <2>12, TemplateStoreOK
<1> QED BY <1>4, <1>5

LEMMA TemplatesInitOK == Template!Init => TemplatesInv
<1> SUFFICES ASSUME Template!Init PROVE TemplatesInv
  OBVIOUS
<1>1. PICK s \in Shelves :
        /\ shelf = [t \in Slots |->
               IF t \notin DOMAIN s.stored THEN None
               ELSE Template!Template(s.stored[t].name, s.stored[t].type, s.stored[t].body)]
        /\ used = DOMAIN s.stored
        /\ edits = s.todo
        /\ torn = {}
        /\ editor = [h \in Editors |-> Template!Free]
  BY DEF Template!Init
<1>2. /\ IsFiniteSet(Slots) /\ DOMAIN s.stored \subseteq Slots
      /\ \A t \in DOMAIN s.stored : Template!IsDto(s.stored[t], "create")
      /\ \A t, u \in DOMAIN s.stored : s.stored[t].name = s.stored[u].name => t = u
      /\ \A q \in s.todo : Template!IsRequest(q)
  BY RecordsAssumption, TemplateSets DEF Template!ShelvesOK
<1>3. Template!Live \subseteq used
  BY <1>1 DEF Template!Live
<1>4. ASSUME NEW t \in Template!Live
      PROVE  /\ Sound(shelf[t]) /\ Whole(shelf[t])
             /\ shelf[t].name = s.stored[t].name /\ shelf[t].name[2] = 0
  <2> DEFINE x == s.stored[t]
  <2>1. t \in DOMAIN s.stored /\ shelf[t] = Template!Template(x.name, x.type, x.body)
    BY <1>1, <1>2, <1>3
  <2>2. x.name[2] = 0 /\ x.type \in Template!Types /\ Template!IsBody(x.body)
    BY <1>2, <2>1 DEF Template!IsDto
  <2> QED BY <2>1, <2>2, NewIsSound
<1>5. \A t \in Template!Live : 0 < Cardinality(used) /\ 0 \in Nat
  <2>1. IsFiniteSet(used)
    BY <1>1, <1>2, FS_Subset
  <2>2. Cardinality(used) \in Nat /\ (used # {} => Cardinality(used) # 0)
    BY <2>1, FS_CardinalityType, FS_EmptySet
  <2> QED BY <1>3, <2>2
<1>6. ShelfOK
  <2>1. shelf = [t \in Slots |-> shelf[t]] /\ editor = [h \in Editors |-> editor[h]]
    BY <1>1
  <2>2. \A t, u \in Template!Live : shelf[t].name = shelf[u].name => t = u
    BY <1>1, <1>2, <1>3, <1>4
  <2> QED BY <1>1, <1>2, <1>3, <1>4, <1>5, <2>1, <2>2 DEF ShelfOK
<1>7. EditorsOK /\ OneUpdate
  BY <1>1 DEF EditorsOK, OneUpdate, Template!Busy
<1> QED BY <1>6, <1>7 DEF TemplatesInv

LEMMA TemplatesStepOK == TemplatesInv /\ [Template!Next]_(Template!vars) => TemplatesInv'
<1> SUFFICES ASSUME TemplatesInv, [Template!Next]_(Template!vars) PROVE TemplatesInv'
  OBVIOUS
<1>1. CASE UNCHANGED Template!vars
  <2>1. UNCHANGED <<shelf, used, editor, edits, torn>>
    BY <1>1 DEF Template!vars
  <2>2. ShelfOK'
    BY <2>1 DEF TemplatesInv, ShelfOK, Sound, Whole, Template!Live, Template!IsRequest, Template!IsDto
  <2>3. EditorsOK'
    BY <2>1 DEF TemplatesInv, EditorsOK, Served, Current, Updating, Sound, Template!Live,
                Template!Busy, Template!IsRequest, Template!IsDto
  <2>4. OneUpdate'
    BY <2>1 DEF TemplatesInv, OneUpdate, Updating, Template!Busy
  <2> QED BY <2>2, <2>3, <2>4 DEF TemplatesInv
<1>2. ASSUME NEW h \in Editors, Template!Begin(h) PROVE TemplatesInv'
  BY <1>2, TemplateBeginOK
<1>3. ASSUME NEW h \in Editors, Template!Create(h) PROVE TemplatesInv'
  BY <1>3, TemplateCreateOK
<1>4. ASSUME NEW h \in Editors, Template!FindOne(h) PROVE TemplatesInv'
  BY <1>4, FindOneOK
<1>5. ASSUME NEW h \in Editors, Template!DeleteVariables(h) PROVE TemplatesInv'
  BY <1>5, DeleteVariablesOK
<1>6. ASSUME NEW h \in Editors, Template!Update(h) PROVE TemplatesInv'
  BY <1>6, UpdateOK
<1>7. ASSUME NEW h \in Editors, Template!RemoveTemplate(h) PROVE TemplatesInv'
  BY <1>7, RemoveTemplateOK
<1>8. ASSUME NEW h \in Editors, Template!Duplicate(h) PROVE TemplatesInv'
  BY <1>8, DuplicateOK
<1> QED BY <1>1, <1>2, <1>3, <1>4, <1>5, <1>6, <1>7, <1>8 DEF Template!Next

(* Whatever templates are created, changed, copied and removed by however  *)
(* many handlers in whatever order, the rows of a template no two updates  *)
(* of which overlapped are the variables of its body, without a gap, and   *)
(* the body compiled for WhatsApp points at the row of each marker         *)
(* (TemplateService).                                                      *)
THEOREM PlaceholdersStayFilled == Template!Spec => []PlaceholdersFilled
<1>1. Template!Init => TemplatesInv
  BY TemplatesInitOK
<1>2. TemplatesInv /\ [Template!Next]_(Template!vars) => TemplatesInv'
  BY TemplatesStepOK
<1>3. TemplatesInv => PlaceholdersFilled
  BY TemplatesAreFilled
<1> QED BY <1>1, <1>2, <1>3, PTL DEF Template!Spec

(* Names stay unique, ids are not used again and a row has a position and  *)
(* a label.                                                                *)
THEOREM TemplatesStayTyped == Template!Spec => []Template!TemplatesTypeOK
<1>1. Template!Init => TemplatesInv
  BY TemplatesInitOK
<1>2. TemplatesInv /\ [Template!Next]_(Template!vars) => TemplatesInv'
  BY TemplatesStepOK
<1>3. TemplatesInv => Template!TemplatesTypeOK
  BY TemplateTypes
<1> QED BY <1>1, <1>2, <1>3, PTL DEF Template!Spec
=============================================================================
