----------------------------- MODULE ChatProofs -----------------------------
(***************************************************************************)
(* Proofs about the parts of Screens that show the team chat: ticks, the   *)
(* socket of a tab, a message, and the window.  A section for each part:   *)
(* what it keeps, a lemma for each kind of step, and the theorems.         *)
(***************************************************************************)
EXTENDS Screens, FiniteSetTheorems, WellFoundedInduction, TLAPS

-----------------------------------------------------------------------------
(* That a tick is earned, for any number of members, windows and handlers. *)
(* Neither the order in which receipts arrive nor the marks that go back   *)
(* matter: what has been computed once stays true of the best marks, as    *)
(* long as a member counts from the moment it was added.                   *)


TicksTyped == Ticks!ChatReceiptsTypeOK /\ IsFiniteSet(posts)

(* Nothing is stamped in the future, and nobody's mark is better than the  *)
(* best that was written.                                                  *)
MarksAreDated ==
    /\ \A c \in handling : c.at <= clock
    /\ \A u \in Users :
        /\ marks[u].read <= clock /\ marks[u].delivered <= clock
        /\ marks[u].read <= best[u].read /\ marks[u].delivered <= best[u].delivered

Earned(r) ==
    /\ r.read <= clock /\ r.delivered <= clock
    /\ \A v \in members :
        /\ since[v] < r.read => r.read <= best[v].read
        /\ since[v] < r.delivered => r.delivered <= best[v].delivered

(* Receipts that were computed, are on their way or are shown.             *)
CallsEarned == \A c \in handling : Earned(c.got)
EventsEarned ==
    \A u \in Users : \A i \in DOMAIN downward[u] :
        downward[u][i].kind = "receipts" => Earned(downward[u][i].receipts)
ViewsEarned == \A u \in Users : Earned(view[u].receipts)

TicksInv == TicksTyped /\ MarksAreDated /\ CallsEarned /\ EventsEarned /\ ViewsEarned

-----------------------------------------------------------------------------
LEMMA ReceiptsFields ==
    ASSUME NEW r \in Ticks!Receipts
    PROVE  r.read \in Ticks!Times /\ r.delivered \in Ticks!Times
BY DEF Ticks!Receipts

LEMMA NothingIsReceipts == ASSUME Ticks!EveningsOfUsers PROVE Ticks!NoReceipts \in Ticks!Receipts
BY DEF Ticks!EveningsOfUsers, Ticks!NoReceipts, Ticks!Receipts, Ticks!Times

LEMMA CallFields ==
    ASSUME NEW c \in Ticks!Call
    PROVE  /\ c.op \in {"meta", "send", "join", "read", "delivered", "kick"}
           /\ c.who \in Users /\ c.pc \in Ticks!Places /\ c.at \in Ticks!Times
           /\ c.got \in Ticks!Receipts /\ c.n \in Nat
BY DEF Ticks!Call

(* What has been earned stays earned while the clock and the best marks    *)
(* only advance and whoever is a member anew is one from now on.           *)
OnlyAdvances ==
    /\ clock <= clock'
    /\ \A u \in Users : best[u].read <= best'[u].read /\ best[u].delivered <= best'[u].delivered
    /\ \A v \in members' : (v \in members /\ since'[v] = since[v]) \/ since'[v] = clock

LEMMA EarnedStays ==
    ASSUME Ticks!EveningsOfUsers, TicksTyped, TicksTyped', OnlyAdvances, NEW r \in Ticks!Receipts, Earned(r)
    PROVE  Earned(r)'
<1>1. r.read \in Int /\ r.delivered \in Int /\ clock \in Int /\ clock' \in Int
  BY ReceiptsFields DEF TicksTyped, Ticks!ChatReceiptsTypeOK, Ticks!Times, Ticks!EveningsOfUsers
<1>2. r.read <= clock' /\ r.delivered <= clock'
  BY <1>1 DEF Earned, OnlyAdvances
<1>3. ASSUME NEW v \in members'
      PROVE  /\ since'[v] < r.read => r.read <= best'[v].read
             /\ since'[v] < r.delivered => r.delivered <= best'[v].delivered
  <2>1. v \in Users
    BY DEF TicksTyped, Ticks!ChatReceiptsTypeOK
  <2>2. best[v] \in Ticks!Receipts /\ best'[v] \in Ticks!Receipts /\ since'[v] \in Ticks!Times
    BY <2>1 DEF TicksTyped, Ticks!ChatReceiptsTypeOK
  <2>3. /\ best[v].read \in Int /\ best'[v].read \in Int
        /\ best[v].delivered \in Int /\ best'[v].delivered \in Int /\ since'[v] \in Int
    BY <2>2, ReceiptsFields DEF Ticks!Times, Ticks!EveningsOfUsers
  <2>4. best[v].read <= best'[v].read /\ best[v].delivered <= best'[v].delivered
    BY <2>1 DEF OnlyAdvances
  <2>5. CASE since'[v] = clock
    BY <1>1, <2>3, <2>5 DEF Earned
  <2>6. CASE v \in members /\ since'[v] = since[v]
    BY <1>1, <2>3, <2>4, <2>6 DEF Earned
  <2> QED BY <1>3, <2>5, <2>6 DEF OnlyAdvances
<1> QED BY <1>2, <1>3 DEF Earned

LEMMA NoneIsEarned == ASSUME Ticks!EveningsOfUsers, TicksTyped PROVE Earned(Ticks!NoReceipts)
BY DEF Ticks!EveningsOfUsers, TicksTyped, Ticks!ChatReceiptsTypeOK, Ticks!Times, Earned, Ticks!NoReceipts

(* What a step may do to each part of the invariant.                       *)
CallsFollow ==
    \A c \in handling' :
        /\ c.at <= clock'
        /\ c.got = Ticks!NoReceipts \/ Earned(c.got)' \/ \E d \in handling : c.got = d.got
MarksFollow ==
    \A u \in Users :
        /\ marks'[u].read <= clock' /\ marks'[u].delivered <= clock'
        /\ marks'[u].read <= best'[u].read /\ marks'[u].delivered <= best'[u].delivered
EventsFollow ==
    \A u \in Users : \A i \in DOMAIN downward'[u] : downward'[u][i].kind = "receipts" =>
        \/ Earned(downward[u][i].receipts)'
        \/ \E j \in DOMAIN downward[u] : downward'[u][i] = downward[u][j]
ViewsFollow ==
    \A u \in Users : Earned(view[u].receipts)' \/ view'[u].receipts = view[u].receipts

LEMMA EventFields ==
    ASSUME TicksTyped, NEW u \in Users, NEW i \in DOMAIN downward[u],
           downward[u][i].kind = "receipts"
    PROVE  downward[u][i].receipts \in Ticks!Receipts
<1>1. downward[u] \in Seq(Ticks!Event)
  BY DEF TicksTyped, Ticks!ChatReceiptsTypeOK
<1>2. downward[u][i] \in Ticks!Event
  BY <1>1
<1> QED BY <1>2 DEF Ticks!Event

LEMMA Follows ==
    ASSUME Ticks!EveningsOfUsers, TicksInv, TicksTyped', OnlyAdvances,
           CallsFollow, MarksFollow, EventsFollow, ViewsFollow
    PROVE  TicksInv'
<1>1. MarksAreDated'
  BY DEF CallsFollow, MarksFollow, MarksAreDated
<1>2. CallsEarned'
  <2> SUFFICES ASSUME NEW c \in handling' PROVE Earned(c.got)'
    BY DEF CallsEarned
  <2>1. CASE c.got = Ticks!NoReceipts
    <3>1. Earned(Ticks!NoReceipts)
      BY NoneIsEarned DEF TicksInv
    <3>2. Earned(Ticks!NoReceipts)'
      BY <3>1, EarnedStays, NothingIsReceipts DEF TicksInv
    <3> QED BY <2>1, <3>2 DEF Earned
  <2>2. ASSUME NEW d \in handling, c.got = d.got PROVE Earned(c.got)'
    <3>1. d.got \in Ticks!Receipts /\ Earned(d.got)
      BY CallFields DEF TicksInv, TicksTyped, Ticks!ChatReceiptsTypeOK, CallsEarned
    <3>2. Earned(d.got)'
      BY <3>1, EarnedStays DEF TicksInv
    <3> QED BY <2>2, <3>2 DEF Earned
  <2> QED BY <2>1, <2>2 DEF CallsFollow
<1>3. EventsEarned'
  <2> SUFFICES ASSUME NEW u \in Users, NEW i \in DOMAIN downward'[u],
                      downward'[u][i].kind = "receipts"
               PROVE  Earned(downward[u][i].receipts)'
    BY DEF EventsEarned
  <2>1. ASSUME NEW j \in DOMAIN downward[u], downward'[u][i] = downward[u][j]
        PROVE  Earned(downward[u][i].receipts)'
    <3>1. PICK r \in Ticks!Receipts : r = downward[u][j].receipts
      BY <2>1, EventFields DEF TicksInv
    <3>2. Earned(r)
      BY <2>1, <3>1 DEF TicksInv, EventsEarned, Earned
    <3>3. Earned(r)'
      BY <3>2, EarnedStays DEF TicksInv
    <3> QED BY <2>1, <3>1, <3>3
  <2> QED BY <2>1 DEF EventsFollow
<1>4. ViewsEarned'
  <2> SUFFICES ASSUME NEW u \in Users PROVE Earned(view[u].receipts)'
    BY DEF ViewsEarned
  <2>1. CASE view'[u].receipts = view[u].receipts
    <3>1. PICK r \in Ticks!Receipts : r = view[u].receipts
      BY DEF TicksInv, TicksTyped, Ticks!ChatReceiptsTypeOK
    <3>2. Earned(r)
      BY <3>1 DEF TicksInv, ViewsEarned, Earned
    <3>3. Earned(r)'
      BY <3>2, EarnedStays DEF TicksInv
    <3> QED BY <2>1, <3>1, <3>3
  <2> QED BY <2>1 DEF ViewsFollow
<1> QED BY <1>1, <1>2, <1>3, <1>4 DEF TicksInv

(* The parts of a step that leaves the marks, the events or the windows    *)
(* alone.                                                                  *)
LEMMA StillMembers ==
    ASSUME Ticks!EveningsOfUsers, TicksInv, UNCHANGED <<clock, best, members, since>>
    PROVE  OnlyAdvances
<1>1. clock \in Int /\ \A u \in Users : best[u].read \in Int /\ best[u].delivered \in Int
  BY ReceiptsFields DEF TicksInv, TicksTyped, Ticks!ChatReceiptsTypeOK, Ticks!Times, Ticks!EveningsOfUsers
<1> QED BY <1>1 DEF OnlyAdvances

LEMMA SameMarks == ASSUME TicksInv, UNCHANGED <<clock, marks, best>> PROVE MarksFollow
BY DEF TicksInv, MarksAreDated, MarksFollow

LEMMA SameEvents == ASSUME UNCHANGED downward PROVE EventsFollow
BY DEF EventsFollow

LEMMA SameViews == ASSUME UNCHANGED view PROVE ViewsFollow
BY DEF ViewsFollow

LEMMA HandlersAlone ==
    ASSUME Ticks!EveningsOfUsers, TicksInv, TicksTyped', CallsFollow,
           UNCHANGED <<clock, members, since, marks, best, downward, view>>
    PROVE  TicksInv'
BY Follows, StillMembers, SameMarks, SameEvents, SameViews

-----------------------------------------------------------------------------
(* Handlers that start, go on and end.                                     *)
LEMMA HandlersAre ==
    ASSUME TicksInv
    PROVE  /\ handling \subseteq Ticks!Call
           /\ \A c \in handling : c.at <= clock
BY DEF TicksInv, TicksTyped, Ticks!ChatReceiptsTypeOK, MarksAreDated

LEMMA BegunOK ==
    ASSUME Ticks!EveningsOfUsers, TicksInv, UNCHANGED clock, NEW u \in Users,
           NEW op \in {"meta", "send", "join", "read", "delivered", "kick"},
           NEW pc \in Ticks!Places, NEW at \in Ticks!Times, at <= clock, Ticks!Started(op, u, pc, at)
    PROVE  handling' \subseteq Ticks!Call /\ CallsFollow
<1>1. PICK n \in 0..Ticks!Cardinality(handling) : handling' = handling \cup
         {[op |-> op, who |-> u, pc |-> pc, at |-> at, got |-> Ticks!NoReceipts, n |-> n]}
  BY DEF Ticks!Started
<1>2. n \in Nat
  BY <1>1
<1> DEFINE d == [op |-> op, who |-> u, pc |-> pc, at |-> at, got |-> Ticks!NoReceipts, n |-> n]
<1>3. d \in Ticks!Call /\ d.at = at /\ d.got = Ticks!NoReceipts
  BY <1>2, NothingIsReceipts DEF Ticks!Call
<1> HIDE DEF d
<1>4. handling' = handling \cup {d}
  BY <1>1 DEF d
<1> QED BY <1>3, <1>4, HandlersAre DEF CallsFollow

LEMMA WentOn ==
    ASSUME TicksInv, UNCHANGED clock, NEW c \in handling, NEW d \in Ticks!Call,
           d.at <= clock, d.got = c.got, handling' = (handling \ {c}) \cup {d}
    PROVE  handling' \subseteq Ticks!Call /\ CallsFollow
BY HandlersAre DEF CallsFollow

LEMMA ToOK ==
    ASSUME TicksInv, UNCHANGED clock, NEW c \in handling, NEW pc \in Ticks!Places, Ticks!To(c, pc)
    PROVE  handling' \subseteq Ticks!Call /\ CallsFollow
<1> DEFINE d == [c EXCEPT !.pc = pc]
<1>1. c \in Ticks!Call /\ c.at <= clock
  BY HandlersAre
<1>2. d \in Ticks!Call /\ d.at = c.at /\ d.got = c.got
  BY <1>1 DEF Ticks!Call
<1>3. handling' = (handling \ {c}) \cup {d}
  BY DEF Ticks!To
<1> HIDE DEF d
<1> QED BY <1>1, <1>2, <1>3, WentOn

LEMMA DoneOK ==
    ASSUME TicksInv, UNCHANGED clock, NEW c \in handling, Ticks!Done(c)
    PROVE  handling' \subseteq Ticks!Call /\ CallsFollow
BY HandlersAre DEF CallsFollow, Ticks!Done

LEMMA SameCalls ==
    ASSUME TicksInv, UNCHANGED <<clock, handling>>
    PROVE  handling' \subseteq Ticks!Call /\ CallsFollow
BY HandlersAre DEF CallsFollow

LEMMA SpendOK ==
    ASSUME TicksTyped, NEW what \in Ticks!Works, Ticks!Spend(what)
    PROVE  evening' \in [Ticks!Works -> Nat]
BY DEF TicksTyped, Ticks!ChatReceiptsTypeOK, Ticks!Spend

-----------------------------------------------------------------------------
(* What is computed is earned when it is computed.                         *)
LEMMA ComputedIsEarned ==
    ASSUME Ticks!EveningsOfUsers, TicksInv, NEW r \in Ticks!Receipts, Ticks!RoomReceipts(r)
    PROVE  Earned(r)
<1>1. CASE Ticks!Cardinality(members) <= 1
  BY <1>1, NoneIsEarned DEF Ticks!RoomReceipts, TicksInv
<1>2. CASE ~(Ticks!Cardinality(members) <= 1)
  <2>1. /\ Ticks!MinWatermark({marks[u].read : u \in members}, r.read)
        /\ Ticks!MinWatermark({marks[u].delivered : u \in members}, r.delivered)
    BY <1>2 DEF Ticks!RoomReceipts
  <2>2. clock \in Nat /\ members \subseteq Users /\ since \in [Users -> Ticks!Times]
        /\ marks \in [Users -> Ticks!Receipts] /\ best \in [Users -> Ticks!Receipts]
    BY DEF TicksInv, TicksTyped, Ticks!ChatReceiptsTypeOK, Ticks!Times, Ticks!EveningsOfUsers
  <2>3. \A v \in members : /\ marks[v].read \in Nat /\ best[v].read \in Nat
                           /\ marks[v].delivered \in Nat /\ best[v].delivered \in Nat
                           /\ since[v] \in Nat
                           /\ marks[v].read <= best[v].read /\ marks[v].read <= clock
                           /\ marks[v].delivered <= best[v].delivered /\ marks[v].delivered <= clock
    <3> SUFFICES ASSUME NEW v \in members
                 PROVE  /\ marks[v].read \in Nat /\ best[v].read \in Nat
                        /\ marks[v].delivered \in Nat /\ best[v].delivered \in Nat
                        /\ since[v] \in Nat
                        /\ marks[v].read <= best[v].read /\ marks[v].read <= clock
                        /\ marks[v].delivered <= best[v].delivered /\ marks[v].delivered <= clock
      OBVIOUS
    <3>1. marks[v] \in Ticks!Receipts /\ best[v] \in Ticks!Receipts /\ since[v] \in Ticks!Times /\ v \in Users
      BY <2>2
    <3> QED BY <3>1, ReceiptsFields DEF Ticks!Times, TicksInv, MarksAreDated, Ticks!EveningsOfUsers
  <2>4. r.read \in Nat /\ r.delivered \in Nat
    BY ReceiptsFields DEF Ticks!Times, Ticks!EveningsOfUsers
  <2>5. r.read = 0 \/ /\ \A v \in members : r.read <= marks[v].read
                      /\ r.read \in {marks[u].read : u \in members}
    BY <2>1, <2>4 DEF Ticks!MinWatermark
  <2>6. r.delivered = 0 \/ /\ \A v \in members : r.delivered <= marks[v].delivered
                           /\ r.delivered \in {marks[u].delivered : u \in members}
    BY <2>1, <2>4 DEF Ticks!MinWatermark
  <2>7. r.read <= clock /\ \A v \in members : since[v] < r.read => r.read <= best[v].read
    BY <2>2, <2>3, <2>4, <2>5
  <2>8. r.delivered <= clock
        /\ \A v \in members : since[v] < r.delivered => r.delivered <= best[v].delivered
    BY <2>2, <2>3, <2>4, <2>6
  <2> QED BY <2>7, <2>8 DEF Earned
<1> QED BY <1>1, <1>2

(* Two marks that were stamped before and are written now.                 *)
LEMMA WrittenOK ==
    ASSUME Ticks!EveningsOfUsers, TicksInv, NEW u \in Users, NEW r \in Ticks!Times, NEW d \in Ticks!Times,
           r <= clock, d <= clock, Ticks!Written(u, r, d),
           UNCHANGED <<clock, members, since>>
    PROVE  /\ marks' \in [Users -> Ticks!Receipts] /\ best' \in [Users -> Ticks!Receipts]
           /\ OnlyAdvances /\ MarksFollow
<1> DEFINE new == [read |-> r, delivered |-> d]
           top == [best[u] EXCEPT !.read = Ticks!Later(@, r), !.delivered = Ticks!Later(@, d)]
<1>0. clock \in Int /\ marks \in [Users -> Ticks!Receipts] /\ best \in [Users -> Ticks!Receipts]
  BY DEF TicksInv, TicksTyped, Ticks!ChatReceiptsTypeOK, Ticks!Times
<1>1. new \in Ticks!Receipts /\ new.read = r /\ new.delivered = d
  BY DEF Ticks!Receipts
<1>2. best[u] \in Ticks!Receipts /\ best[u].read \in Ticks!Times /\ best[u].delivered \in Ticks!Times
  BY <1>0, ReceiptsFields
<1>3. PICK old \in Ticks!Receipts : old = best[u]
  BY <1>2
<1>4. [read |-> Ticks!Later(old.read, r), delivered |-> Ticks!Later(old.delivered, d)] \in Ticks!Receipts
  BY <1>2, <1>3 DEF Ticks!Receipts, Ticks!Later
<1>5. PICK better \in Ticks!Receipts :
         better = [read |-> Ticks!Later(old.read, r), delivered |-> Ticks!Later(old.delivered, d)]
  BY <1>4
<1>6. /\ better.read = Ticks!Later(old.read, r) /\ better.delivered = Ticks!Later(old.delivered, d)
  BY <1>5
<1>7. /\ old.read <= better.read /\ old.delivered <= better.delivered
      /\ r <= better.read /\ d <= better.delivered
  BY <1>2, <1>3, <1>6 DEF Ticks!Later, Ticks!Times
<1> HIDE DEF new
<1>8. marks' = [marks EXCEPT ![u] = new] /\ best' = [best EXCEPT ![u] = better]
  BY <1>3, <1>5 DEF Ticks!Written, new
<1>9. marks' \in [Users -> Ticks!Receipts] /\ best' \in [Users -> Ticks!Receipts]
  BY <1>0, <1>1, <1>8
<1>10. /\ \A v \in Users \ {u} : marks'[v] = marks[v] /\ best'[v] = best[v]
       /\ marks'[u] = new /\ best'[u] = better
  BY <1>0, <1>8
<1>11. \A v \in Users : best[v].read \in Int /\ best[v].delivered \in Int
  BY <1>0, ReceiptsFields DEF Ticks!Times
<1>12. OnlyAdvances
  BY <1>0, <1>3, <1>7, <1>10, <1>11 DEF OnlyAdvances
<1>13. MarksFollow
  BY <1>1, <1>7, <1>10 DEF MarksFollow, TicksInv, MarksAreDated
<1> QED BY <1>9, <1>12, <1>13

(* An event that goes to every socket in the room.                         *)
LEMMA HeardOK ==
    ASSUME Ticks!EveningsOfUsers, TicksTyped, NEW event \in Ticks!Event, Ticks!Pushed(event),
           event.kind = "receipts" => Earned(event.receipts)'
    PROVE  downward' \in [Users -> Seq(Ticks!Event)] /\ EventsFollow
<1>1. downward \in [Users -> Seq(Ticks!Event)]
  BY DEF TicksTyped, Ticks!ChatReceiptsTypeOK
<1>2. \A u \in Users : downward'[u] = IF u \in inside THEN Append(downward[u], event) ELSE downward[u]
  BY DEF Ticks!Pushed
<1>3. downward' \in [Users -> Seq(Ticks!Event)]
  BY <1>1 DEF Ticks!Pushed
<1>4. ASSUME NEW u \in Users, NEW i \in DOMAIN downward'[u],
             downward'[u][i].kind = "receipts"
      PROVE  \/ Earned(downward[u][i].receipts)'
             \/ \E j \in DOMAIN downward[u] : downward'[u][i] = downward[u][j]
  <2>1. CASE i \in DOMAIN downward[u]
    <3>1. PICK q \in Seq(Ticks!Event) : q = downward[u]
      BY <1>1
    <3>2. \A j \in DOMAIN q : Append(q, event)[j] = q[j]
      OBVIOUS
    <3>3. downward'[u][i] = downward[u][i]
      BY <1>2, <2>1, <3>1, <3>2
    <3> QED BY <2>1, <3>3
  <2>2. CASE i \notin DOMAIN downward[u]
    <3>1. PICK q \in Seq(Ticks!Event) : q = downward[u]
      BY <1>1
    <3>2. downward'[u] = Append(q, event)
      BY <1>2, <1>4, <2>2, <3>1
    <3>3. DOMAIN q = 1..Len(q) /\ DOMAIN Append(q, event) = 1..(Len(q) + 1)
          /\ Append(q, event)[Len(q) + 1] = event /\ Len(q) \in Nat
      OBVIOUS
    <3>4. i = Len(q) + 1
      BY <1>4, <2>2, <3>1, <3>2, <3>3
    <3>5. downward'[u][i] = event
      BY <3>2, <3>3, <3>4
    <3> QED BY <1>4, <3>5 DEF Earned
  <2> QED BY <2>1, <2>2
<1> QED BY <1>3, <1>4 DEF EventsFollow

-----------------------------------------------------------------------------
(* The steps, one by one.                                                  *)
LEMMA TypesAre ==
    ASSUME TicksInv
    PROVE  Ticks!ChatReceiptsTypeOK /\ IsFiniteSet(posts)
BY DEF TicksInv, TicksTyped

LEMMA TickStep == ASSUME Ticks!EveningsOfUsers, TicksInv, Ticks!Tick PROVE TicksInv'
<1>1. clock \in Nat /\ clock' \in Ticks!Times /\ clock <= clock'
  BY TypesAre DEF Ticks!Tick, Ticks!ChatReceiptsTypeOK, Ticks!Times, Ticks!EveningsOfUsers
<1>2. TicksTyped'
  BY <1>1, TypesAre DEF Ticks!Tick, TicksTyped, Ticks!ChatReceiptsTypeOK
<1>3. \A u \in Users : /\ best[u].read \in Int /\ best[u].delivered \in Int
                       /\ marks[u].read \in Int /\ marks[u].delivered \in Int
  BY TypesAre, ReceiptsFields DEF Ticks!ChatReceiptsTypeOK, Ticks!Times
<1>4. OnlyAdvances
  BY <1>1, <1>3 DEF Ticks!Tick, OnlyAdvances
<1>5. CallsFollow
  <2> SUFFICES ASSUME NEW c \in handling PROVE c.at <= clock'
    BY DEF Ticks!Tick, CallsFollow
  <2>1. c.at \in Ticks!Times /\ c.at <= clock
    BY HandlersAre, CallFields
  <2>2. c.at \in Int
    BY <2>1 DEF Ticks!Times
  <2> QED BY <1>1, <2>1, <2>2 DEF Ticks!Times
<1>6. MarksFollow
  BY <1>1, <1>3 DEF Ticks!Tick, MarksFollow, TicksInv, MarksAreDated
<1>7. EventsFollow /\ ViewsFollow
  BY SameEvents, SameViews DEF Ticks!Tick
<1> QED BY <1>2, <1>4, <1>5, <1>6, <1>7, Follows

LEMMA ComputeStep ==
    ASSUME Ticks!EveningsOfUsers, TicksInv, NEW c \in handling, Ticks!ComputeRoomReceipts(c)
    PROVE  TicksInv'
<1>1. PICK r \in Ticks!Receipts :
        /\ Ticks!RoomReceipts(r)
        /\ handling' = (handling \ {c}) \cup {[c EXCEPT !.pc = "answer", !.got = r]}
  BY DEF Ticks!ComputeRoomReceipts
<1> DEFINE d == [c EXCEPT !.pc = "answer", !.got = r]
<1>2. c \in Ticks!Call /\ c.at <= clock
  BY HandlersAre
<1>3. d \in Ticks!Call /\ d.at = c.at /\ d.got = r
  BY <1>2 DEF Ticks!Call, Ticks!Places
<1>4. handling' = (handling \ {c}) \cup {d}
  BY <1>1
<1> HIDE DEF d
<1>5. UNCHANGED <<clock, members, since, marks, best, posts, inside, upward, downward, view, evening>>
  BY DEF Ticks!ComputeRoomReceipts
<1>6. Earned(r)
  BY <1>1, ComputedIsEarned
<1>7. Earned(r)'
  BY <1>5, <1>6 DEF Earned
<1>8. handling' \subseteq Ticks!Call
  BY <1>3, <1>4, HandlersAre
<1>9. TicksTyped'
  BY <1>5, <1>8, TypesAre DEF TicksTyped, Ticks!ChatReceiptsTypeOK
<1>10. CallsFollow
  <2> SUFFICES ASSUME NEW e \in handling'
               PROVE  /\ e.at <= clock'
                      /\ e.got = Ticks!NoReceipts \/ Earned(e.got)' \/ \E f \in handling : e.got = f.got
    BY DEF CallsFollow
  <2>1. CASE e \in handling
    BY <1>5, <2>1, HandlersAre
  <2>2. CASE e = d
    BY <1>2, <1>3, <1>5, <1>7, <2>2 DEF Earned
  <2> QED BY <1>4, <2>1, <2>2
<1> QED BY <1>5, <1>9, <1>10, HandlersAlone

LEMMA EmitStep ==
    ASSUME Ticks!EveningsOfUsers, TicksInv, NEW c \in handling, Ticks!EmitReceipts(c)
    PROVE  TicksInv'
<1> DEFINE event == [kind |-> "receipts", receipts |-> c.got]
<1>1. c.got \in Ticks!Receipts /\ Earned(c.got)
  BY HandlersAre, CallFields DEF TicksInv, CallsEarned
<1>2. PICK r \in Ticks!Receipts : r = c.got
  BY <1>1
<1>3. event \in Ticks!Event /\ event.receipts = r /\ event.kind = "receipts"
  BY <1>2 DEF Ticks!Event
<1> HIDE DEF event
<1>4. UNCHANGED <<clock, members, since, marks, best, posts, inside, upward, view, evening>>
      /\ Ticks!Pushed(event) /\ Ticks!Done(c)
  BY DEF Ticks!EmitReceipts, event
<1>5. handling' \subseteq Ticks!Call /\ CallsFollow
  BY <1>4, DoneOK
<1>6. Earned(event.receipts)'
  BY <1>1, <1>2, <1>3, <1>4 DEF Earned
<1>7. downward' \in [Users -> Seq(Ticks!Event)] /\ EventsFollow
  BY <1>3, <1>4, <1>6, HeardOK DEF TicksInv
<1>8. TicksTyped'
  BY <1>4, <1>5, <1>7, TypesAre DEF TicksTyped, Ticks!ChatReceiptsTypeOK
<1> QED BY <1>4, <1>5, <1>7, <1>8, Follows, StillMembers, SameMarks, SameViews

LEMMA MessageStep ==
    ASSUME Ticks!EveningsOfUsers, TicksInv, NEW c \in handling, Ticks!OnChatMessageCreated(c)
    PROVE  TicksInv'
<1> DEFINE event == [kind |-> "message", by |-> c.who]
<1>1. event \in Ticks!Event /\ event.kind # "receipts"
  BY HandlersAre, CallFields DEF Ticks!Event
<1> HIDE DEF event
<1>2. UNCHANGED <<clock, members, since, marks, best, posts, inside, upward, view, evening>>
      /\ Ticks!Pushed(event) /\ Ticks!Done(c)
  BY DEF Ticks!OnChatMessageCreated, event
<1>3. handling' \subseteq Ticks!Call /\ CallsFollow
  BY <1>2, DoneOK
<1>4. downward' \in [Users -> Seq(Ticks!Event)] /\ EventsFollow
  BY <1>1, <1>2, HeardOK DEF TicksInv
<1>5. TicksTyped'
  BY <1>2, <1>3, <1>4, TypesAre DEF TicksTyped, Ticks!ChatReceiptsTypeOK
<1> QED BY <1>2, <1>3, <1>4, <1>5, Follows, StillMembers, SameMarks, SameViews

LEMMA MarkStep ==
    ASSUME Ticks!EveningsOfUsers, TicksInv, NEW c \in handling, Ticks!Mark(c)
    PROVE  TicksInv'
<1>1. UNCHANGED <<clock, members, since, posts, inside, upward, downward, view, evening>>
      /\ Ticks!To(c, "compute")
  BY DEF Ticks!Mark
<1>2. handling' \subseteq Ticks!Call /\ CallsFollow
  BY <1>1, ToOK DEF Ticks!Places
<1>3. /\ marks' \in [Users -> Ticks!Receipts] /\ best' \in [Users -> Ticks!Receipts]
      /\ OnlyAdvances /\ MarksFollow
  <2>1. c.who \in Users /\ c.at \in Ticks!Times /\ c.at <= clock
    BY HandlersAre, CallFields
  <2>2. /\ marks[c.who].read \in Ticks!Times /\ marks[c.who].read <= clock
    BY <2>1, TypesAre, ReceiptsFields DEF Ticks!ChatReceiptsTypeOK, TicksInv, MarksAreDated
  <2>3. CASE UNCHANGED <<marks, best>>
    BY <1>1, <2>3, TypesAre, StillMembers, SameMarks DEF Ticks!ChatReceiptsTypeOK
  <2>4. CASE Ticks!Written(c.who, c.at, c.at)
    BY <1>1, <2>1, <2>4, WrittenOK
  <2>5. CASE Ticks!Written(c.who, marks[c.who].read, c.at)
    BY <1>1, <2>1, <2>2, <2>5, WrittenOK
  <2> QED BY <2>3, <2>4, <2>5 DEF Ticks!Mark, Ticks!MarkRead, Ticks!MarkDelivered
<1>4. TicksTyped'
  BY <1>1, <1>2, <1>3, TypesAre DEF TicksTyped, Ticks!ChatReceiptsTypeOK
<1> QED BY <1>1, <1>2, <1>3, <1>4, Follows, SameEvents, SameViews

LEMMA PostsCounted == Ticks!Cardinality(posts) = Cardinality(posts)
BY DEF Ticks!Cardinality, Cardinality

LEMMA CommitStep ==
    ASSUME Ticks!EveningsOfUsers, TicksInv, NEW c \in handling, Ticks!Commit(c)
    PROVE  TicksInv'
<1>1. UNCHANGED <<clock, members, since, inside, upward, downward, view, evening>>
      /\ Ticks!To(c, "load") /\ Ticks!Written(c.who, c.at, marks[c.who].delivered)
  BY DEF Ticks!Commit
<1>2. handling' \subseteq Ticks!Call /\ CallsFollow
  BY <1>1, ToOK DEF Ticks!Places
<1>3. c.who \in Users /\ c.at \in Ticks!Times /\ c.at <= clock
  BY HandlersAre, CallFields
<1>4. marks[c.who].delivered \in Ticks!Times /\ marks[c.who].delivered <= clock
  BY <1>3, TypesAre, ReceiptsFields DEF Ticks!ChatReceiptsTypeOK, TicksInv, MarksAreDated
<1>5. /\ marks' \in [Users -> Ticks!Receipts] /\ best' \in [Users -> Ticks!Receipts]
      /\ OnlyAdvances /\ MarksFollow
  BY <1>1, <1>3, <1>4, WrittenOK
<1>6. Ticks!Cardinality(posts) \in Nat
  BY TypesAre, FS_CardinalityType, PostsCounted
<1> DEFINE post == [by |-> c.who, at |-> c.at, n |-> Ticks!Cardinality(posts)]
<1>7. posts' = posts \cup {post} /\ post \in Ticks!Post
  BY <1>3, <1>6 DEF Ticks!Commit, Ticks!Post
<1> HIDE DEF post
<1>8. posts' \subseteq Ticks!Post /\ IsFiniteSet(posts')
  BY <1>7, TypesAre, FS_AddElement DEF Ticks!ChatReceiptsTypeOK
<1>9. TicksTyped'
  BY <1>1, <1>2, <1>5, <1>8, TypesAre DEF TicksTyped, Ticks!ChatReceiptsTypeOK
<1> QED BY <1>1, <1>2, <1>5, <1>9, Follows, SameEvents, SameViews

LEMMA StampStep ==
    ASSUME Ticks!EveningsOfUsers, TicksInv, NEW c \in handling, Ticks!Stamp(c)
    PROVE  TicksInv'
<1> DEFINE d == [c EXCEPT !.pc = "commit", !.at = clock]
<1>1. c \in Ticks!Call /\ clock \in Ticks!Times
  BY HandlersAre, TypesAre DEF Ticks!ChatReceiptsTypeOK
<1>2. d \in Ticks!Call /\ d.at = clock /\ d.got = c.got
  BY <1>1 DEF Ticks!Call, Ticks!Places
<1>3. handling' = (handling \ {c}) \cup {d}
      /\ UNCHANGED <<clock, members, since, marks, best, posts, inside, upward, downward, view, evening>>
  BY DEF Ticks!Stamp
<1> HIDE DEF d
<1>4. clock <= clock
  BY <1>1 DEF Ticks!Times
<1>5. handling' \subseteq Ticks!Call /\ CallsFollow
  BY <1>2, <1>3, <1>4, WentOn
<1>6. TicksTyped'
  BY <1>3, <1>5, TypesAre DEF TicksTyped, Ticks!ChatReceiptsTypeOK
<1> QED BY <1>3, <1>5, <1>6, HandlersAlone

(* What only starts or ends a handler, or moves a socket.                  *)
LEMMA GatewayStep ==
    ASSUME Ticks!EveningsOfUsers, TicksInv, NEW c \in handling, Ticks!CheckJoin(c) \/ Ticks!CarryOut(c)
    PROVE  TicksInv'
<1>1. UNCHANGED <<clock, members, since, marks, best, posts, upward, downward, view, evening>>
  BY DEF Ticks!CheckJoin, Ticks!CarryOut
<1>2. Ticks!To(c, "carry") \/ Ticks!Done(c)
  BY DEF Ticks!CheckJoin, Ticks!CarryOut
<1>3. handling' \subseteq Ticks!Call /\ CallsFollow
  BY <1>1, <1>2, ToOK, DoneOK DEF Ticks!Places
<1>4. inside' \subseteq Users
  BY HandlersAre, CallFields, TypesAre DEF Ticks!CheckJoin, Ticks!CarryOut, Ticks!ChatReceiptsTypeOK
<1>5. TicksTyped'
  BY <1>1, <1>3, <1>4, TypesAre DEF TicksTyped, Ticks!ChatReceiptsTypeOK
<1> QED BY <1>1, <1>3, <1>5, HandlersAlone

LEMMA NowIsTime ==
    ASSUME Ticks!EveningsOfUsers, TicksInv
    PROVE  /\ clock \in Ticks!Times /\ clock <= clock /\ 0 \in Ticks!Times /\ 0 <= clock
BY TypesAre DEF Ticks!ChatReceiptsTypeOK, Ticks!Times, Ticks!EveningsOfUsers

LEMMA RequestStep ==
    ASSUME Ticks!EveningsOfUsers, TicksInv, NEW u \in Users, Ticks!SendMessage(u) \/ Ticks!GetRoomMeta(u)
    PROVE  TicksInv'
<1>1. UNCHANGED <<clock, members, since, marks, best, posts, inside, upward, downward, view>>
  BY DEF Ticks!SendMessage, Ticks!GetRoomMeta
<1>2. evening' \in [Ticks!Works -> Nat]
  BY SpendOK DEF TicksInv, Ticks!SendMessage, Ticks!GetRoomMeta, Ticks!Works
<1>3. Ticks!Started("send", u, "stamp", 0) \/ Ticks!Started("meta", u, "compute", 0)
  BY DEF Ticks!SendMessage, Ticks!GetRoomMeta
<1>4. handling' \subseteq Ticks!Call /\ CallsFollow
  BY <1>1, <1>3, NowIsTime, BegunOK DEF Ticks!Places
<1>5. TicksTyped'
  BY <1>1, <1>2, <1>4, TypesAre DEF TicksTyped, Ticks!ChatReceiptsTypeOK
<1> QED BY <1>1, <1>4, <1>5, HandlersAlone

LEMMA ReceiveStep ==
    ASSUME Ticks!EveningsOfUsers, TicksInv, NEW u \in Users, Ticks!Receive(u)
    PROVE  TicksInv'
<1>1. UNCHANGED <<clock, members, since, marks, best, posts, downward, view, evening>>
  BY DEF Ticks!Receive
<1>2. upward \in [Users -> Seq(Ticks!Packets)] /\ inside \subseteq Users
  BY TypesAre DEF Ticks!ChatReceiptsTypeOK
<1>3. upward' \in [Users -> Seq(Ticks!Packets)]
  <2>1. upward[u] \in Seq(Ticks!Packets) /\ upward[u] # <<>>
    BY <1>2 DEF Ticks!Receive
  <2>2. Tail(upward[u]) \in Seq(Ticks!Packets)
    BY <2>1
  <2> QED BY <1>2, <2>2 DEF Ticks!Receive
<1>4. inside' \subseteq Users
  BY <1>2 DEF Ticks!Receive
<1>5. \/ Ticks!Started("join", u, "check", 0)
      \/ \E packet \in {"read", "delivered"} : Ticks!Started(packet, u, "update", clock)
      \/ UNCHANGED handling
  BY DEF Ticks!Receive
<1>6. handling' \subseteq Ticks!Call /\ CallsFollow
  BY <1>1, <1>5, NowIsTime, BegunOK, SameCalls DEF Ticks!Places
<1>7. TicksTyped'
  BY <1>1, <1>3, <1>4, <1>6, TypesAre DEF TicksTyped, Ticks!ChatReceiptsTypeOK
<1> QED BY <1>1, <1>6, <1>7, HandlersAlone

LEMMA ReportStep ==
    ASSUME Ticks!EveningsOfUsers, TicksInv, NEW u \in Users, Ticks!ReportDelivered(u)
    PROVE  TicksInv'
<1>1. UNCHANGED <<clock, members, since, marks, best, posts, handling, inside, downward, view>>
  BY DEF Ticks!ReportDelivered
<1>2. evening' \in [Ticks!Works -> Nat]
  BY SpendOK DEF TicksInv, Ticks!ReportDelivered, Ticks!Works
<1>3. upward' \in [Users -> Seq(Ticks!Packets)]
  BY TypesAre DEF Ticks!ReportDelivered, Ticks!ChatReceiptsTypeOK, Ticks!Packets
<1>4. TicksTyped'
  BY <1>1, <1>2, <1>3, TypesAre DEF TicksTyped, Ticks!ChatReceiptsTypeOK
<1> QED BY <1>1, <1>4, SameCalls, HandlersAlone

LEMMA AddStep ==
    ASSUME Ticks!EveningsOfUsers, TicksInv, NEW u \in Users, Ticks!AddMember(u)
    PROVE  TicksInv'
<1>1. UNCHANGED <<clock, marks, best, posts, handling, inside, upward, downward, view>>
      /\ members' = members \cup {u} /\ since' = [since EXCEPT ![u] = clock]
  BY DEF Ticks!AddMember
<1>2. since \in [Users -> Ticks!Times] /\ members \subseteq Users
  BY TypesAre DEF Ticks!ChatReceiptsTypeOK
<1>3. evening' \in [Ticks!Works -> Nat]
  BY SpendOK DEF TicksInv, Ticks!AddMember, Ticks!Works
<1>4. TicksTyped'
  BY <1>1, <1>2, <1>3, TypesAre, NowIsTime DEF TicksTyped, Ticks!ChatReceiptsTypeOK
<1>5. since'[u] = clock /\ \A v \in Users \ {u} : since'[v] = since[v]
  BY <1>1, <1>2
<1>6. clock <= clock' /\ \A v \in Users : best[v].read \in Int /\ best[v].delivered \in Int
  BY <1>1, NowIsTime, TypesAre, ReceiptsFields DEF Ticks!ChatReceiptsTypeOK, Ticks!Times
<1>7. OnlyAdvances
  BY <1>1, <1>2, <1>5, <1>6 DEF OnlyAdvances
<1> QED BY <1>1, <1>4, <1>7, Follows, SameCalls, SameMarks, SameEvents, SameViews

LEMMA RemoveStep ==
    ASSUME Ticks!EveningsOfUsers, TicksInv, NEW u \in Users, Ticks!RemoveMember(u)
    PROVE  TicksInv'
<1>1. UNCHANGED <<clock, since, marks, best, posts, inside, upward, downward, view>>
      /\ members' = members \ {u} /\ Ticks!Started("kick", u, "carry", 0)
  BY DEF Ticks!RemoveMember
<1>2. evening' \in [Ticks!Works -> Nat]
  BY SpendOK DEF TicksInv, Ticks!RemoveMember, Ticks!Works
<1>3. handling' \subseteq Ticks!Call /\ CallsFollow
  BY <1>1, NowIsTime, BegunOK DEF Ticks!Places
<1>4. TicksTyped'
  BY <1>1, <1>2, <1>3, TypesAre DEF TicksTyped, Ticks!ChatReceiptsTypeOK
<1>5. clock <= clock' /\ \A v \in Users : best[v].read \in Int /\ best[v].delivered \in Int
  BY <1>1, NowIsTime, TypesAre, ReceiptsFields DEF Ticks!ChatReceiptsTypeOK, Ticks!Times
<1>6. OnlyAdvances
  BY <1>1, <1>5 DEF OnlyAdvances
<1> QED BY <1>1, <1>3, <1>4, <1>6, Follows, SameMarks, SameEvents, SameViews

LEMMA OpenStep ==
    ASSUME Ticks!EveningsOfUsers, TicksInv, NEW c \in handling, Ticks!OpenRoom(c)
    PROVE  TicksInv'
<1> DEFINE opened == [open |-> TRUE, receipts |-> c.got]
<1>1. c \in Ticks!Call /\ c.who \in Users /\ c.got \in Ticks!Receipts /\ Earned(c.got)
  BY HandlersAre, CallFields DEF TicksInv, CallsEarned
<1>2. PICK r \in Ticks!Receipts : r = c.got
  BY <1>1
<1>3. opened \in [open: BOOLEAN, receipts: Ticks!Receipts] /\ opened.receipts = r
  BY <1>2
<1> HIDE DEF opened
<1>4. UNCHANGED <<clock, members, since, marks, best, posts, inside, downward, evening>>
      /\ view' = [view EXCEPT ![c.who] = opened] /\ Ticks!Done(c)
  BY DEF Ticks!OpenRoom, opened
<1>5. view \in [Users -> [open: BOOLEAN, receipts: Ticks!Receipts]]
      /\ upward \in [Users -> Seq(Ticks!Packets)]
  BY TypesAre DEF Ticks!ChatReceiptsTypeOK
<1>6. view' \in [Users -> [open: BOOLEAN, receipts: Ticks!Receipts]]
  BY <1>3, <1>4, <1>5
<1>7. upward' \in [Users -> Seq(Ticks!Packets)]
  <2>1. upward[c.who] \in Seq(Ticks!Packets) /\ <<"join", "read">> \in Seq(Ticks!Packets)
    BY <1>1, <1>5 DEF Ticks!Packets
  <2>2. upward[c.who] \o <<"join", "read">> \in Seq(Ticks!Packets)
    BY <2>1
  <2> QED BY <1>5, <2>2 DEF Ticks!OpenRoom
<1>8. handling' \subseteq Ticks!Call /\ CallsFollow
  BY <1>4, DoneOK
<1>9. Earned(r)'
  BY <1>1, <1>2, <1>4 DEF Earned
<1>10. ViewsFollow
  <2> SUFFICES ASSUME NEW u \in Users
               PROVE  Earned(view[u].receipts)' \/ view'[u].receipts = view[u].receipts
    BY DEF ViewsFollow
  <2>1. CASE u = c.who
    <3>1. view'[u].receipts = r
      BY <1>3, <1>4, <1>5, <2>1
    <3> QED BY <1>9, <3>1 DEF Earned
  <2>2. CASE u # c.who
    BY <1>4, <1>5, <2>2
  <2> QED BY <2>1, <2>2
<1>11. TicksTyped'
  BY <1>4, <1>6, <1>7, <1>8, TypesAre DEF TicksTyped, Ticks!ChatReceiptsTypeOK
<1> QED BY <1>4, <1>8, <1>10, <1>11, Follows, StillMembers, SameMarks, SameEvents

LEMMA CloseStep ==
    ASSUME Ticks!EveningsOfUsers, TicksInv, NEW u \in Users, Ticks!CloseRoom(u)
    PROVE  TicksInv'
<1>1. UNCHANGED <<clock, members, since, marks, best, posts, handling, inside, downward>>
      /\ view' = [view EXCEPT ![u].open = FALSE]
  BY DEF Ticks!CloseRoom
<1>2. evening' \in [Ticks!Works -> Nat]
  BY SpendOK DEF TicksInv, Ticks!CloseRoom, Ticks!Works
<1>3. view \in [Users -> [open: BOOLEAN, receipts: Ticks!Receipts]]
  BY TypesAre DEF Ticks!ChatReceiptsTypeOK
<1>4. view' \in [Users -> [open: BOOLEAN, receipts: Ticks!Receipts]]
      /\ \A v \in Users : view'[v].receipts = view[v].receipts
  BY <1>1, <1>3
<1>5. upward' \in [Users -> Seq(Ticks!Packets)]
  BY TypesAre DEF Ticks!CloseRoom, Ticks!ChatReceiptsTypeOK, Ticks!Packets
<1>6. TicksTyped'
  BY <1>1, <1>2, <1>4, <1>5, TypesAre DEF TicksTyped, Ticks!ChatReceiptsTypeOK
<1>7. ViewsFollow
  BY <1>4 DEF ViewsFollow
<1> QED BY <1>1, <1>6, <1>7, Follows, StillMembers, SameCalls, SameMarks, SameEvents

LEMMA PushStep ==
    ASSUME Ticks!EveningsOfUsers, TicksInv, NEW u \in Users, Ticks!Push(u)
    PROVE  TicksInv'
<1>1. UNCHANGED <<clock, members, since, marks, best, posts, handling, inside, evening>>
      /\ downward' = [downward EXCEPT ![u] = Tail(@)] /\ downward[u] # <<>>
  BY DEF Ticks!Push
<1>2. /\ downward \in [Users -> Seq(Ticks!Event)] /\ upward \in [Users -> Seq(Ticks!Packets)]
      /\ view \in [Users -> [open: BOOLEAN, receipts: Ticks!Receipts]]
  BY TypesAre DEF Ticks!ChatReceiptsTypeOK
<1>3. PICK q \in Seq(Ticks!Event) : q = downward[u]
  BY <1>2
<1>4. /\ Tail(q) \in Seq(Ticks!Event) /\ 1 \in DOMAIN q /\ Head(q) = q[1]
      /\ \A i \in DOMAIN Tail(q) : i + 1 \in DOMAIN q /\ Tail(q)[i] = q[i + 1]
  BY <1>1, <1>3
<1>5. downward' \in [Users -> Seq(Ticks!Event)] /\ downward'[u] = Tail(q)
      /\ \A v \in Users \ {u} : downward'[v] = downward[v]
  BY <1>1, <1>2, <1>3, <1>4
<1>6. EventsFollow
  <2> SUFFICES ASSUME NEW v \in Users, NEW i \in DOMAIN downward'[v]
               PROVE  \E j \in DOMAIN downward[v] : downward'[v][i] = downward[v][j]
    BY DEF EventsFollow
  <2>1. CASE v = u
    BY <1>3, <1>4, <1>5, <2>1
  <2>2. CASE v # u
    BY <1>5, <2>2
  <2> QED BY <2>1, <2>2
<1>7. upward' \in [Users -> Seq(Ticks!Packets)]
  <2>1. UNCHANGED upward \/ upward' = [upward EXCEPT ![u] = Append(@, "read")]
    BY DEF Ticks!Push, Ticks!OnReceipts, Ticks!OnNewMessage
  <2>2. PICK p \in Seq(Ticks!Packets) : p = upward[u]
    BY <1>2
  <2>3. Append(p, "read") \in Seq(Ticks!Packets)
    BY DEF Ticks!Packets
  <2> QED BY <1>2, <2>1, <2>2, <2>3
<1>8. /\ view' \in [Users -> [open: BOOLEAN, receipts: Ticks!Receipts]]
      /\ ViewsFollow
  <2>1. CASE view' = view
    BY <1>2, <2>1, SameViews
  <2>2. CASE Head(downward[u]).kind = "receipts" /\ Ticks!OnReceipts(u, Head(downward[u])) /\ view[u].open
    <3>1. PICK r \in Ticks!Receipts : r = q[1].receipts
      BY <1>3, <1>4, <2>2, EventFields DEF TicksInv
    <3>2. Earned(r)
      BY <1>3, <1>4, <2>2, <3>1 DEF TicksInv, EventsEarned, Earned
    <3>3. view' = [view EXCEPT ![u].receipts = r]
      BY <1>3, <1>4, <2>2, <3>1 DEF Ticks!OnReceipts
    <3>4. view' \in [Users -> [open: BOOLEAN, receipts: Ticks!Receipts]]
          /\ view'[u].receipts = r /\ \A v \in Users \ {u} : view'[v] = view[v]
      BY <1>2, <3>3
    <3>5. Earned(view[u].receipts)'
      BY <1>1, <3>2, <3>4 DEF Earned
    <3> QED BY <3>4, <3>5 DEF ViewsFollow
  <2> QED BY <2>1, <2>2 DEF Ticks!Push, Ticks!OnReceipts, Ticks!OnNewMessage
<1>9. TicksTyped'
  BY <1>1, <1>5, <1>7, <1>8, TypesAre DEF TicksTyped, Ticks!ChatReceiptsTypeOK
<1> QED BY <1>1, <1>6, <1>8, <1>9, Follows, StillMembers, SameCalls, SameMarks

LEMMA TicksStart == ASSUME Ticks!EveningsOfUsers, Ticks!Init PROVE TicksInv
<1> DEFINE fresh == [u \in Users |-> IF u \in inside THEN [delivered |-> 1, read |-> 1] ELSE Ticks!NoReceipts]
<1>1. /\ clock = 1 /\ marks = fresh /\ best = fresh
      /\ since = [u \in Users |-> 0] /\ posts = {} /\ handling = {}
      /\ upward = [u \in Users |-> <<>>] /\ downward = [u \in Users |-> <<>>]
      /\ members \subseteq Users /\ inside \subseteq Users /\ evening \in [Ticks!Works -> Nat]
  BY DEF Ticks!Init, Ticks!EveningsOfUsers
<1>2. {0, 1} \subseteq Ticks!Times /\ [delivered |-> 1, read |-> 1] \in Ticks!Receipts /\ Ticks!NoReceipts \in Ticks!Receipts
  BY NothingIsReceipts DEF Ticks!Times, Ticks!Receipts, Ticks!EveningsOfUsers
<1>3. fresh \in [Users -> Ticks!Receipts]
  BY <1>2
<1>4. \A u \in Users : fresh[u].read \in {0, 1} /\ fresh[u].delivered \in {0, 1}
  BY DEF Ticks!NoReceipts
<1>5. PICK r \in Ticks!Receipts :
        Ticks!RoomReceipts(r) /\ view = [u \in Users |-> [open |-> u \in inside, receipts |-> r]]
  BY DEF Ticks!Init
<1> HIDE DEF fresh
<1>6. view \in [Users -> [open: BOOLEAN, receipts: Ticks!Receipts]]
      /\ \A u \in Users : view[u].receipts = r
  BY <1>5
<1>7. TicksTyped
  BY <1>1, <1>2, <1>3, <1>6, FS_EmptySet DEF TicksTyped, Ticks!ChatReceiptsTypeOK
<1>8. MarksAreDated /\ CallsEarned /\ EventsEarned
  BY <1>1, <1>4 DEF MarksAreDated, CallsEarned, EventsEarned
<1>9. Earned(r)
  <2>1. CASE Ticks!Cardinality(members) <= 1
    BY <1>5, <1>7, <2>1, NoneIsEarned DEF Ticks!RoomReceipts
  <2>2. CASE ~(Ticks!Cardinality(members) <= 1)
    <3>1. /\ Ticks!MinWatermark({marks[u].read : u \in members}, r.read)
          /\ Ticks!MinWatermark({marks[u].delivered : u \in members}, r.delivered)
      BY <1>5, <2>2 DEF Ticks!RoomReceipts
    <3>2. r.read \in Int /\ r.delivered \in Int
      BY ReceiptsFields DEF Ticks!Times
    <3>3. r.read = 0 \/ (r.read <= 1 /\ \A v \in members : r.read <= best[v].read)
      BY <1>1, <1>4, <3>1, <3>2 DEF Ticks!MinWatermark
    <3>4. r.delivered = 0 \/ (r.delivered <= 1 /\ \A v \in members : r.delivered <= best[v].delivered)
      BY <1>1, <1>4, <3>1, <3>2 DEF Ticks!MinWatermark
    <3> QED BY <1>1, <3>3, <3>4 DEF Earned
  <2> QED BY <2>1, <2>2
<1>10. ViewsEarned
  BY <1>6, <1>9 DEF ViewsEarned, Earned
<1> QED BY <1>7, <1>8, <1>10 DEF TicksInv

LEMMA TicksNext == ASSUME Ticks!EveningsOfUsers, TicksInv, [Ticks!Next]_Ticks!vars PROVE TicksInv'
<1>1. CASE UNCHANGED Ticks!vars
  <2>1. UNCHANGED <<clock, members, since, marks, best, posts, handling, inside, upward, downward, view, evening>>
    BY <1>1 DEF Ticks!vars
  <2>2. TicksTyped'
    BY <2>1, TypesAre DEF TicksTyped, Ticks!ChatReceiptsTypeOK
  <2> QED BY <2>1, <2>2, SameCalls, HandlersAlone
<1>2. ASSUME NEW c \in handling, Ticks!HandlerStep(c) PROVE TicksInv'
  BY <1>2, ComputeStep, EmitStep, MarkStep, StampStep, CommitStep, MessageStep, GatewayStep, OpenStep
     DEF Ticks!HandlerStep
<1>3. ASSUME NEW u \in Users, Ticks!UserStep(u) PROVE TicksInv'
  BY <1>3, RequestStep, AddStep, RemoveStep, CloseStep, ReportStep, ReceiveStep, PushStep DEF Ticks!UserStep
<1> QED BY <1>1, <1>2, <1>3, TickStep DEF Ticks!Next

-----------------------------------------------------------------------------
(* ChatService, TeamChatRoom: marks, receipts and windows keep to their    *)
(* types, for any users, clock and evenings.                               *)
THEOREM TicksTypeCorrect == Ticks!Spec => []Ticks!ChatReceiptsTypeOK
<1>1. TicksInv => Ticks!ChatReceiptsTypeOK
  BY DEF TicksInv, TicksTyped
<1>2. Ticks!Init => TicksInv
  BY TicksStart, ScreensAssumption
<1>3. TicksInv /\ [Ticks!Next]_Ticks!vars => TicksInv'
  BY TicksNext, ScreensAssumption
<1> QED BY <1>1, <1>2, <1>3, PTL DEF Ticks!Spec

(* ChatService.computeRoomReceipts, tickStatus: a message shown as read,   *)
(* or as delivered, was marked so by everybody who has been a member since *)
(* before it was stamped.                                                  *)
THEOREM TicksStayEarned == Ticks!Spec => []TicksAreEarned
<1>1. ASSUME TicksInv PROVE TicksAreEarned
  <2> SUFFICES ASSUME NEW u \in Users, NEW post \in posts, NEW v \in members,
                      view[u].open, since[v] < post.at
               PROVE  /\ Ticks!TickStatus(post, view[u].receipts) = "READ" => best[v].read >= post.at
                      /\ Ticks!TickStatus(post, view[u].receipts) = "DELIVERED" => best[v].delivered >= post.at
    BY DEF TicksAreEarned, Ticks!TicksAreEarned
  <2>1. PICK r \in Ticks!Receipts : r = view[u].receipts
    BY <1>1 DEF TicksInv, TicksTyped, Ticks!ChatReceiptsTypeOK
  <2>2. Earned(r)
    BY <1>1, <2>1 DEF TicksInv, ViewsEarned, Earned
  <2>3. post \in Ticks!Post /\ v \in Users /\ best[v] \in Ticks!Receipts /\ since[v] \in Ticks!Times
    BY <1>1 DEF TicksInv, TicksTyped, Ticks!ChatReceiptsTypeOK
  <2>4. /\ post.at \in Int /\ r.read \in Int /\ r.delivered \in Int /\ since[v] \in Int
        /\ best[v].read \in Int /\ best[v].delivered \in Int
    BY <2>3, ReceiptsFields DEF Ticks!Post, Ticks!Times
  <2>5. /\ Ticks!TickStatus(post, r) = "READ" => post.at <= r.read
        /\ Ticks!TickStatus(post, r) = "DELIVERED" => post.at <= r.delivered
    BY DEF Ticks!TickStatus
  <2> QED BY <2>1, <2>2, <2>4, <2>5 DEF Earned
<1>2. Ticks!Init => TicksInv
  BY TicksStart, ScreensAssumption
<1>3. TicksInv /\ [Ticks!Next]_Ticks!vars => TicksInv'
  BY TicksNext, ScreensAssumption
<1>4. TicksInv => TicksAreEarned
  BY <1>1
<1> QED BY <1>2, <1>3, <1>4, PTL DEF Ticks!Spec

-----------------------------------------------------------------------------
(***************************************************************************)
(* The rooms of a tab.                                                     *)
(***************************************************************************)
HoldersOf(k) == {h \in mounted : Holds[h] = k}
HeldBy(hs) == {Holds[h] : h \in hs}
Packets == [op: {"join", "leave"}, key: Tab!Keys]
(* What is on the way to the server: the last word on a room is its join;  *)
(* there is no word on it.                                                 *)
EndsJoined(q, k) ==
    \E i \in DOMAIN q : q[i] = Tab!Join(k) /\ \A j \in DOMAIN q : j > i => q[j].key # k
SaysNothing(q, k) == \A i \in DOMAIN q : q[i].key # k
ArrivesAt(k) == k \in rooms \/ (k \in HeldChats /\ joining[k] > 0)

(* The count of a room is how many hold it, and never more.                *)
CountsHolders ==
    /\ IsFiniteSet(mounted) /\ mounted \subseteq Tab!Holders
    /\ refs \in [Tab!Keys -> Nat]
    /\ \A k \in Tab!Keys : refs[k] <= Cardinality(HoldersOf(k))
    /\ \A k \in Tab!Keys \ lost : refs[k] = Cardinality(HoldersOf(k))
(* Where packets may wait in which state of the socket.                    *)
PacketsTyped == waiting \in Seq(Packets) /\ buffer \in Seq(Packets) /\ wire \in Seq(Packets)
LinkInOrder ==
    /\ link \in {"none", "opening", "up", "down", "closed"} /\ again \in BOOLEAN
    /\ again <=> link \in {"up", "down", "closed"}
    /\ link # "opening" => waiting = <<>>
    /\ link \notin {"down", "closed"} => buffer = <<>>
(* A room that is held and not lost is about to be joined.                 *)
JoinComing(k) ==
    /\ link # "none"
    /\ link = "opening" => EndsJoined(waiting, k)
    /\ link = "up" /\ trusted => EndsJoined(wire, k) \/ (SaysNothing(wire, k) /\ ArrivesAt(k))
JoinIsComing == \A k \in HeldBy(mounted) \ lost : JoinComing(k)
TabInv ==
    /\ CountsHolders /\ PacketsTyped /\ LinkInOrder /\ joining \in [HeldChats -> Nat]
    /\ JoinIsComing

-----------------------------------------------------------------------------
(* Sequences of packets.                                                   *)
LEMMA JoinAdded ==
    ASSUME NEW q \in Seq(Packets), NEW k \in Tab!Keys
    PROVE  EndsJoined(Append(q, Tab!Join(k)), k)
<1>1. /\ Len(q) \in Nat /\ DOMAIN Append(q, Tab!Join(k)) = 1..(Len(q) + 1)
      /\ Append(q, Tab!Join(k))[Len(q) + 1] = Tab!Join(k)
  OBVIOUS
<1>2. Len(q) + 1 \in 1..(Len(q) + 1) /\ \A j \in 1..(Len(q) + 1) : ~(j > Len(q) + 1)
  BY <1>1
<1> QED BY <1>1, <1>2 DEF EndsJoined

LEMMA OtherAdded ==
    ASSUME NEW q \in Seq(Packets), NEW p \in Packets, NEW k, p.key # k
    PROVE  /\ EndsJoined(q, k) => EndsJoined(Append(q, p), k)
           /\ SaysNothing(q, k) => SaysNothing(Append(q, p), k)
<1>1. /\ Len(q) \in Nat /\ DOMAIN q = 1..Len(q) /\ DOMAIN Append(q, p) = 1..(Len(q) + 1)
      /\ Append(q, p)[Len(q) + 1] = p /\ \A i \in DOMAIN q : Append(q, p)[i] = q[i]
  OBVIOUS
<1>2. \A i \in DOMAIN Append(q, p) : i \in DOMAIN q \/ i = Len(q) + 1
  BY <1>1
<1>3. ASSUME EndsJoined(q, k) PROVE EndsJoined(Append(q, p), k)
  <2>1. PICK i \in DOMAIN q : q[i] = Tab!Join(k) /\ \A j \in DOMAIN q : j > i => q[j].key # k
    BY <1>3 DEF EndsJoined
  <2>2. i \in DOMAIN Append(q, p) /\ Append(q, p)[i] = Tab!Join(k)
    BY <1>1, <2>1
  <2>3. ASSUME NEW j \in DOMAIN Append(q, p), j > i PROVE Append(q, p)[j].key # k
    BY <1>1, <1>2, <2>1, <2>3
  <2> QED BY <2>2, <2>3 DEF EndsJoined
<1>4. ASSUME SaysNothing(q, k) PROVE SaysNothing(Append(q, p), k)
  BY <1>1, <1>2, <1>4 DEF SaysNothing
<1> QED BY <1>3, <1>4

LEMMA FirstTaken ==
    ASSUME NEW q \in Seq(Packets), q # <<>>, NEW k
    PROVE  /\ Head(q) \in Packets /\ Tail(q) \in Seq(Packets)
           /\ EndsJoined(q, k) => \/ EndsJoined(Tail(q), k)
                                  \/ Head(q) = Tab!Join(k) /\ SaysNothing(Tail(q), k)
           /\ SaysNothing(q, k) => Head(q).key # k /\ SaysNothing(Tail(q), k)
<1>1. /\ Len(q) \in Nat /\ Len(q) > 0 /\ DOMAIN q = 1..Len(q)
      /\ Head(q) = q[1] /\ Head(q) \in Packets /\ Tail(q) \in Seq(Packets)
      /\ DOMAIN Tail(q) = 1..(Len(q) - 1)
      /\ \A i \in 1..(Len(q) - 1) : Tail(q)[i] = q[i + 1]
  OBVIOUS
<1>2. ASSUME EndsJoined(q, k)
      PROVE  \/ EndsJoined(Tail(q), k)
             \/ Head(q) = Tab!Join(k) /\ SaysNothing(Tail(q), k)
  <2>1. PICK i \in DOMAIN q : q[i] = Tab!Join(k) /\ \A j \in DOMAIN q : j > i => q[j].key # k
    BY <1>2 DEF EndsJoined
  <2>2. CASE i = 1
    <3>1. ASSUME NEW j \in DOMAIN Tail(q) PROVE Tail(q)[j].key # k
      <4>1. j + 1 \in DOMAIN q /\ j + 1 > i /\ Tail(q)[j] = q[j + 1]
        BY <1>1, <2>2
      <4> QED BY <2>1, <4>1
    <3> QED BY <1>1, <2>1, <2>2, <3>1 DEF SaysNothing
  <2>3. CASE i # 1
    <3>1. i - 1 \in DOMAIN Tail(q) /\ Tail(q)[i - 1] = Tab!Join(k) /\ i \in Int
      BY <1>1, <2>1, <2>3
    <3>2. ASSUME NEW j \in DOMAIN Tail(q), j > i - 1 PROVE Tail(q)[j].key # k
      <4>1. j + 1 \in DOMAIN q /\ j + 1 > i /\ Tail(q)[j] = q[j + 1]
        BY <1>1, <3>1, <3>2
      <4> QED BY <2>1, <4>1
    <3> QED BY <3>1, <3>2 DEF EndsJoined
  <2> QED BY <2>2, <2>3
<1>3. ASSUME SaysNothing(q, k) PROVE Head(q).key # k /\ SaysNothing(Tail(q), k)
  <2>1. ASSUME NEW j \in DOMAIN Tail(q) PROVE Tail(q)[j].key # k
    <3>1. j + 1 \in DOMAIN q /\ Tail(q)[j] = q[j + 1]
      BY <1>1
    <3> QED BY <1>3, <3>1 DEF SaysNothing
  <2> QED BY <1>1, <1>3, <2>1 DEF SaysNothing
<1> QED BY <1>1, <1>2, <1>3

LEMMA ThenMore ==
    ASSUME NEW q \in Seq(Packets), NEW r \in Seq(Packets), NEW k, EndsJoined(r, k)
    PROVE  EndsJoined(q \o r, k)
<1>1. /\ Len(q) \in Nat /\ Len(r) \in Nat /\ DOMAIN r = 1..Len(r)
      /\ DOMAIN (q \o r) = 1..(Len(q) + Len(r))
      /\ \A i \in 1..(Len(q) + Len(r)) : (q \o r)[i] = IF i <= Len(q) THEN q[i] ELSE r[i - Len(q)]
  OBVIOUS
<1>2. PICK i \in DOMAIN r : r[i] = Tab!Join(k) /\ \A j \in DOMAIN r : j > i => r[j].key # k
  BY DEF EndsJoined
<1>3. i + Len(q) \in DOMAIN (q \o r) /\ (q \o r)[i + Len(q)] = Tab!Join(k)
  BY <1>1, <1>2
<1>4. ASSUME NEW j \in DOMAIN (q \o r), j > i + Len(q) PROVE (q \o r)[j].key # k
  <2>1. j - Len(q) \in DOMAIN r /\ j - Len(q) > i /\ (q \o r)[j] = r[j - Len(q)]
    BY <1>1, <1>2, <1>4
  <2> QED BY <1>2, <2>1
<1> QED BY <1>3, <1>4 DEF EndsJoined

LEMMA AKey ==
    ASSUME NEW k \in Tab!Keys
    PROVE  /\ Tab!Join(k) \in Packets /\ Tab!Join(k).key = k /\ Tab!Join(k).op = "join"
           /\ Tab!Leave(k) \in Packets /\ Tab!Leave(k).key = k
BY DEF Tab!Join, Tab!Leave, Packets

(* Rejoining: every room with a holder once.                               *)
LEMMA InSomeOrder ==
    ASSUME NEW S, IsFiniteSet(S)
    PROVE  /\ Tab!SetToSeq(S) \in [1..Cardinality(S) -> S] /\ Cardinality(S) \in Nat
           /\ \A k \in S : \E i \in 1..Cardinality(S) :
                 /\ Tab!SetToSeq(S)[i] = k
                 /\ \A j \in 1..Cardinality(S) : Tab!SetToSeq(S)[j] = k => j = i
<1> DEFINE n == Cardinality(S)
           f == Tab!SetToSeq(S)
<1>1. n \in Nat /\ ExistsBijection(1..n, S)
  BY FS_CardinalityType
<1>2. PICK g : g \in Bijection(1..n, S)
  BY <1>1 DEF ExistsBijection
<1>3. g \in [1..n -> S] /\ Tab!IsInjective(g)
  BY <1>2 DEF Bijection, Injection, IsInjective, Tab!IsInjective
<1>same. Tab!Cardinality(S) = n
  BY DEF Tab!Cardinality, Cardinality
<1>4. f \in [1..n -> S] /\ Tab!IsInjective(f)
  BY <1>3, <1>same DEF Tab!SetToSeq
<1> HIDE DEF f
<1>5. f \in Injection(1..n, S)
  BY <1>4 DEF Injection, IsInjective, Tab!IsInjective
<1>6. IsFiniteSet(1..n) /\ Cardinality(1..n) = n
  BY <1>1, FS_Interval
<1>7. f \in Surjection(1..n, S)
  BY <1>5, <1>6, FS_Injection
<1>8. \A k \in S : \E i \in 1..n : f[i] = k
  BY <1>7 DEF Surjection
<1>9. \A i, j \in 1..n : f[i] = f[j] => i = j
  BY <1>4 DEF Tab!IsInjective
<1> QED BY <1>1, <1>4, <1>8, <1>9 DEF f

-----------------------------------------------------------------------------
(* Counts.                                                                 *)
LEMMA HoldersCounted ==
    ASSUME CountsHolders, NEW k
    PROVE  /\ IsFiniteSet(HoldersOf(k)) /\ Cardinality(HoldersOf(k)) \in Nat
           /\ Cardinality(HoldersOf(k)) = 0 <=> HoldersOf(k) = {}
<1>1. HoldersOf(k) \subseteq mounted /\ IsFiniteSet(mounted)
  BY DEF HoldersOf, CountsHolders
<1> QED BY <1>1, FS_Subset, FS_CardinalityType, FS_EmptySet

LEMMA HeldKeys ==
    ASSUME CountsHolders
    PROVE  /\ HeldBy(mounted) \subseteq Tab!Keys
           /\ \A h \in Tab!Holders : Holds[h] \in Tab!Keys
           /\ \A k \in HeldBy(mounted) \ lost : refs[k] > 0
           /\ \A k \in Tab!Keys : refs[k] > 0 => k \in HeldBy(mounted)
<1>1. \A h \in Tab!Holders : Holds[h] \in Tab!Keys
  BY ScreensAssumption DEF Tab!HoldsOK
<1>2. HeldBy(mounted) \subseteq Tab!Keys
  BY <1>1 DEF HeldBy, CountsHolders
<1>3. ASSUME NEW k \in HeldBy(mounted) \ lost PROVE refs[k] > 0
  <2>1. HoldersOf(k) # {}
    BY DEF HeldBy, HoldersOf
  <2> QED BY <1>2, <2>1, HoldersCounted DEF CountsHolders
<1>4. ASSUME NEW k \in Tab!Keys, refs[k] > 0 PROVE k \in HeldBy(mounted)
  <2>1. Cardinality(HoldersOf(k)) # 0
    BY <1>4, HoldersCounted DEF CountsHolders
  <2>2. PICK h \in HoldersOf(k) : TRUE
    BY <2>1, HoldersCounted
  <2> QED BY <2>2 DEF HeldBy, HoldersOf
<1> QED BY <1>1, <1>2, <1>3, <1>4
-----------------------------------------------------------------------------
(* What leaves the page.                                                   *)
LEMMA ThroughOK ==
    ASSUME PacketsTyped, LinkInOrder, NEW p \in Packets, Tab!Through(p), UNCHANGED Tab!server
    PROVE  /\ PacketsTyped' /\ LinkInOrder'
           /\ \A k : p.key # k /\ JoinComing(k) => JoinComing(k)'
           /\ \A k \in Tab!Keys : p = Tab!Join(k) => JoinComing(k)'
<1> USE DEF PacketsTyped, LinkInOrder
<1>1. CASE link \in {"none", "opening"}
  <2>1. /\ link' = "opening" /\ waiting' = Append(waiting, p)
        /\ UNCHANGED <<trusted, again, buffer, wire>>
    BY <1>1 DEF Tab!Through, Tab!CreateConnection
  <2>2. waiting' \in Seq(Packets) /\ PacketsTyped' /\ LinkInOrder'
    BY <1>1, <2>1
  <2>3. ASSUME NEW k, p.key # k, JoinComing(k) PROVE JoinComing(k)'
    <3>1. EndsJoined(waiting, k)
      BY <1>1, <2>3 DEF JoinComing
    <3>2. EndsJoined(waiting', k)
      BY <2>1, <2>3, <3>1, OtherAdded
    <3> QED BY <2>1, <3>2 DEF JoinComing, EndsJoined
  <2>4. ASSUME NEW k \in Tab!Keys, p = Tab!Join(k) PROVE JoinComing(k)'
    <3>1. EndsJoined(waiting', k)
      BY <2>1, <2>4, JoinAdded
    <3> QED BY <2>1, <3>1 DEF JoinComing, EndsJoined
  <2> QED BY <2>2, <2>3, <2>4
<1>2. CASE link \notin {"none", "opening"}
  <2>1. /\ wire' = (IF link = "up" THEN Append(wire, p) ELSE wire)
        /\ buffer' = (IF link # "up" /\ p.op = "join" THEN Append(buffer, p) ELSE buffer)
        /\ UNCHANGED <<link, trusted, again, waiting>>
    BY <1>2 DEF Tab!Through, Tab!Emitted
  <2>2. wire' \in Seq(Packets) /\ buffer' \in Seq(Packets)
    BY <2>1
  <2>3. PacketsTyped' /\ LinkInOrder'
    BY <1>2, <2>1, <2>2
  <2>4. CASE link = "up"
    <3>1. wire' = Append(wire, p)
      BY <2>1, <2>4
    <3>2. ASSUME NEW k, p.key # k, JoinComing(k) PROVE JoinComing(k)'
      <4>1. /\ EndsJoined(wire, k) => EndsJoined(wire', k)
            /\ SaysNothing(wire, k) => SaysNothing(wire', k)
        BY <3>1, <3>2, OtherAdded
      <4>2. ArrivesAt(k)' <=> ArrivesAt(k)
        BY DEF ArrivesAt, Tab!server
      <4>3. trusted => EndsJoined(wire', k) \/ (SaysNothing(wire', k) /\ ArrivesAt(k)')
        BY <2>4, <3>2, <4>1, <4>2 DEF JoinComing
      <4> QED BY <2>1, <2>4, <4>3 DEF JoinComing, EndsJoined, SaysNothing
    <3>3. ASSUME NEW k \in Tab!Keys, p = Tab!Join(k) PROVE JoinComing(k)'
      <4>1. EndsJoined(wire', k)
        BY <3>1, <3>3, JoinAdded
      <4> QED BY <2>1, <2>4, <4>1 DEF JoinComing, EndsJoined
    <3> QED BY <2>3, <3>2, <3>3
  <2>5. CASE link # "up"
    <3>1. \A k : JoinComing(k)'
      BY <1>2, <2>1, <2>5 DEF JoinComing
    <3> QED BY <2>3, <3>1
  <2> QED BY <2>4, <2>5
<1> QED BY <1>1, <1>2

LEMMA SilentOK ==
    ASSUME PacketsTyped, LinkInOrder, Tab!Silent, UNCHANGED Tab!server
    PROVE  PacketsTyped' /\ LinkInOrder' /\ \A k : JoinComing(k) => JoinComing(k)'
<1>1. UNCHANGED <<link, trusted, again, waiting, buffer, wire, joining, rooms>>
  BY DEF Tab!Silent, Tab!server
<1>2. PacketsTyped' /\ LinkInOrder'
  BY <1>1 DEF PacketsTyped, LinkInOrder
<1>3. \A k : JoinComing(k) => JoinComing(k)'
  BY <1>1 DEF JoinComing, EndsJoined, SaysNothing, ArrivesAt
<1> QED BY <1>2, <1>3

LEMMA MountOfHolder ==
    ASSUME TabInv, NEW h \in Tab!Holders, Tab!Mount(h)
    PROVE  TabInv'
<1> DEFINE k == Holds[h]
<1>1. /\ h \notin mounted /\ mounted' = mounted \cup {h}
      /\ refs' = [refs EXCEPT ![k] = @ + 1] /\ UNCHANGED <<joining, rooms, lost>>
      /\ UNCHANGED Tab!server
      /\ IF refs[k] = 0 THEN Tab!Through(Tab!Join(k)) ELSE Tab!Silent
  BY DEF Tab!Mount, Tab!RetainRoom, Tab!FirstHolder, Tab!server
<1>2. k \in Tab!Keys
  BY HeldKeys DEF TabInv
<1>3. /\ refs \in [Tab!Keys -> Nat] /\ IsFiniteSet(mounted) /\ mounted \subseteq Tab!Holders
      /\ \A j \in Tab!Keys : refs[j] <= Cardinality(HoldersOf(j))
      /\ \A j \in Tab!Keys \ lost : refs[j] = Cardinality(HoldersOf(j))
  BY DEF TabInv, CountsHolders
<1>4. HeldBy(mounted') = HeldBy(mounted) \cup {k}
  BY <1>1 DEF HeldBy
<1> HIDE DEF k
<1>5. Cardinality(HoldersOf(k)') = Cardinality(HoldersOf(k)) + 1
  <2>1. HoldersOf(k)' = HoldersOf(k) \cup {h} /\ h \notin HoldersOf(k)
    BY <1>1 DEF HoldersOf, k
  <2>2. IsFiniteSet(HoldersOf(k))
    BY HoldersCounted DEF TabInv
  <2> QED BY <2>1, <2>2, FS_AddElement
<1>6. ASSUME NEW j, j # k PROVE HoldersOf(j)' = HoldersOf(j)
  BY <1>1, <1>6 DEF HoldersOf, k
<1>7. CountsHolders'
  <2>1. IsFiniteSet(mounted') /\ mounted' \subseteq Tab!Holders
    BY <1>1, <1>3, FS_AddElement
  <2>2. refs' \in [Tab!Keys -> Nat]
    BY <1>1, <1>2, <1>3
  <2>3. ASSUME NEW j \in Tab!Keys
        PROVE  /\ refs'[j] <= Cardinality(HoldersOf(j)')
               /\ j \notin lost' => refs'[j] = Cardinality(HoldersOf(j)')
    <3>1. CASE j = k
      <4>1. refs'[k] = refs[k] + 1 /\ refs[k] \in Nat /\ Cardinality(HoldersOf(k)) \in Nat
        BY <1>1, <1>2, <1>3, HoldersCounted DEF TabInv
      <4>2. refs[k] <= Cardinality(HoldersOf(k)) /\ (k \notin lost => refs[k] = Cardinality(HoldersOf(k)))
        BY <1>2, <1>3
      <4> QED BY <1>1, <1>5, <3>1, <4>1, <4>2
    <3>2. CASE j # k
      <4>1. refs'[j] = refs[j] /\ HoldersOf(j)' = HoldersOf(j)
        BY <1>1, <1>3, <1>6, <3>2
      <4> QED BY <1>1, <1>3, <4>1
    <3> QED BY <3>1, <3>2
  <2> QED BY <2>1, <2>2, <2>3 DEF CountsHolders
<1>8. CASE refs[k] = 0
  <2>1. Tab!Through(Tab!Join(k))
    BY <1>1, <1>8
  <2>2. /\ PacketsTyped' /\ LinkInOrder' /\ JoinComing(k)'
        /\ \A j : j # k /\ JoinComing(j) => JoinComing(j)'
    BY <1>1, <1>2, <2>1, AKey, ThroughOK DEF TabInv
  <2>3. JoinIsComing'
    BY <1>1, <1>4, <2>2 DEF TabInv, JoinIsComing
  <2> QED BY <1>1, <1>7, <2>2, <2>3 DEF TabInv
<1>9. CASE refs[k] # 0
  <2>1. PacketsTyped' /\ LinkInOrder' /\ \A j : JoinComing(j) => JoinComing(j)'
    BY <1>1, <1>9, SilentOK DEF TabInv
  <2>2. k \in HeldBy(mounted)
    BY <1>2, <1>3, <1>9, HeldKeys DEF TabInv
  <2>3. JoinIsComing'
    BY <1>1, <1>4, <2>1, <2>2 DEF TabInv, JoinIsComing
  <2> QED BY <1>1, <1>7, <2>1, <2>3 DEF TabInv
<1> QED BY <1>8, <1>9

LEMMA UnmountOfHolder ==
    ASSUME TabInv, NEW h \in Tab!Holders, Tab!Unmount(h)
    PROVE  TabInv'
<1> DEFINE k == Holds[h]
<1>1. /\ h \in mounted /\ mounted' = mounted \ {h}
      /\ refs' = [refs EXCEPT ![k] = IF @ = 0 THEN 0 ELSE @ - 1] /\ UNCHANGED <<joining, rooms>>
      /\ UNCHANGED Tab!server
      /\ IF refs[k] <= 1 THEN Tab!Through(Tab!Leave(k)) ELSE Tab!Silent
      /\ lost' = IF \E other \in mounted' : Holds[other] = k THEN lost ELSE lost \ {k}
  BY DEF Tab!Unmount, Tab!ReleaseRoom, Tab!LastHolder, Tab!server
<1>2. k \in Tab!Keys
  BY HeldKeys DEF TabInv
<1>3. /\ refs \in [Tab!Keys -> Nat] /\ IsFiniteSet(mounted) /\ mounted \subseteq Tab!Holders
      /\ \A j \in Tab!Keys : refs[j] <= Cardinality(HoldersOf(j))
      /\ \A j \in Tab!Keys \ lost : refs[j] = Cardinality(HoldersOf(j))
  BY DEF TabInv, CountsHolders
<1>4. HeldBy(mounted') \subseteq HeldBy(mounted)
  BY <1>1 DEF HeldBy
<1>5. k \in HeldBy(mounted') <=> \E other \in mounted' : Holds[other] = k
  BY DEF HeldBy
<1> HIDE DEF k
<1>6. /\ HoldersOf(k) = HoldersOf(k)' \cup {h} /\ h \notin HoldersOf(k)'
      /\ IsFiniteSet(HoldersOf(k)') /\ Cardinality(HoldersOf(k)') \in Nat
      /\ Cardinality(HoldersOf(k)) = Cardinality(HoldersOf(k)') + 1
  <2>1. HoldersOf(k) = HoldersOf(k)' \cup {h} /\ h \notin HoldersOf(k)'
    BY <1>1 DEF HoldersOf, k
  <2>2. IsFiniteSet(HoldersOf(k))
    BY HoldersCounted DEF TabInv
  <2>3. IsFiniteSet(HoldersOf(k)')
    BY <2>1, <2>2, FS_Subset
  <2>4. Cardinality(HoldersOf(k)' \cup {h}) = Cardinality(HoldersOf(k)') + 1
    BY <2>1, <2>3, FS_AddElement
  <2> QED BY <2>1, <2>3, <2>4, FS_CardinalityType
<1>7. k \in HeldBy(mounted') <=> HoldersOf(k)' # {}
  BY DEF HeldBy, HoldersOf
<1>8. Cardinality(HoldersOf(k)') = 0 <=> HoldersOf(k)' = {}
  BY <1>6, FS_EmptySet
<1>9. ASSUME NEW j, j # k PROVE HoldersOf(j)' = HoldersOf(j)
  BY <1>1, <1>9 DEF HoldersOf, k
<1>10. \A j : j # k => (j \in lost' <=> j \in lost)
  BY <1>1
<1>11. refs[k] \in Nat /\ refs[k] <= Cardinality(HoldersOf(k)) /\ (k \notin lost => refs[k] = Cardinality(HoldersOf(k)))
  BY <1>2, <1>3
<1>12. CountsHolders'
  <2>1. IsFiniteSet(mounted') /\ mounted' \subseteq Tab!Holders
    BY <1>1, <1>3, FS_Subset
  <2>2. refs' \in [Tab!Keys -> Nat]
    BY <1>1, <1>2, <1>3
  <2>3. ASSUME NEW j \in Tab!Keys
        PROVE  /\ refs'[j] <= Cardinality(HoldersOf(j)')
               /\ j \notin lost' => refs'[j] = Cardinality(HoldersOf(j)')
    <3>1. CASE j = k
      <4>1. refs'[k] = IF refs[k] = 0 THEN 0 ELSE refs[k] - 1
        BY <1>1, <1>2, <1>3
      <4>2. refs'[k] <= Cardinality(HoldersOf(k)')
        BY <1>6, <1>11, <4>1
      <4>3. ASSUME k \notin lost' PROVE refs'[k] = Cardinality(HoldersOf(k)')
        <5>1. CASE k \notin lost
          BY <1>6, <1>11, <4>1, <5>1
        <5>2. CASE k \in lost
          <6>1. ~(\E other \in mounted' : Holds[other] = k)
            BY <1>1, <4>3, <5>2
          <6>2. Cardinality(HoldersOf(k)') = 0
            BY <1>5, <1>7, <1>8, <6>1
          <6> QED BY <1>6, <1>11, <4>1, <6>2
        <5> QED BY <5>1, <5>2
      <4> QED BY <3>1, <4>2, <4>3
    <3>2. CASE j # k
      <4>1. refs'[j] = refs[j] /\ HoldersOf(j)' = HoldersOf(j)
        BY <1>1, <1>3, <1>9, <3>2
      <4> QED BY <1>3, <1>10, <3>2, <4>1
    <3> QED BY <3>1, <3>2
  <2> QED BY <2>1, <2>2, <2>3 DEF CountsHolders
<1>13. PacketsTyped' /\ LinkInOrder' /\ \A j : JoinComing(j) /\ (j # k \/ refs[k] > 1) => JoinComing(j)'
  <2>1. CASE refs[k] <= 1
    <3>1. Tab!Through(Tab!Leave(k))
      BY <1>1, <2>1
    <3> QED BY <1>1, <1>2, <1>11, <2>1, <3>1, AKey, ThroughOK DEF TabInv
  <2>2. CASE ~(refs[k] <= 1)
    BY <1>1, <2>2, SilentOK DEF TabInv
  <2> QED BY <2>1, <2>2
<1>14. ASSUME NEW j \in HeldBy(mounted') \ lost' PROVE JoinComing(j)'
  <2>1. CASE j = k
    <3>1. k \notin lost
      BY <1>1, <1>5, <1>14, <2>1
    <3>2. Cardinality(HoldersOf(k)') # 0
      BY <1>7, <1>8, <1>14, <2>1
    <3>3. refs[k] > 1
      BY <1>6, <1>11, <3>1, <3>2
    <3>4. JoinComing(k)
      BY <1>4, <1>14, <2>1, <3>1 DEF TabInv, JoinIsComing
    <3> QED BY <1>13, <2>1, <3>3, <3>4
  <2>2. CASE j # k
    <3>1. JoinComing(j)
      BY <1>4, <1>10, <1>14, <2>2 DEF TabInv, JoinIsComing
    <3> QED BY <1>13, <2>2, <3>1
  <2> QED BY <2>1, <2>2
<1>15. JoinIsComing'
  BY <1>14 DEF JoinIsComing
<1> QED BY <1>1, <1>12, <1>13, <1>15 DEF TabInv
-----------------------------------------------------------------------------
(* The connection.                                                         *)
LEMMA CountsStay ==
    ASSUME CountsHolders, UNCHANGED <<mounted, refs>>, lost \subseteq lost'
    PROVE  CountsHolders'
<1>1. \A k : HoldersOf(k)' = HoldersOf(k)
  BY DEF HoldersOf
<1> QED BY <1>1 DEF CountsHolders

(* All rooms with a holder are joined again.                               *)
LEMMA Rejoined ==
    ASSUME CountsHolders
    PROVE  /\ Tab!HandleSocketReconnect \in Seq(Packets)
           /\ \A k \in HeldBy(mounted) \ lost : EndsJoined(Tab!HandleSocketReconnect, k)
<1> DEFINE S == {k \in Tab!Keys : refs[k] > 0}
           n == Cardinality(S)
           f == Tab!SetToSeq(S)
           q == Tab!HandleSocketReconnect
<1>1. HeldBy(mounted) \ lost \subseteq S /\ S \subseteq HeldBy(mounted)
  BY HeldKeys
<1>2. IsFiniteSet(S)
  <2>1. IsFiniteSet(HeldBy(mounted))
    <3> DEFINE g == [h \in mounted |-> Holds[h]]
    <3>1. g \in Surjection(mounted, HeldBy(mounted))
      BY DEF Surjection, HeldBy
    <3> QED BY <3>1, FS_Surjection DEF CountsHolders
  <2> QED BY <1>1, <2>1, FS_Subset
<1>3. /\ f \in [1..n -> S] /\ n \in Nat
      /\ \A k \in S : \E i \in 1..n : f[i] = k /\ \A j \in 1..n : f[j] = k => j = i
  BY <1>2, InSomeOrder
<1>4. q = [i \in DOMAIN f |-> [op |-> "join", key |-> f[i]]]
  BY DEF Tab!HandleSocketReconnect, Tab!Packets
<1> HIDE DEF S, n, f, q
<1>5. DOMAIN q = 1..n /\ \A i \in 1..n : q[i] = Tab!Join(f[i])
  BY <1>3, <1>4 DEF Tab!Join
<1>6. \A i \in 1..n : f[i] \in Tab!Keys /\ Tab!Join(f[i]) \in Packets
  BY <1>3, AKey DEF S
<1>7. q \in Seq(Packets)
  <2>1. q = [i \in 1..n |-> Tab!Join(f[i])]
    BY <1>3, <1>4, <1>5
  <2>2. q \in [1..n -> Packets]
    BY <1>6, <2>1
  <2> QED BY <1>3, <2>2
<1>8. ASSUME NEW k \in S PROVE EndsJoined(q, k)
  <2>1. PICK i \in 1..n : f[i] = k /\ \A j \in 1..n : f[j] = k => j = i
    BY <1>3
  <2>2. \A j \in 1..n : q[j].key = f[j]
    BY <1>5, <1>6, AKey
  <2>3. \A j \in 1..n : j > i => q[j].key # k
    BY <2>1, <2>2
  <2> QED BY <1>5, <2>1, <2>3 DEF EndsJoined
<1> QED BY <1>1, <1>7, <1>8 DEF q

LEMMA ConnectedOK == ASSUME TabInv, NEW token \in BOOLEAN, Tab!Connect(token) PROVE TabInv'
<1>1. /\ link \in {"opening", "down"} /\ link' = "up" /\ again' = TRUE
      /\ waiting' = <<>> /\ buffer' = <<>> /\ UNCHANGED <<mounted, refs, lost, joining, rooms>>
      /\ wire' = buffer \o (IF again THEN Tab!HandleSocketReconnect ELSE <<>>) \o waiting
  BY DEF Tab!Connect, Tab!server
<1>2. CountsHolders'
  BY <1>1, CountsStay DEF TabInv
<1>3. CASE link = "opening"
  <2>1. ~again /\ buffer = <<>> /\ waiting \in Seq(Packets)
    BY <1>3 DEF TabInv, LinkInOrder, PacketsTyped
  <2>2. wire' = waiting
    BY <1>1, <2>1
  <2>3. PacketsTyped' /\ LinkInOrder'
    BY <1>1, <2>1, <2>2 DEF PacketsTyped, LinkInOrder
  <2>4. ASSUME NEW k \in HeldBy(mounted) \ lost PROVE JoinComing(k)'
    <3>1. EndsJoined(waiting, k)
      BY <1>3 DEF TabInv, JoinIsComing, JoinComing
    <3>2. EndsJoined(wire', k)
      BY <2>2, <3>1
    <3> QED BY <1>1, <3>2 DEF JoinComing, EndsJoined
  <2>5. JoinIsComing'
    BY <1>1, <2>4 DEF JoinIsComing, HeldBy
  <2> QED BY <1>1, <1>2, <2>3, <2>5 DEF TabInv
<1>4. CASE link = "down"
  <2> DEFINE q == Tab!HandleSocketReconnect
  <2>1. again /\ waiting = <<>> /\ buffer \in Seq(Packets)
    BY <1>4 DEF TabInv, LinkInOrder, PacketsTyped
  <2>2. q \in Seq(Packets) /\ \A k \in HeldBy(mounted) \ lost : EndsJoined(q, k)
    BY Rejoined DEF TabInv
  <2>3. wire' = buffer \o q \o <<>>
    BY <1>1, <2>1
  <2> HIDE DEF q
  <2>4. wire' = buffer \o q /\ wire' \in Seq(Packets)
    BY <2>1, <2>2, <2>3
  <2>5. PacketsTyped' /\ LinkInOrder'
    BY <1>1, <2>4 DEF PacketsTyped, LinkInOrder
  <2>6. ASSUME NEW k \in HeldBy(mounted) \ lost PROVE JoinComing(k)'
    <3>1. EndsJoined(wire', k)
      BY <2>1, <2>2, <2>4, ThenMore
    <3> QED BY <1>1, <3>1 DEF JoinComing, EndsJoined
  <2>7. JoinIsComing'
    BY <1>1, <2>6 DEF JoinIsComing, HeldBy
  <2> QED BY <1>1, <1>2, <2>5, <2>7 DEF TabInv
<1> QED BY <1>1, <1>3, <1>4

(* With the first attempt the joins that wait for it are lost, and with    *)
(* them every room that is held.                                           *)
LEMMA AttemptFailsOK == ASSUME TabInv, Tab!ConnectFails PROVE TabInv'
<1>1. /\ link = "opening" /\ link' = "none" /\ waiting' = <<>>
      /\ lost' = lost \cup {k \in Tab!Keys : refs[k] > 0 /\ Tab!Contains(waiting, Tab!Join(k))}
      /\ UNCHANGED <<mounted, refs, trusted, again, buffer, wire, joining, rooms>>
  BY DEF Tab!ConnectFails, Tab!server
<1>2. CountsHolders'
  BY <1>1, CountsStay DEF TabInv
<1>3. PacketsTyped' /\ LinkInOrder'
  BY <1>1 DEF TabInv, PacketsTyped, LinkInOrder
<1>4. ASSUME NEW k \in HeldBy(mounted) \ lost PROVE k \in lost'
  <2>1. k \in Tab!Keys /\ refs[k] > 0
    BY HeldKeys DEF TabInv
  <2>2. PICK i \in DOMAIN waiting : waiting[i] = Tab!Join(k)
    BY <1>1 DEF TabInv, JoinIsComing, JoinComing, EndsJoined
  <2>3. DOMAIN waiting = 1..Len(waiting)
    BY DEF TabInv, PacketsTyped
  <2>4. Tab!Contains(waiting, Tab!Join(k))
    BY <2>2, <2>3 DEF Tab!Contains
  <2> QED BY <1>1, <2>1, <2>4
<1>5. JoinIsComing'
  BY <1>1, <1>4 DEF JoinIsComing, HeldBy
<1> QED BY <1>1, <1>2, <1>3, <1>5 DEF TabInv

LEMMA EndedOK ==
    ASSUME TabInv, Tab!Disconnect \/ Tab!ReconnectFails
    PROVE  TabInv'
<1>1. /\ link' \in {"down", "closed"} /\ link \in {"up", "down"} /\ UNCHANGED <<mounted, refs, again, waiting, buffer, lost>>
      /\ wire' = <<>> \/ wire' = wire
      /\ joining' = joining \/ joining' = [k \in HeldChats |-> 0]
  BY DEF Tab!Disconnect, Tab!ReconnectFails, Tab!ConnectionEnds, Tab!server
<1>2. CountsHolders'
  BY <1>1, CountsStay DEF TabInv
<1>3. PacketsTyped' /\ LinkInOrder'
  BY <1>1 DEF TabInv, PacketsTyped, LinkInOrder
<1>4. JoinIsComing'
  BY <1>1 DEF JoinIsComing, JoinComing
<1>5. joining' \in [HeldChats -> Nat]
  BY <1>1 DEF TabInv
<1> QED BY <1>2, <1>3, <1>4, <1>5 DEF TabInv

LEMMA RefusedOK == ASSUME TabInv, Tab!HandleAuthFailure PROVE TabInv'
<1>1. /\ link = "up" /\ link' = "none" /\ again' = FALSE /\ wire' = <<>>
      /\ refs' = [k \in Tab!Keys |-> 0] /\ joining' = [k \in HeldChats |-> 0]
      /\ lost' = lost \cup {Holds[h] : h \in mounted}
      /\ UNCHANGED <<mounted, waiting, buffer>>
  BY DEF Tab!HandleAuthFailure, Tab!ConnectionEnds
<1>2. PacketsTyped' /\ LinkInOrder'
  BY <1>1 DEF TabInv, PacketsTyped, LinkInOrder
<1>3. JoinIsComing'
  BY <1>1 DEF JoinIsComing, HeldBy
<1>4. CountsHolders'
  <2>1. \A k : HoldersOf(k)' = HoldersOf(k)
    BY <1>1 DEF HoldersOf
  <2>2. \A k : Cardinality(HoldersOf(k)) \in Nat /\ (HoldersOf(k) = {} => Cardinality(HoldersOf(k)) = 0)
    BY HoldersCounted DEF TabInv
  <2>3. ASSUME NEW k \in Tab!Keys \ lost' PROVE HoldersOf(k) = {}
    BY <1>1, <2>3 DEF HoldersOf
  <2>4. refs' \in [Tab!Keys -> Nat] /\ \A k \in Tab!Keys : refs'[k] = 0
    BY <1>1
  <2>5. ASSUME NEW k \in Tab!Keys
        PROVE  /\ refs'[k] <= Cardinality(HoldersOf(k)')
               /\ k \notin lost' => refs'[k] = Cardinality(HoldersOf(k)')
    BY <2>1, <2>2, <2>3, <2>4
  <2> QED BY <1>1, <2>4, <2>5 DEF TabInv, CountsHolders
<1>5. joining' \in [HeldChats -> Nat]
  BY <1>1
<1> QED BY <1>2, <1>3, <1>4, <1>5 DEF TabInv

LEMMA SocketUsedOK == ASSUME TabInv, Tab!UseSocket PROVE TabInv'
<1>1. /\ link = "none" /\ link' = "opening"
      /\ UNCHANGED <<mounted, refs, trusted, again, waiting, buffer, wire, joining, rooms, lost>>
  BY DEF Tab!UseSocket, Tab!CreateConnection, Tab!server
<1>2. CountsHolders'
  BY <1>1, CountsStay DEF TabInv
<1>3. PacketsTyped' /\ LinkInOrder'
  BY <1>1 DEF TabInv, PacketsTyped, LinkInOrder
<1>4. HeldBy(mounted) \ lost = {}
  BY <1>1 DEF TabInv, JoinIsComing, JoinComing
<1>5. JoinIsComing'
  BY <1>1, <1>4 DEF JoinIsComing, HeldBy
<1> QED BY <1>1, <1>2, <1>3, <1>5 DEF TabInv

-----------------------------------------------------------------------------
(* The gateway.                                                            *)
LEMMA ReceivedOK == ASSUME TabInv, Tab!Receive PROVE TabInv'
<1> DEFINE p == Head(wire)
<1>1. /\ wire # <<>> /\ link = "up" /\ wire' = Tail(wire)
      /\ UNCHANGED <<mounted, refs, link, trusted, again, waiting, buffer, lost>>
  BY DEF Tab!Receive
<1>2. wire \in Seq(Packets) /\ joining \in [HeldChats -> Nat]
  BY DEF TabInv, PacketsTyped
<1>3. CountsHolders'
  BY <1>1, CountsStay DEF TabInv
<1>4. p \in Packets /\ Tail(wire) \in Seq(Packets)
  BY <1>1, <1>2, FirstTaken
<1>5. PacketsTyped' /\ LinkInOrder'
  BY <1>1, <1>4 DEF TabInv, PacketsTyped, LinkInOrder
<1>6. CASE ~trusted
  <2>1. UNCHANGED <<joining, rooms>>
    BY <1>6 DEF Tab!Receive, Tab!server
  <2>2. JoinIsComing'
    BY <1>1, <1>6, <2>1 DEF TabInv, JoinIsComing, JoinComing, HeldBy
  <2> QED BY <1>2, <1>3, <1>5, <2>1, <2>2 DEF TabInv
<1>7. CASE trusted
  <2>1. \/ p.op = "join" /\ p.key \in HeldContacts /\ rooms' = rooms \cup {p.key} /\ joining' = joining
        \/ /\ p.op = "join" /\ p.key \in HeldChats /\ rooms' = rooms
           /\ joining' = [joining EXCEPT ![p.key] = @ + 1]
        \/ p.op = "leave" /\ rooms' = rooms \ {p.key} /\ joining' = joining
    BY <1>7 DEF Tab!Receive, Tab!HandleContactJoin, Tab!HandleChatJoin, Tab!HandleLeave
  <2>2. joining' \in [HeldChats -> Nat]
    BY <1>2, <2>1
  <2> HIDE DEF p
  <2>3. ASSUME NEW k, p.key # k, ArrivesAt(k) PROVE ArrivesAt(k)'
    BY <1>2, <2>1, <2>3 DEF ArrivesAt
  <2>4. ASSUME NEW k \in Tab!Keys, p = Tab!Join(k) PROVE ArrivesAt(k)'
    <3>1. p.op = "join" /\ p.key = k
      BY <2>4, AKey
    <3> QED BY <1>2, <2>1, <3>1 DEF ArrivesAt
  <2>5. ASSUME NEW k \in HeldBy(mounted) \ lost PROVE JoinComing(k)'
    <3>1. k \in Tab!Keys
      BY HeldKeys DEF TabInv
    <3>2. EndsJoined(wire, k) \/ (SaysNothing(wire, k) /\ ArrivesAt(k))
      BY <1>1, <1>7 DEF TabInv, JoinIsComing, JoinComing
    <3>3. \/ EndsJoined(Tail(wire), k)
          \/ p = Tab!Join(k) /\ SaysNothing(Tail(wire), k)
          \/ p.key # k /\ SaysNothing(Tail(wire), k) /\ ArrivesAt(k)
      BY <1>1, <1>2, <3>2, FirstTaken DEF p
    <3>4. EndsJoined(wire', k) \/ (SaysNothing(wire', k) /\ ArrivesAt(k)')
      BY <1>1, <2>3, <2>4, <3>1, <3>3
    <3> QED BY <1>1, <3>4 DEF JoinComing, EndsJoined, SaysNothing
  <2>6. JoinIsComing'
    BY <1>1, <2>5 DEF JoinIsComing, HeldBy
  <2> QED BY <1>3, <1>5, <2>2, <2>6 DEF TabInv
<1> QED BY <1>6, <1>7

LEMMA ChatJoinedOK == ASSUME TabInv, NEW k \in HeldChats, Tab!JoinChat(k) PROVE TabInv'
<1>1. /\ joining[k] > 0 /\ joining' = [joining EXCEPT ![k] = @ - 1] /\ rooms' = rooms \cup {k}
      /\ UNCHANGED <<mounted, refs, link, trusted, again, waiting, buffer, wire, lost>>
  BY DEF Tab!JoinChat
<1>2. joining \in [HeldChats -> Nat] /\ joining' \in [HeldChats -> Nat]
  BY <1>1 DEF TabInv
<1>3. CountsHolders'
  BY <1>1, CountsStay DEF TabInv
<1>4. PacketsTyped' /\ LinkInOrder'
  BY <1>1 DEF TabInv, PacketsTyped, LinkInOrder
<1>5. ASSUME NEW j, ArrivesAt(j) PROVE ArrivesAt(j)'
  BY <1>1, <1>2, <1>5 DEF ArrivesAt
<1>6. ASSUME NEW j \in HeldBy(mounted) \ lost PROVE JoinComing(j)'
  <2>1. JoinComing(j)
    BY DEF TabInv, JoinIsComing
  <2> QED BY <1>1, <1>5, <2>1 DEF JoinComing, EndsJoined, SaysNothing
<1>7. JoinIsComing'
  BY <1>1, <1>6 DEF JoinIsComing, HeldBy
<1> QED BY <1>2, <1>3, <1>4, <1>7 DEF TabInv

-----------------------------------------------------------------------------
LEMMA TabStarts == Tab!Init => TabInv
<1> SUFFICES ASSUME Tab!Init PROVE TabInv
  OBVIOUS
<1>1. /\ mounted = {} /\ lost = {} /\ refs = [k \in Tab!Keys |-> 0]
      /\ joining = [k \in HeldChats |-> 0] /\ link = "none" /\ again = FALSE
      /\ waiting = <<>> /\ buffer = <<>> /\ wire = <<>>
  BY DEF Tab!Init
<1>2. \A k : HoldersOf(k) = {}
  BY <1>1 DEF HoldersOf
<1>3. CountsHolders
  <2>1. IsFiniteSet(mounted) /\ \A k : Cardinality(HoldersOf(k)) = 0
    BY <1>1, <1>2, FS_EmptySet
  <2>2. refs \in [Tab!Keys -> Nat] /\ \A k \in Tab!Keys : refs[k] = 0
    BY <1>1
  <2> QED BY <1>1, <2>1, <2>2 DEF CountsHolders
<1>4. PacketsTyped /\ LinkInOrder
  <2>1. PacketsTyped
    BY <1>1 DEF PacketsTyped
  <2>2. again \in BOOLEAN /\ (again <=> link \in {"up", "down", "closed"})
    BY <1>1
  <2> QED BY <1>1, <2>1, <2>2 DEF LinkInOrder
<1>5. JoinIsComing
  BY <1>1 DEF JoinIsComing, HeldBy
<1> QED BY <1>1, <1>3, <1>4, <1>5 DEF TabInv

LEMMA TabNext == TabInv /\ [Tab!Next]_Tab!vars => TabInv'
<1> SUFFICES ASSUME TabInv, [Tab!Next]_Tab!vars PROVE TabInv'
  OBVIOUS
<1>1. CASE UNCHANGED Tab!vars
  <2>1. UNCHANGED <<mounted, refs, link, trusted, again, waiting, buffer, wire, joining, rooms, lost>>
    BY <1>1 DEF Tab!vars
  <2>2. CountsHolders' /\ PacketsTyped' /\ LinkInOrder'
    BY <2>1, CountsStay DEF TabInv, PacketsTyped, LinkInOrder
  <2>3. JoinIsComing'
    BY <2>1 DEF TabInv, JoinIsComing, JoinComing, HeldBy, EndsJoined, SaysNothing, ArrivesAt
  <2> QED BY <2>1, <2>2, <2>3 DEF TabInv
<1>2. CASE Tab!Next
  BY <1>2, MountOfHolder, UnmountOfHolder, SocketUsedOK, ConnectedOK, AttemptFailsOK, EndedOK,
     RefusedOK, ReceivedOK, ChatJoinedOK DEF Tab!Next
<1> QED BY <1>1, <1>2

(* useContactRoom, useChatRoom, lib/socket.ts: once what was emitted has   *)
(* been handled, a connected tab is in every room its page holds that was  *)
(* not lost, whatever mounted, failed, dropped or was refused before.      *)
THEOREM HeldRoomsGetJoined == Tab!Spec => []HeldRoomsAreJoined
<1>1. TabInv => HeldRoomsAreJoined
  <2> SUFFICES ASSUME TabInv, Tab!Settled, NEW h \in mounted PROVE Holds[h] \in rooms \cup lost
    BY DEF HeldRoomsAreJoined, Tab!HeldRoomsAreJoined
  <2> DEFINE k == Holds[h]
  <2>1. link = "up" /\ trusted /\ wire = <<>> /\ \A r \in HeldChats : joining[r] = 0
    BY DEF Tab!Settled
  <2>2. CASE k \notin lost
    <3>1. EndsJoined(wire, k) \/ ArrivesAt(k)
      BY <2>1, <2>2 DEF TabInv, JoinIsComing, JoinComing, HeldBy
    <3>2. ~EndsJoined(wire, k)
      BY <2>1 DEF EndsJoined
    <3> QED BY <2>1, <3>1, <3>2 DEF ArrivesAt
  <2> QED BY <2>2
<1> QED BY <1>1, TabStarts, TabNext, PTL DEF Tab!Spec

(* What TabInv leaves out of the types.                                    *)
RestTyped ==
    /\ trusted \in BOOLEAN /\ rooms \subseteq Tab!Keys /\ lost \subseteq Tab!Keys
    /\ chances \in [Tab!Happenings -> Nat]

LEMMA ChanceSpent ==
    ASSUME RestTyped, NEW what \in Tab!Happenings, Tab!Spend(what)
    PROVE  chances' \in [Tab!Happenings -> Nat]
BY DEF RestTyped, Tab!Spend

LEMMA RestStays ==
    ASSUME TabInv, RestTyped, [Tab!Next]_Tab!vars
    PROVE  RestTyped'
<1>1. CASE UNCHANGED Tab!vars
  BY <1>1 DEF Tab!vars, RestTyped
<1>2. ASSUME NEW h \in Tab!Holders, Tab!Mount(h) PROVE RestTyped'
  <2>1. chances' \in [Tab!Happenings -> Nat]
    BY <1>2, ChanceSpent DEF Tab!Mount, Tab!Happenings
  <2>2. UNCHANGED <<trusted, rooms, lost>>
    BY <1>2 DEF Tab!Mount, Tab!server, Tab!Through, Tab!CreateConnection, Tab!Emitted, Tab!Silent
  <2> QED BY <2>1, <2>2 DEF RestTyped
<1>3. ASSUME NEW h \in Tab!Holders, Tab!Unmount(h) PROVE RestTyped'
  <2>1. lost' \subseteq lost
    BY <1>3 DEF Tab!Unmount
  <2>2. UNCHANGED <<trusted, rooms, chances>>
    BY <1>3 DEF Tab!Unmount, Tab!server, Tab!Through, Tab!CreateConnection, Tab!Emitted, Tab!Silent
  <2> QED BY <2>1, <2>2 DEF RestTyped
<1>4. CASE Tab!UseSocket
  BY <1>4 DEF Tab!UseSocket, Tab!CreateConnection, Tab!server, RestTyped
<1>5. ASSUME NEW token \in BOOLEAN, Tab!Connect(token) PROVE RestTyped'
  <2>1. chances' = chances \/ Tab!Spend("refusals")
    BY <1>5 DEF Tab!Connect
  <2>2. chances' \in [Tab!Happenings -> Nat]
    BY <2>1, ChanceSpent DEF RestTyped, Tab!Happenings
  <2>3. trusted' \in BOOLEAN /\ UNCHANGED <<rooms, lost>>
    BY <1>5 DEF Tab!Connect, Tab!server
  <2> QED BY <2>2, <2>3 DEF RestTyped
<1>6. CASE Tab!ConnectFails
  <2>1. chances' \in [Tab!Happenings -> Nat]
    BY <1>6, ChanceSpent DEF Tab!ConnectFails, Tab!Happenings
  <2>2. lost' \subseteq lost \cup Tab!Keys /\ UNCHANGED <<trusted, rooms>>
    BY <1>6 DEF Tab!ConnectFails, Tab!server
  <2> QED BY <2>1, <2>2 DEF RestTyped
<1>7. CASE Tab!Disconnect \/ Tab!ReconnectFails
  <2>1. chances' \in [Tab!Happenings -> Nat]
    BY <1>7, ChanceSpent DEF Tab!Disconnect, Tab!ReconnectFails, Tab!Happenings
  <2>2. rooms' \subseteq rooms /\ UNCHANGED <<trusted, lost>>
    BY <1>7 DEF Tab!Disconnect, Tab!ReconnectFails, Tab!ConnectionEnds, Tab!server
  <2> QED BY <2>1, <2>2 DEF RestTyped
<1>8. CASE Tab!HandleAuthFailure
  <2>1. lost' = lost \cup {Holds[h] : h \in mounted} /\ rooms' = {} /\ UNCHANGED <<trusted, chances>>
    BY <1>8 DEF Tab!HandleAuthFailure, Tab!ConnectionEnds
  <2>2. {Holds[h] : h \in mounted} \subseteq Tab!Keys
    BY HeldKeys DEF TabInv, HeldBy
  <2> QED BY <2>1, <2>2 DEF RestTyped
<1>9. CASE Tab!Receive
  <2>1. wire \in Seq(Packets) /\ wire # <<>>
    BY <1>9 DEF TabInv, PacketsTyped, Tab!Receive
  <2>2. Head(wire) \in Packets
    BY <2>1, FirstTaken
  <2>3. Head(wire).key \in Tab!Keys
    BY <2>2 DEF Packets
  <2>4. rooms' \subseteq rooms \cup {Head(wire).key} /\ UNCHANGED <<trusted, lost, chances>>
    BY <1>9 DEF Tab!Receive, Tab!HandleContactJoin, Tab!HandleChatJoin, Tab!HandleLeave, Tab!server
  <2> QED BY <2>3, <2>4 DEF RestTyped
<1>10. ASSUME NEW k \in HeldChats, Tab!JoinChat(k) PROVE RestTyped'
  BY <1>10 DEF Tab!JoinChat, RestTyped, Tab!Keys
<1> QED BY <1>1, <1>2, <1>3, <1>4, <1>5, <1>6, <1>7, <1>8, <1>9, <1>10 DEF Tab!Next

LEMMA TabTypes ==
    ASSUME TabInv, RestTyped
    PROVE  Tab!ConnectionsTypeOK
<1>1. \A S : Tab!Cardinality(S) = Cardinality(S) /\ Tab!IsFiniteSet(S) = IsFiniteSet(S)
  BY DEF Tab!Cardinality, Cardinality, Tab!IsFiniteSet, IsFiniteSet
<1>2. IsFiniteSet(Tab!Holders)
  BY <1>1, ScreensAssumption DEF Tab!HoldsOK
<1>3. Cardinality(Tab!Holders) \in Nat
  BY <1>2, FS_CardinalityType
<1>4. ASSUME NEW k \in Tab!Keys PROVE refs[k] \in 0..Cardinality(Tab!Holders)
  <2>1. HoldersOf(k) \subseteq Tab!Holders
    BY DEF HoldersOf, TabInv, CountsHolders
  <2>2. Cardinality(HoldersOf(k)) \in Nat /\ Cardinality(HoldersOf(k)) <= Cardinality(Tab!Holders)
    BY <1>2, <2>1, FS_Subset, FS_CardinalityType
  <2>3. refs[k] \in Nat /\ refs[k] <= Cardinality(HoldersOf(k))
    BY DEF TabInv, CountsHolders
  <2> QED BY <1>3, <2>2, <2>3
<1>5. refs \in [Tab!Keys -> 0..Tab!Cardinality(Tab!Holders)]
  <2>1. refs \in [Tab!Keys -> Nat]
    BY DEF TabInv, CountsHolders
  <2> QED BY <1>1, <1>4, <2>1
<1>6. \A q \in {waiting, buffer, wire} : q \in Seq(Tab!Packet)
  BY DEF TabInv, PacketsTyped, Packets, Tab!Packet
<1>7. link \in Tab!Links /\ {trusted, again} \subseteq BOOLEAN
  BY DEF TabInv, LinkInOrder, RestTyped, Tab!Links
<1>8. mounted \subseteq Tab!Holders /\ joining \in [HeldChats -> Nat]
  BY DEF TabInv, CountsHolders
<1> QED BY <1>5, <1>6, <1>7, <1>8 DEF Tab!ConnectionsTypeOK, RestTyped

(* lib/socket.ts: the packets, rooms and counts of a tab keep to their     *)
(* types; no room is held more often than there are components.            *)
THEOREM ConnectionsTypeCorrect == Tab!Spec => []Tab!ConnectionsTypeOK
<1>1. Tab!Init => TabInv /\ RestTyped
  <2>1. Tab!Init => RestTyped
    BY ScreensAssumption DEF Tab!Init, RestTyped, Tab!HoldsOK
  <2> QED BY <2>1, TabStarts
<1>2. TabInv /\ RestTyped /\ [Tab!Next]_Tab!vars => (TabInv /\ RestTyped)'
  BY TabNext, RestStays
<1>3. TabInv /\ RestTyped => Tab!ConnectionsTypeOK
  BY TabTypes
<1> QED BY <1>1, <1>2, <1>3, PTL DEF Tab!Spec

-----------------------------------------------------------------------------
(***************************************************************************)
(* One message of a chat.                                                  *)
(***************************************************************************)
ViewFields == {"stage", "joined", "late", "msg", "pins", "stars"}
FlightFields == {"op", "by", "w", "step", "got", "was", "mine"}
Queries == {"load", "pins", "stars"}

(* What a window opened after the message was gone shows.                  *)
GoneCopy(copy) == copy = Nothing \/ (DOMAIN copy = DOMAIN Message!CopyOf(row) /\ copy.deleted)
ShowsNoGone(v) ==
    /\ DOMAIN v = ViewFields /\ v.late \subseteq {"deleted", "hidden"}
    /\ v.late # {} => v.pins = Nothing /\ v.stars = Nothing
    /\ "hidden" \in v.late => v.msg = Nothing
    /\ "deleted" \in v.late => GoneCopy(v.msg)
    /\ v.stage = "closed" => v.msg = Nothing /\ v.pins = Nothing /\ v.stars = Nothing
(* What such a window asks, and what it is answered.                       *)
FlightTyped(c) ==
    /\ DOMAIN c = FlightFields /\ c.op \in Message!Changes \cup Queries
    /\ c.op = "hide" => c.step # "emit"
    /\ c.w \in Message!Windows \cup {Nothing}
    /\ c.w # Nothing => c.by = Owner[c.w]
AsksForGone(c, late) ==
    late # {} =>
        /\ c.op \in Queries
        /\ c.step = "answer" /\ c.op \in {"pins", "stars"} => c.got = Nothing
        /\ c.step = "answer" /\ c.op = "load" => /\ "hidden" \in late => c.got = Nothing
                                                 /\ "deleted" \in late => GoneCopy(c.got)

Functions == \E S, T : window \in [Message!Windows -> S] /\ flights \in [DOMAIN flights -> T]
RowFields ==
    /\ DOMAIN row = {"text", "deleted", "pinned", "starred", "reacts", "hidden"}
    /\ row.deleted \in BOOLEAN
ViewsOK == \A w \in Message!Windows : ShowsNoGone(window[w])
FlightsTyped == \A k \in DOMAIN flights : FlightTyped(flights[k])
FlightsOK ==
    \A k \in DOMAIN flights :
        LET w == flights[k].w IN
        w # Nothing => window[w].stage # "closed" /\ AsksForGone(flights[k], window[w].late)
PushesTyped ==
    /\ DOMAIN pushes = Message!Windows
    /\ \A w \in Message!Windows :
          /\ \E S : pushes[w] \in Seq(S)
          /\ \A i \in DOMAIN pushes[w] : pushes[w][i].op \in Message!Changes \ {"hide"}
LateIsTrue ==
    \A w \in Message!Windows :
        /\ "deleted" \in window[w].late => row.deleted
        /\ "hidden" \in window[w].late => Owner[w] \in row.hidden
GoneInv ==
    /\ Functions /\ RowFields /\ ViewsOK /\ FlightsTyped /\ FlightsOK /\ PushesTyped /\ LateIsTrue

-----------------------------------------------------------------------------
LEMMA ChangesAndQueries == Message!Changes \cap Queries = {}
BY DEF Message!Changes, Queries

(* The next state of the server: one call moves on, and a row that is      *)
(* deleted or hidden stays so.                                             *)
RowGoesOn ==
    /\ DOMAIN row' = DOMAIN row
    /\ row'.deleted \in {TRUE, row.deleted}
    /\ row.hidden \subseteq row'.hidden
SameCall(c, d) == DOMAIN d = FlightFields /\ d.op = c.op /\ d.by = c.by /\ d.w = c.w

LEMMA RowOnGone ==
    ASSUME RowFields, ViewsOK, LateIsTrue, RowGoesOn, UNCHANGED window
    PROVE  RowFields' /\ ViewsOK' /\ LateIsTrue'
<1>1. RowFields'
  BY DEF RowFields, RowGoesOn
<1>2. \A c : GoneCopy(c) => GoneCopy(c)'
  BY DEF GoneCopy, Message!CopyOf
<1>3. ViewsOK'
  <2> SUFFICES ASSUME NEW w \in Message!Windows PROVE ShowsNoGone(window[w])'
    BY DEF ViewsOK
  <2>1. ShowsNoGone(window[w])
    BY DEF ViewsOK
  <2> QED BY <2>1, <1>2 DEF ShowsNoGone
<1>4. LateIsTrue'
  BY DEF LateIsTrue, RowGoesOn
<1> QED BY <1>1, <1>3, <1>4

LEMMA OneFlightMoves ==
    ASSUME GoneInv, NEW k \in DOMAIN flights, NEW d, flights' = [flights EXCEPT ![k] = d],
           UNCHANGED window, RowGoesOn, PushesTyped', FlightTyped(d), d.w = flights[k].w,
           d.w # Nothing => AsksForGone(d, window[d.w].late)
    PROVE  GoneInv'
<1>1. RowFields' /\ ViewsOK' /\ LateIsTrue'
  BY RowOnGone DEF GoneInv
<1>2. PICK S, T : window \in [Message!Windows -> S] /\ flights \in [DOMAIN flights -> T]
  BY DEF GoneInv, Functions
<1>3. flights' \in [DOMAIN flights -> T \cup {d}]
  BY <1>2
<1>4. Functions'
  BY <1>2, <1>3 DEF Functions
<1>5. DOMAIN flights' = DOMAIN flights /\ \A j \in DOMAIN flights : flights'[j] = IF j = k THEN d ELSE flights[j]
  BY <1>2
<1>6. \A c : FlightTyped(c) => FlightTyped(c)'
  BY DEF FlightTyped
<1>7. FlightsTyped'
  BY <1>5, <1>6 DEF GoneInv, FlightsTyped
<1>8. \A c, l : AsksForGone(c, l) => AsksForGone(c, l)'
  BY DEF AsksForGone, GoneCopy, Message!CopyOf
<1>9. FlightsOK'
  BY <1>5, <1>8 DEF GoneInv, FlightsOK
<1> QED BY <1>1, <1>4, <1>7, <1>9 DEF GoneInv

(* A change is not asked for by a window that was opened afterwards.       *)
LEMMA ChangeMoves ==
    ASSUME GoneInv, NEW k \in DOMAIN flights, flights[k].op \in Message!Changes,
           NEW d, flights' = [flights EXCEPT ![k] = d], SameCall(flights[k], d),
           d.op = "hide" => d.step # "emit",
           UNCHANGED window, RowGoesOn, PushesTyped'
    PROVE  GoneInv'
<1>1. FlightTyped(flights[k])
  BY DEF GoneInv, FlightsTyped
<1>2. FlightTyped(d)
  BY <1>1 DEF FlightTyped, SameCall
<1>3. ASSUME d.w # Nothing PROVE AsksForGone(d, window[d.w].late)
  <2>1. AsksForGone(flights[k], window[d.w].late)
    BY <1>3 DEF GoneInv, FlightsOK, SameCall
  <2> QED BY <2>1, ChangesAndQueries DEF AsksForGone
<1> QED BY <1>2, <1>3, OneFlightMoves DEF SameCall

(* A query moves on: what it answers a window that was opened afterwards.  *)
LEMMA QueryMoves ==
    ASSUME GoneInv, NEW k \in DOMAIN flights, flights[k].op \in Queries,
           NEW d, flights' = [flights EXCEPT ![k] = d], SameCall(flights[k], d),
           UNCHANGED <<row, window, pushes>>,
           d.op \in {"pins", "stars"} /\ (row.deleted \/ d.by \in row.hidden) => d.got = Nothing,
           d.op = "load" => d.got = Nothing \/ (d.got = Message!CopyOf(row) /\ d.by \notin row.hidden)
    PROVE  GoneInv'
<1>1. FlightTyped(flights[k])
  BY DEF GoneInv, FlightsTyped
<1>2. d.op # "hide"
  BY DEF SameCall, Queries
<1>3. FlightTyped(d)
  BY <1>1, <1>2 DEF FlightTyped, SameCall
<1>4. ASSUME d.w # Nothing PROVE AsksForGone(d, window[d.w].late)
  <2> DEFINE late == window[d.w].late
  <2>1. d.w \in Message!Windows /\ d.by = Owner[d.w]
    BY <1>3, <1>4 DEF FlightTyped
  <2>2. ShowsNoGone(window[d.w])
    BY <2>1 DEF GoneInv, ViewsOK
  <2>3. ("deleted" \in late => row.deleted) /\ ("hidden" \in late => d.by \in row.hidden)
    BY <2>1 DEF GoneInv, LateIsTrue
  <2>4. late # {} => row.deleted \/ d.by \in row.hidden
    BY <2>2, <2>3 DEF ShowsNoGone
  <2>5. d.op = "load" /\ "deleted" \in late => GoneCopy(d.got)
    <3>1. Message!CopyOf(row).deleted = row.deleted
      BY DEF Message!CopyOf
    <3> QED BY <2>3, <3>1 DEF GoneCopy
  <2>6. d.op = "load" /\ "hidden" \in late => d.got = Nothing
    BY <2>3
  <2>7. d.op \in {"pins", "stars"} /\ late # {} => d.got = Nothing
    BY <2>4
  <2>8. d.op \in Queries
    BY DEF SameCall
  <2> QED BY <2>5, <2>6, <2>7, <2>8 DEF AsksForGone
<1>5. RowGoesOn
  BY DEF RowGoesOn
<1>6. PushesTyped'
  BY DEF GoneInv, PushesTyped
<1> QED BY <1>3, <1>4, <1>5, <1>6, OneFlightMoves DEF SameCall

-----------------------------------------------------------------------------
LEMMA Unwritten ==
    ASSUME GoneInv, UNCHANGED pushes
    PROVE  PushesTyped'
BY DEF GoneInv, PushesTyped

LEMMA StepIs ==
    ASSUME GoneInv, NEW k \in DOMAIN flights, NEW s, Message!To(k, s)
    PROVE  LET d == [flights[k] EXCEPT !.step = s] IN
           /\ flights' = [flights EXCEPT ![k] = d] /\ SameCall(flights[k], d)
           /\ d.step = s /\ d.got = flights[k].got
<1> DEFINE d == [flights[k] EXCEPT !.step = s]
<1>1. DOMAIN flights[k] = FlightFields
  BY DEF GoneInv, FlightsTyped, FlightTyped
<1>2. flights' = [flights EXCEPT ![k] = d]
  BY DEF Message!To
<1>3. SameCall(flights[k], d) /\ d.step = s /\ d.got = flights[k].got
  BY <1>1 DEF SameCall, FlightFields
<1> QED BY <1>2, <1>3

LEMMA QueryAnswered ==
    ASSUME GoneInv, NEW k \in DOMAIN flights, flights[k].op \in Queries, NEW copy, Message!Answers(k, copy),
           /\ flights[k].op \in {"pins", "stars"}
           /\ row.deleted \/ flights[k].by \in row.hidden
           => copy = Nothing,
           flights[k].op = "load" =>
               copy = Nothing \/ (copy = Message!CopyOf(row) /\ flights[k].by \notin row.hidden)
    PROVE  GoneInv'
<1> DEFINE d == [flights[k] EXCEPT !.step = "answer", !.got = copy]
<1>1. DOMAIN flights[k] = FlightFields
  BY DEF GoneInv, FlightsTyped, FlightTyped
<1>2. flights' = [flights EXCEPT ![k] = d] /\ UNCHANGED <<row, window, pushes>>
  BY DEF Message!Answers
<1>3. SameCall(flights[k], d) /\ d.got = copy
  BY <1>1 DEF SameCall, FlightFields
<1> HIDE DEF d
<1> QED BY <1>2, <1>3, QueryMoves DEF SameCall

LEMMA QueriesOK ==
    ASSUME GoneInv, NEW k \in DOMAIN flights,
           Message!GetMessages(k) \/ Message!GetPinnedMessages(k) \/ Message!GetStarredMessages(k)
    PROVE  GoneInv'
<1>1. CASE Message!GetMessages(k)
  <2> DEFINE copy == IF Message!Visible(flights[k].by) THEN Message!CopyOf(row) ELSE Nothing
  <2>1. flights[k].op = "load" /\ Message!Answers(k, copy)
    BY <1>1 DEF Message!GetMessages, Message!At
  <2>2. copy = Nothing \/ (copy = Message!CopyOf(row) /\ flights[k].by \notin row.hidden)
    BY DEF Message!Visible
  <2> HIDE DEF copy
  <2> QED BY <2>1, <2>2, QueryAnswered DEF Queries
<1>2. CASE Message!GetPinnedMessages(k)
  <2> DEFINE copy == IF row.pinned /\ ~row.deleted /\ Message!Visible(flights[k].by)
                       THEN Message!CopyOf(row) ELSE Nothing
  <2>1. flights[k].op = "pins" /\ Message!Answers(k, copy)
    BY <1>2 DEF Message!GetPinnedMessages, Message!At
  <2>2. row.deleted \/ flights[k].by \in row.hidden => copy = Nothing
    BY DEF Message!Visible
  <2> HIDE DEF copy
  <2> QED BY <2>1, <2>2, QueryAnswered DEF Queries
<1>3. CASE Message!GetStarredMessages(k)
  <2> DEFINE copy == IF row.starred /\ ~row.deleted /\ Message!Visible(flights[k].by)
                       THEN Message!CopyOf(row) ELSE Nothing
  <2>1. flights[k].op = "stars" /\ Message!Answers(k, copy)
    BY <1>3 DEF Message!GetStarredMessages, Message!At
  <2>2. row.deleted \/ flights[k].by \in row.hidden => copy = Nothing
    BY DEF Message!Visible
  <2> HIDE DEF copy
  <2> QED BY <2>1, <2>2, QueryAnswered DEF Queries
<1> QED BY <1>1, <1>2, <1>3

LEMMA DecidingOK ==
    ASSUME GoneInv, NEW k \in DOMAIN flights, flights[k].op \in Message!Changes,
           NEW was, Message!ReadFor(k, was)
    PROVE  GoneInv'
<1> DEFINE d == [flights[k] EXCEPT !.step = "write", !.was = was]
<1>1. DOMAIN flights[k] = FlightFields
  BY DEF GoneInv, FlightsTyped, FlightTyped
<1>2. flights' = [flights EXCEPT ![k] = d] /\ UNCHANGED <<row, window, pushes>>
  BY DEF Message!ReadFor
<1>3. SameCall(flights[k], d) /\ d.step = "write"
  BY <1>1 DEF SameCall, FlightFields
<1>4. RowGoesOn
  BY <1>2 DEF RowGoesOn
<1> HIDE DEF d
<1> QED BY <1>2, <1>3, <1>4, Unwritten, ChangeMoves

LEMMA SteppingOK ==
    ASSUME GoneInv, NEW k \in DOMAIN flights, flights[k].op \in Message!Changes,
           NEW s, s # "emit", Message!To(k, s), UNCHANGED <<window, pushes>>, RowGoesOn
    PROVE  GoneInv'
<1> DEFINE d == [flights[k] EXCEPT !.step = s]
<1>1. flights' = [flights EXCEPT ![k] = d] /\ SameCall(flights[k], d) /\ d.step = s
  BY StepIs
<1> HIDE DEF d
<1> QED BY <1>1, Unwritten, ChangeMoves

LEMMA WritingOK ==
    ASSUME GoneInv, NEW k \in DOMAIN flights, flights[k].op \in Message!Changes \ {"hide"},
           NEW new, Message!Write(k, new), DOMAIN new = DOMAIN row,
           new.deleted \in {TRUE, row.deleted}, new.hidden = row.hidden
    PROVE  GoneInv'
<1> DEFINE d == [flights[k] EXCEPT !.step = "emit", !.got = Message!CopyOf(new)]
<1>1. DOMAIN flights[k] = FlightFields
  BY DEF GoneInv, FlightsTyped, FlightTyped
<1>2. flights' = [flights EXCEPT ![k] = d] /\ row' = new /\ UNCHANGED <<window, pushes>>
  BY DEF Message!Write
<1>3. SameCall(flights[k], d) /\ d.op # "hide"
  BY <1>1 DEF SameCall, FlightFields
<1>4. RowGoesOn
  BY <1>2 DEF RowGoesOn
<1> HIDE DEF d
<1> QED BY <1>2, <1>3, <1>4, Unwritten, ChangeMoves

LEMMA ReactedOK ==
    ASSUME GoneInv, NEW k \in DOMAIN flights, flights[k].op = "react",
           NEW reacts, NEW added, Message!Reacted(k, reacts, added)
    PROVE  GoneInv'
<1> DEFINE d == [flights[k] EXCEPT !.step = "emit", !.was = added]
<1>1. DOMAIN flights[k] = FlightFields /\ RowFields
  BY DEF GoneInv, FlightsTyped, FlightTyped
<1>2. /\ flights' = [flights EXCEPT ![k] = d]
      /\ row' = [row EXCEPT !.reacts = reacts] /\ UNCHANGED <<window, pushes>>
  BY DEF Message!Reacted
<1>3. SameCall(flights[k], d) /\ d.op # "hide"
  BY <1>1 DEF SameCall, FlightFields
<1>4. RowGoesOn
  BY <1>1, <1>2 DEF RowGoesOn, RowFields
<1> HIDE DEF d
<1> QED BY <1>2, <1>3, <1>4, Unwritten, ChangeMoves DEF Message!Changes

LEMMA ChangesOK ==
    ASSUME GoneInv, NEW k \in DOMAIN flights,
           \/ Message!TogglePinMessage(k) \/ Message!ToggleStarMessage(k) \/ Message!EditMessage(k)
           \/ Message!DeleteMessageForEveryone(k) \/ Message!DeleteMessageForMe(k)
           \/ Message!ToggleReaction(k)
    PROVE  GoneInv'
<1>1. RowFields
  BY DEF GoneInv
<1>2. UNCHANGED row => RowGoesOn
  BY DEF RowGoesOn
<1>3. ASSUME NEW s, s # "emit", flights[k].op \in Message!Changes, Message!To(k, s),
             UNCHANGED <<row, window, pushes>>
      PROVE  GoneInv'
  BY <1>2, <1>3, SteppingOK
<1>4. CASE Message!TogglePinMessage(k)
  <2>1. flights[k].op \in Message!Changes \ {"hide"}
    BY <1>4 DEF Message!TogglePinMessage, Message!At, Message!Changes
  <2>2. CASE Message!ReadFor(k, row.pinned)
    BY <2>1, <2>2, DecidingOK
  <2> DEFINE new == [row EXCEPT !.pinned = ~flights[k].was]
  <2>3. CASE Message!Write(k, new)
    <3>1. DOMAIN new = DOMAIN row /\ new.deleted = row.deleted /\ new.hidden = row.hidden
      BY <1>1 DEF RowFields
    <3> HIDE DEF new
    <3> QED BY <2>1, <2>3, <3>1, WritingOK
  <2> QED BY <1>4, <2>2, <2>3 DEF Message!TogglePinMessage
<1>5. CASE Message!ToggleStarMessage(k)
  <2>1. flights[k].op \in Message!Changes \ {"hide"}
    BY <1>5 DEF Message!ToggleStarMessage, Message!At, Message!Changes
  <2>2. CASE Message!ReadFor(k, row.starred)
    BY <2>1, <2>2, DecidingOK
  <2> DEFINE new == [row EXCEPT !.starred = ~flights[k].was]
  <2>3. CASE Message!Write(k, new)
    <3>1. DOMAIN new = DOMAIN row /\ new.deleted = row.deleted /\ new.hidden = row.hidden
      BY <1>1 DEF RowFields
    <3> HIDE DEF new
    <3> QED BY <2>1, <2>3, <3>1, WritingOK
  <2> QED BY <1>5, <2>2, <2>3 DEF Message!ToggleStarMessage
<1>6. CASE Message!EditMessage(k)
  <2>1. flights[k].op \in Message!Changes \ {"hide"}
    BY <1>6 DEF Message!EditMessage, Message!At, Message!Changes
  <2>2. CASE Message!ReadFor(k, FALSE)
    BY <2>1, <2>2, DecidingOK
  <2>3. CASE Message!Reject(k)
    BY <1>3, <2>1, <2>3 DEF Message!Reject
  <2> DEFINE new == [row EXCEPT !.text = "new"]
  <2>4. CASE Message!Write(k, new)
    <3>1. DOMAIN new = DOMAIN row /\ new.deleted = row.deleted /\ new.hidden = row.hidden
      BY <1>1 DEF RowFields
    <3> HIDE DEF new
    <3> QED BY <2>1, <2>4, <3>1, WritingOK
  <2> QED BY <1>6, <2>2, <2>3, <2>4 DEF Message!EditMessage
<1>7. CASE Message!DeleteMessageForEveryone(k)
  <2>1. flights[k].op \in Message!Changes \ {"hide"}
    BY <1>7 DEF Message!DeleteMessageForEveryone, Message!At, Message!Changes
  <2>2. CASE Message!ReadFor(k, FALSE)
    BY <2>1, <2>2, DecidingOK
  <2>3. CASE Message!Reject(k)
    BY <1>3, <2>1, <2>3 DEF Message!Reject
  <2> DEFINE new == [row EXCEPT !.deleted = TRUE, !.text = "gone"]
  <2>4. CASE Message!Write(k, new)
    <3>1. DOMAIN new = DOMAIN row /\ new.deleted = TRUE /\ new.hidden = row.hidden
      BY <1>1 DEF RowFields
    <3> HIDE DEF new
    <3> QED BY <2>1, <2>4, <3>1, WritingOK
  <2> QED BY <1>7, <2>2, <2>3, <2>4 DEF Message!DeleteMessageForEveryone
<1>8. CASE Message!DeleteMessageForMe(k)
  <2>1. flights[k].op \in Message!Changes /\ flights[k].op = "hide"
    BY <1>8 DEF Message!DeleteMessageForMe, Message!At, Message!Changes
  <2>2. CASE Message!ReadFor(k, FALSE)
    BY <2>1, <2>2, DecidingOK
  <2>3. CASE Message!Answers(k, Message!CopyOf(row))
    <3> DEFINE d == [flights[k] EXCEPT !.step = "answer", !.got = Message!CopyOf(row)]
    <3>1. DOMAIN flights[k] = FlightFields
      BY DEF GoneInv, FlightsTyped, FlightTyped
    <3>2. flights' = [flights EXCEPT ![k] = d] /\ UNCHANGED <<row, window, pushes>>
      BY <2>3 DEF Message!Answers
    <3>3. SameCall(flights[k], d) /\ d.step = "answer"
      BY <3>1 DEF SameCall, FlightFields
    <3> HIDE DEF d
    <3> QED BY <1>2, <2>1, <3>2, <3>3, Unwritten, ChangeMoves
  <2> DEFINE new == [row EXCEPT !.hidden = @ \cup {flights[k].by}]
  <2>4. CASE row' = new /\ Message!To(k, "answer") /\ UNCHANGED <<window, pushes>>
    <3>1. DOMAIN new = DOMAIN row /\ new.deleted = row.deleted /\ row.hidden \subseteq new.hidden
      BY <1>1 DEF RowFields
    <3>2. RowGoesOn
      BY <2>4, <3>1 DEF RowGoesOn
    <3> QED BY <2>1, <2>4, <3>2, SteppingOK
  <2> QED BY <1>8, <2>2, <2>3, <2>4 DEF Message!DeleteMessageForMe
<1>9. CASE Message!ToggleReaction(k)
  <2>1. flights[k].op \in Message!Changes /\ flights[k].op = "react"
    BY <1>9 DEF Message!ToggleReaction, Message!At, Message!Changes
  <2>2. CASE Message!ReadFor(k, FALSE)
    BY <2>1, <2>2, DecidingOK
  <2>3. CASE Message!Reject(k)
    BY <1>3, <2>1, <2>3 DEF Message!Reject
  <2>4. CASE \E reacts, added : Message!Reacted(k, reacts, added)
    BY <2>1, <2>4, ReactedOK
  <2>5. CASE Message!To(k, "remove") /\ UNCHANGED <<row, window, pushes, chores>>
    BY <1>3, <2>1, <2>5
  <2> QED BY <1>9, <2>2, <2>3, <2>4, <2>5 DEF Message!ToggleReaction
<1> QED BY <1>4, <1>5, <1>6, <1>7, <1>8, <1>9

-----------------------------------------------------------------------------
(* What a push and an answer do to what a window shows.                    *)
Becomes(v, n) == ShowsNoGone(n) /\ n.late = v.late /\ (n.stage = "closed" <=> v.stage = "closed")
(* A step that changes the copies a window keeps, and nothing else.        *)
KeepsGone(v, n) ==
    /\ DOMAIN n = DOMAIN v /\ n.late = v.late /\ (n.stage = "closed" <=> v.stage = "closed")
    /\ v.msg = Nothing => n.msg = Nothing
    /\ GoneCopy(v.msg) => GoneCopy(n.msg)
    /\ v.pins = Nothing => n.pins = Nothing
    /\ v.stars = Nothing => n.stars = Nothing

LEMMA KeptGone == ASSUME NEW v, NEW n, ShowsNoGone(v), KeepsGone(v, n) PROVE Becomes(v, n)
<1>1. v.late # {} => n.pins = Nothing /\ n.stars = Nothing
  BY DEF ShowsNoGone, KeepsGone
<1>2. "hidden" \in v.late => n.msg = Nothing
  BY DEF ShowsNoGone, KeepsGone
<1>3. GoneCopy(v.msg) => GoneCopy(n.msg)
  BY DEF GoneCopy, KeepsGone
<1> QED BY <1>1, <1>2, <1>3 DEF ShowsNoGone, KeepsGone, Becomes

LEMMA ReactionKeeps ==
    ASSUME NEW v, DOMAIN v = ViewFields, NEW u, NEW there
    PROVE  KeepsGone(v, Message!Reaction(v, u, there))
<1> DEFINE n == Message!Reaction(v, u, there)
           copy == Message!ReactedBy(v.msg, u, there)
<1>1. n.msg = IF v.msg = Nothing THEN Nothing ELSE copy
  BY DEF Message!Reaction, ViewFields
<1>2. /\ DOMAIN n = DOMAIN v /\ n.late = v.late /\ n.stage = v.stage
      /\ n.pins = v.pins /\ n.stars = v.stars
  BY DEF Message!Reaction, ViewFields
<1>3. GoneCopy(v.msg) /\ v.msg # Nothing => GoneCopy(copy)
  BY DEF Message!ReactedBy, GoneCopy, Message!CopyOf
<1> HIDE DEF n, copy
<1>4. GoneCopy(v.msg) => GoneCopy(n.msg)
  BY <1>1, <1>3 DEF GoneCopy
<1>5. KeepsGone(v, n)
  BY <1>1, <1>2, <1>4 DEF KeepsGone
<1> QED BY <1>5 DEF n

LEMMA NotLate ==
    ASSUME NEW v, NEW n, ShowsNoGone(v), v.late = {}, DOMAIN n = DOMAIN v, n.late = v.late,
           n.stage = v.stage, v.stage # "closed"
    PROVE  Becomes(v, n)
BY DEF ShowsNoGone, Becomes

LEMMA PushShows ==
    ASSUME NEW v, NEW e, ShowsNoGone(v), e.op \in Message!Changes \ {"hide"}
    PROVE  Becomes(v, Message!AfterPush(v, e))
<1> DEFINE n == Message!AfterPush(v, e)
<1>1. DOMAIN v = ViewFields
  BY DEF ShowsNoGone
<1>2. CASE e.op \in {"pin", "unpin"}
  <2>1. n = Message!OnMessagePinned(v, e)
    BY <1>2 DEF Message!AfterPush
  <2> HIDE DEF n
  <2>2. KeepsGone(v, n)
    BY <1>1, <2>1 DEF Message!OnMessagePinned, KeepsGone, ViewFields, GoneCopy, Message!CopyOf
  <2> QED BY <2>2, KeptGone DEF n
<1>3. CASE e.op \in {"star", "unstar"}
  <2>1. n = Message!OnMessageStarred(v, e)
    BY <1>3 DEF Message!AfterPush
  <2> HIDE DEF n
  <2>2. KeepsGone(v, n)
    BY <1>1, <2>1 DEF Message!OnMessageStarred, KeepsGone, ViewFields, GoneCopy, Message!CopyOf
  <2> QED BY <2>2, KeptGone DEF n
<1>4. CASE e.op = "edit"
  <2>1. n = Message!OnMessageEdited(v, e)
    BY <1>4 DEF Message!AfterPush
  <2> HIDE DEF n
  <2>2. KeepsGone(v, n)
    BY <1>1, <2>1 DEF Message!OnMessageEdited, KeepsGone, ViewFields, GoneCopy, Message!CopyOf
  <2> QED BY <2>2, KeptGone DEF n
<1>5. CASE e.op = "delete"
  <2>1. n = Message!OnMessageDeleted(v)
    BY <1>5 DEF Message!AfterPush
  <2> HIDE DEF n
  <2>2. KeepsGone(v, n)
    BY <1>1, <2>1 DEF Message!OnMessageDeleted, KeepsGone, ViewFields, GoneCopy, Message!CopyOf
  <2> QED BY <2>2, KeptGone DEF n
<1>6. CASE e.op = "react"
  <2>1. n = Message!Reaction(v, e.by, e.on)
    BY <1>6 DEF Message!AfterPush, Message!OnMessageReacted
  <2> HIDE DEF n
  <2>2. KeepsGone(v, n)
    BY <1>1, <2>1, ReactionKeeps
  <2> QED BY <2>2, KeptGone DEF n
<1> QED BY <1>2, <1>3, <1>4, <1>5, <1>6 DEF Message!Changes

(* An answer is to a question of the window, or the window is not late.    *)
LEMMA AnswerShows ==
    ASSUME NEW v, NEW c, ShowsNoGone(v), c.op \in Message!Changes \cup Queries,
           c.step = "answer", AsksForGone(c, v.late), v.stage # "closed"
    PROVE  Becomes(v, Message!AfterAnswer(v, c))
<1> DEFINE n == Message!AfterAnswer(v, c)
<1>1. DOMAIN v = ViewFields
  BY DEF ShowsNoGone
<1>2. CASE c.op = "load"
  <2>1. n = [v EXCEPT !.stage = "open", !.msg = c.got]
    BY <1>2 DEF Message!AfterAnswer
  <2> HIDE DEF n
  <2>2. /\ DOMAIN n = DOMAIN v /\ n.late = v.late /\ n.msg = c.got
        /\ n.pins = v.pins /\ n.stars = v.stars /\ n.stage = "open"
    BY <1>1, <2>1 DEF ViewFields
  <2> QED BY <1>2, <2>2 DEF n, Becomes, ShowsNoGone, AsksForGone
<1>3. CASE c.op = "pins"
  <2>1. n = [v EXCEPT !.pins = c.got]
    BY <1>3 DEF Message!AfterAnswer
  <2> HIDE DEF n
  <2>2. /\ DOMAIN n = DOMAIN v /\ n.late = v.late /\ n.msg = v.msg
        /\ n.pins = c.got /\ n.stars = v.stars /\ n.stage = v.stage
    BY <1>1, <2>1 DEF ViewFields
  <2> QED BY <1>3, <2>2 DEF n, Becomes, ShowsNoGone, AsksForGone
<1>4. CASE c.op = "stars"
  <2>1. n = [v EXCEPT !.stars = c.got]
    BY <1>4 DEF Message!AfterAnswer
  <2> HIDE DEF n
  <2>2. /\ DOMAIN n = DOMAIN v /\ n.late = v.late /\ n.msg = v.msg
        /\ n.pins = v.pins /\ n.stars = c.got /\ n.stage = v.stage
    BY <1>1, <2>1 DEF ViewFields
  <2> QED BY <1>4, <2>2 DEF n, Becomes, ShowsNoGone, AsksForGone
<1>5. CASE c.op \in Message!Changes
  <2>1. v.late = {}
    BY <1>5, ChangesAndQueries DEF AsksForGone
  <2>2. DOMAIN n = DOMAIN v /\ n.late = v.late /\ n.stage = v.stage
    BY <1>1, <1>5 DEF Message!AfterAnswer, Message!Changes, ViewFields, Message!PinnedHere,
       Message!UnpinnedHere, Message!StarredHere, Message!UnstarredHere, Message!EditedHere,
       Message!DeletedHere, Message!HiddenHere, Message!OnMessagePinned, Message!OnMessageStarred
  <2> QED BY <2>1, <2>2, NotLate
<1> QED BY <1>2, <1>3, <1>4, <1>5 DEF Queries

LEMMA FailureShows ==
    ASSUME NEW v, NEW c, ShowsNoGone(v), c.op \in Message!Changes \cup Queries, AsksForGone(c, v.late),
           v.stage # "closed"
    PROVE  Becomes(v, Message!AfterFailure(v, c))
<1> DEFINE n == Message!AfterFailure(v, c)
<1>1. DOMAIN v = ViewFields
  BY DEF ShowsNoGone
<1>2. KeepsGone(v, n)
  <2>1. CASE c.op = "load"
    <3>1. n = [v EXCEPT !.stage = "error"]
      BY <2>1 DEF Message!AfterFailure
    <3> HIDE DEF n
    <3> QED BY <1>1, <3>1 DEF KeepsGone, ViewFields
  <2>2. CASE c.op = "react"
    <3>1. n = Message!Reaction(v, c.by, c.mine)
      BY <2>2 DEF Message!AfterFailure
    <3> HIDE DEF n
    <3> QED BY <1>1, <3>1, ReactionKeeps
  <2>3. CASE c.op \notin {"load", "react"}
    <3>1. n = v
      BY <2>3 DEF Message!AfterFailure
    <3> QED BY <3>1 DEF KeepsGone
  <2> QED BY <2>1, <2>2, <2>3
<1> QED BY <1>2, KeptGone

-----------------------------------------------------------------------------
(* A window changes, calls are made and others end.                        *)
AllTyped(cs) == (\E T : cs \in [DOMAIN cs -> T]) /\ \A k \in DOMAIN cs : FlightTyped(cs[k])
AllAsk(cs, shows) ==
    \A k \in DOMAIN cs :
        LET w == cs[k].w IN
        w # Nothing => shows[w].stage # "closed" /\ AsksForGone(cs[k], shows[w].late)
CallsOK(cs, shows) == AllTyped(cs) /\ AllAsk(cs, shows)
WindowBecomes(w) ==
    \E v : window' = [window EXCEPT ![w] = v] /\ Becomes(window[w], v)

LEMMA CallsAre == ASSUME GoneInv PROVE CallsOK(flights, window)
BY DEF GoneInv, Functions, FlightsTyped, FlightsOK, CallsOK, AllTyped, AllAsk

LEMMA GoneAgain ==
    ASSUME GoneInv, UNCHANGED row, PushesTyped', CallsOK(flights', window'),
           \/ UNCHANGED window
           \/ \E w \in Message!Windows : WindowBecomes(w)
    PROVE  GoneInv'
<1>1. PICK S, T : window \in [Message!Windows -> S] /\ flights \in [DOMAIN flights -> T]
  BY DEF GoneInv, Functions
<1>2. /\ \E A : window' \in [Message!Windows -> A]
      /\ \A w \in Message!Windows : Becomes(window[w], window'[w])
  <2>1. CASE UNCHANGED window
    BY <1>1, <2>1 DEF GoneInv, ViewsOK, Becomes
  <2>2. CASE \E w \in Message!Windows : WindowBecomes(w)
    <3>w. PICK w \in Message!Windows : WindowBecomes(w)
      BY <2>2
    <3>1. PICK v : window' = [window EXCEPT ![w] = v] /\ Becomes(window[w], v)
      BY <3>w DEF WindowBecomes
    <3>2. window' \in [Message!Windows -> S \cup {v}]
      BY <1>1, <3>1
    <3>3. \A u \in Message!Windows : window'[u] = IF u = w THEN v ELSE window[u]
      BY <1>1, <3>1
    <3> QED BY <3>1, <3>2, <3>3 DEF GoneInv, ViewsOK, Becomes
  <2> QED BY <2>1, <2>2
<1>3. Functions'
  BY <1>2 DEF CallsOK, AllTyped, Functions
<1>4. RowFields'
  BY DEF GoneInv, RowFields
<1>5. \A v : ShowsNoGone(v) => ShowsNoGone(v)'
  BY DEF ShowsNoGone, GoneCopy, Message!CopyOf
<1>6. ViewsOK'
  BY <1>2, <1>5 DEF ViewsOK, Becomes
<1>7. FlightsTyped'
  <2>1. \A c : FlightTyped(c) => FlightTyped(c)'
    BY DEF FlightTyped
  <2> QED BY <2>1 DEF CallsOK, AllTyped, FlightsTyped
<1>8. FlightsOK'
  <2>1. \A c, l : AsksForGone(c, l) => AsksForGone(c, l)'
    BY DEF AsksForGone, GoneCopy, Message!CopyOf
  <2> QED BY <2>1 DEF CallsOK, AllAsk, FlightsOK
<1>9. LateIsTrue'
  BY <1>2 DEF GoneInv, LateIsTrue, Becomes
<1> QED BY <1>3, <1>4, <1>6, <1>7, <1>8, <1>9 DEF GoneInv

(* What a window asks as long as it is the same window.                    *)
LEMMA CallsStayOK ==
    ASSUME GoneInv, NEW cs, CallsOK(cs, window), NEW w \in Message!Windows, NEW v,
           Becomes(window[w], v)
    PROVE  CallsOK(cs, [window EXCEPT ![w] = v])
<1>1. PICK S : window \in [Message!Windows -> S]
  BY DEF GoneInv, Functions
<1>2. \A u \in Message!Windows :
         /\ [window EXCEPT ![w] = v][u].late = window[u].late
         /\ [window EXCEPT ![w] = v][u].stage = "closed" <=> window[u].stage = "closed"
  BY <1>1 DEF Becomes
<1>3. \A k \in DOMAIN cs : cs[k].w # Nothing => cs[k].w \in Message!Windows
  BY DEF CallsOK, AllTyped, FlightTyped
<1> QED BY <1>2, <1>3 DEF CallsOK, AllAsk

LEMMA StartedOK ==
    ASSUME NEW cs, NEW shows, CallsOK(cs, shows), NEW w \in Message!Windows, NEW mine,
           NEW op \in Message!Changes \cup Queries, shows[w].late # {} => op \in Queries,
           shows[w].stage # "closed"
    PROVE  CallsOK(Message!Started(cs, op, w, mine), shows)
<1> DEFINE c == [op |-> op, by |-> Owner[w], w |-> w, step |-> "read",
                 got |-> Nothing, was |-> FALSE, mine |-> mine]
           new == Message!Started(cs, op, w, mine)
<1>1. PICK T : cs \in [DOMAIN cs -> T]
  BY DEF CallsOK, AllTyped
<1>2. new = [k \in DOMAIN cs \cup {Message!Fresh(cs, op, w)} |-> IF k \in DOMAIN cs THEN cs[k] ELSE c]
  BY DEF Message!Started
<1>3. FlightTyped(c)
  BY DEF FlightTyped, FlightFields
<1>4. AsksForGone(c, shows[w].late) /\ c.w = w /\ shows[w].stage # "closed"
  BY DEF AsksForGone
<1> HIDE DEF c, new
<1>5. new \in [DOMAIN new -> T \cup {c}]
  BY <1>1, <1>2
<1>6. \A k \in DOMAIN new : new[k] = c \/ (k \in DOMAIN cs /\ new[k] = cs[k])
  BY <1>2
<1>7. AllTyped(new)
  BY <1>3, <1>5, <1>6 DEF CallsOK, AllTyped
<1>8. AllAsk(new, shows)
  BY <1>4, <1>6 DEF CallsOK, AllAsk
<1> QED BY <1>7, <1>8 DEF CallsOK, new

LEMMA EndedOfOK ==
    ASSUME GoneInv, NEW k PROVE CallsOK(Message!Ended(k), window)
<1> DEFINE cs == Message!Ended(k)
<1>1. cs = [n \in DOMAIN flights \ {k} |-> flights[n]]
  BY DEF Message!Ended
<1>2. PICK T : flights \in [DOMAIN flights -> T]
  BY DEF GoneInv, Functions
<1> HIDE DEF cs
<1>3. cs \in [DOMAIN cs -> T] /\ \A n \in DOMAIN cs : n \in DOMAIN flights /\ cs[n] = flights[n]
  BY <1>1, <1>2
<1> QED BY <1>3, CallsAre DEF CallsOK, AllTyped, AllAsk, cs

-----------------------------------------------------------------------------
LEMMA EmittedOK == ASSUME GoneInv, NEW k \in DOMAIN flights, Message!Emit(k) PROVE GoneInv'
<1> DEFINE e == Message!EventOf(flights[k])
           d == [flights[k] EXCEPT !.step = "answer"]
<1>1. /\ flights[k].op \in Message!Changes /\ flights[k].step = "emit" /\ Message!To(k, "answer")
      /\ pushes' = [w \in Message!Windows |->
            IF window[w].joined THEN Append(pushes[w], e) ELSE pushes[w]]
      /\ UNCHANGED <<row, window>>
  BY DEF Message!Emit, Message!At
<1>2. flights[k].op # "hide"
  BY <1>1 DEF GoneInv, FlightsTyped, FlightTyped
<1>3. e.op \in Message!Changes \ {"hide"}
  BY <1>1, <1>2 DEF Message!EventOf
<1> HIDE DEF e
<1>4. PushesTyped'
  <2> SUFFICES ASSUME NEW w \in Message!Windows
               PROVE  /\ \E S : pushes'[w] \in Seq(S)
                      /\ \A i \in DOMAIN pushes'[w] : pushes'[w][i].op \in Message!Changes \ {"hide"}
    BY <1>1 DEF PushesTyped
  <2>1. PICK S : pushes[w] \in Seq(S)
    BY DEF GoneInv, PushesTyped
  <2>2. \A i \in DOMAIN pushes[w] : pushes[w][i].op \in Message!Changes \ {"hide"}
    BY DEF GoneInv, PushesTyped
  <2>3. CASE ~window[w].joined
    BY <1>1, <2>1, <2>2, <2>3
  <2>4. CASE window[w].joined
    <3>1. pushes'[w] = Append(pushes[w], e)
      BY <1>1, <2>4
    <3>2. pushes[w] \in Seq(S \cup {e})
      BY <2>1
    <3>3. pushes'[w] \in Seq(S \cup {e})
      BY <3>1, <3>2
    <3>4. \A i \in DOMAIN pushes'[w] : pushes'[w][i] = e \/ (i \in DOMAIN pushes[w] /\ pushes'[w][i] = pushes[w][i])
      BY <3>1, <3>2
    <3> QED BY <1>3, <2>2, <3>3, <3>4
  <2> QED BY <2>3, <2>4
<1>5. flights' = [flights EXCEPT ![k] = d] /\ SameCall(flights[k], d) /\ d.step = "answer"
  BY <1>1, StepIs
<1>6. RowGoesOn
  BY <1>1 DEF RowGoesOn
<1> HIDE DEF d
<1> QED BY <1>1, <1>4, <1>5, <1>6, ChangeMoves

LEMMA LossOK == ASSUME GoneInv, NEW k \in DOMAIN flights, Message!Lose(k) PROVE GoneInv'
<1> DEFINE d == [flights[k] EXCEPT !.step = "failed"]
<1>1. flights[k].op \in Message!Changes \cup Queries
  BY DEF GoneInv, FlightsTyped, FlightTyped
<1>2. Message!To(k, "failed") /\ UNCHANGED <<row, window, pushes>>
  BY DEF Message!Lose
<1>3. RowGoesOn
  BY <1>2 DEF RowGoesOn
<1>4. CASE flights[k].op \in Message!Changes
  BY <1>2, <1>3, <1>4, SteppingOK
<1>5. CASE flights[k].op \in Queries
  <2>1. flights' = [flights EXCEPT ![k] = d] /\ SameCall(flights[k], d) /\ d.step = "failed"
    BY <1>2, StepIs
  <2> HIDE DEF d
  <2>2. FlightTyped(flights[k])
    BY DEF GoneInv, FlightsTyped
  <2>3. FlightTyped(d)
    BY <2>1, <2>2 DEF FlightTyped, SameCall
  <2>4. d.w # Nothing => AsksForGone(d, window[d.w].late)
    BY <1>5, <2>1 DEF AsksForGone, SameCall
  <2>5. d.w = flights[k].w
    BY <2>1 DEF SameCall
  <2> QED BY <1>2, <1>3, <2>1, <2>3, <2>4, <2>5, Unwritten, OneFlightMoves
<1> QED BY <1>1, <1>4, <1>5

LEMMA PushedOK == ASSUME GoneInv, NEW w \in Message!Windows, Message!Push(w) PROVE GoneInv'
<1> DEFINE e == Head(pushes[w])
           v == Message!AfterPush(window[w], e)
<1>1. PICK S : pushes[w] \in Seq(S)
  BY DEF GoneInv, PushesTyped
<1>2. pushes[w] # <<>> /\ pushes' = [pushes EXCEPT ![w] = Tail(@)] /\ UNCHANGED row
  BY DEF Message!Push
<1>3. e \in S /\ Tail(pushes[w]) \in Seq(S) /\ e = pushes[w][1] /\ 1 \in DOMAIN pushes[w]
  BY <1>1, <1>2
<1>4. e.op \in Message!Changes \ {"hide"}
  BY <1>3 DEF GoneInv, PushesTyped
<1>5. PushesTyped'
  <2>1. \A i \in DOMAIN Tail(pushes[w]) : i + 1 \in DOMAIN pushes[w] /\ Tail(pushes[w])[i] = pushes[w][i + 1]
    BY <1>1, <1>2
  <2>2. DOMAIN pushes = Message!Windows
    BY DEF GoneInv, PushesTyped
  <2>3. /\ DOMAIN pushes' = Message!Windows
        /\ \A u \in Message!Windows : pushes'[u] = IF u = w THEN Tail(pushes[w]) ELSE pushes[u]
    BY <1>2, <2>2
  <2>4. \A i \in DOMAIN Tail(pushes[w]) : Tail(pushes[w])[i].op \in Message!Changes \ {"hide"}
    BY <2>1 DEF GoneInv, PushesTyped
  <2> QED BY <1>3, <2>3, <2>4 DEF GoneInv, PushesTyped
<1>6. CASE UNCHANGED <<window, flights>>
  BY <1>2, <1>5, <1>6, CallsAre, GoneAgain
<1>7. CASE /\ window[w].stage # "closed"
           /\ window' = [window EXCEPT ![w] = v] /\ flights' = Message!FetchAfterPush(w, e)
  <2>1. Becomes(window[w], v)
    BY <1>4, PushShows DEF GoneInv, ViewsOK
  <2> HIDE DEF v
  <2>2. CallsOK(flights', window)
    <3>1. CASE flights' = flights
      BY <3>1, CallsAre
    <3>2. CASE flights' = Message!Started(flights, "pins", w, FALSE)
      BY <1>7, <3>2, CallsAre, StartedOK DEF Queries
    <3>3. CASE flights' = Message!Started(flights, "stars", w, FALSE)
      BY <1>7, <3>3, CallsAre, StartedOK DEF Queries
    <3> QED BY <1>7, <3>1, <3>2, <3>3 DEF Message!FetchAfterPush, Message!Refetch
  <2>3. CallsOK(flights', window')
    BY <1>7, <2>1, <2>2, CallsStayOK
  <2> QED BY <1>2, <1>5, <1>7, <2>1, <2>3, GoneAgain DEF WindowBecomes
<1> QED BY <1>6, <1>7 DEF Message!Push

LEMMA AnsweredHere == ASSUME GoneInv, NEW k \in DOMAIN flights, Message!Answer(k) PROVE GoneInv'
<1> DEFINE c == flights[k]
           w == c.w
           v == IF c.step = "answer" THEN Message!AfterAnswer(window[w], c)
                                     ELSE Message!AfterFailure(window[w], c)
<1>1. FlightTyped(c) /\ UNCHANGED <<row, pushes>>
  BY DEF GoneInv, FlightsTyped, Message!Answer
<1>2. PushesTyped'
  BY <1>1, Unwritten
<1>3. CASE w = Nothing
  <2>1. flights' = Message!Ended(k) /\ UNCHANGED window
    BY <1>3 DEF Message!Answer
  <2> QED BY <1>1, <1>2, <2>1, EndedOfOK, GoneAgain
<1>4. CASE w # Nothing
  <2>1. w \in Message!Windows /\ c.op \in Message!Changes \cup Queries
    BY <1>1, <1>4 DEF FlightTyped
  <2>2. ShowsNoGone(window[w]) /\ window[w].stage # "closed" /\ AsksForGone(c, window[w].late)
    BY <1>4, <2>1 DEF GoneInv, ViewsOK, FlightsOK
  <2>3. window' = [window EXCEPT ![w] = v]
    BY <1>4 DEF Message!Answer
  <2>4. Becomes(window[w], v)
    <3>1. CASE c.step = "answer"
      BY <2>1, <2>2, <3>1, AnswerShows
    <3>2. CASE c.step # "answer"
      BY <2>1, <2>2, <3>2, FailureShows
    <3> QED BY <3>1, <3>2
  <2> HIDE DEF v
  <2>5. CallsOK(flights', window)
    <3>1. CASE flights' = Message!Ended(k)
      BY <3>1, EndedOfOK
    <3>2. CASE flights' = Message!Started(Message!Ended(k), "pins", w, FALSE)
      BY <2>1, <2>2, <3>2, EndedOfOK, StartedOK DEF Queries
    <3> QED BY <1>4, <3>1, <3>2 DEF Message!Answer, Message!Refetch
  <2>6. CallsOK(flights', window')
    BY <2>1, <2>3, <2>4, <2>5, CallsStayOK
  <2> QED BY <1>1, <1>2, <2>1, <2>3, <2>4, <2>6, GoneAgain DEF WindowBecomes
<1> QED BY <1>3, <1>4

(* A window that was opened afterwards offers nothing to do.               *)
LEMMA ClickedOK ==
    ASSUME GoneInv, NEW w \in Message!Windows, NEW op \in Message!Changes, Message!Click(w, op)
    PROVE  GoneInv'
<1> DEFINE u == Owner[w]
           mine == op = "react" /\ u \in window[w].msg.reacts
           v == Message!HandleToggleReaction(window[w], u)
<1>1. /\ Message!Offered(w, op) /\ UNCHANGED <<row, pushes>>
      /\ flights' = Message!Started(flights, op, w, mine)
      /\ window' = IF op = "react" THEN [window EXCEPT ![w] = v] ELSE window
  BY DEF Message!Click
<1> HIDE DEF mine
<1>2. ShowsNoGone(window[w])
  BY DEF GoneInv, ViewsOK
<1>3. window[w].late = {}
  <2> SUFFICES ASSUME window[w].late # {} PROVE FALSE
    OBVIOUS
  <2>1. window[w].pins = Nothing /\ window[w].stars = Nothing
    BY <1>2 DEF ShowsNoGone
  <2>2. window[w].msg = Nothing \/ window[w].msg.deleted
    BY <1>2 DEF ShowsNoGone, GoneCopy
  <2> QED BY <1>1, <2>1, <2>2 DEF Message!Offered, Message!Changes
<1>o. window[w].stage # "closed"
  BY <1>1, <1>2 DEF Message!Offered, Message!Changes, ShowsNoGone
<1>4. CallsOK(flights', window)
  BY <1>1, <1>3, <1>o, CallsAre, StartedOK
<1>5. PushesTyped'
  BY <1>1, Unwritten
<1>6. CASE op # "react"
  BY <1>1, <1>4, <1>5, <1>6, GoneAgain
<1>7. CASE op = "react"
  <2>1. window' = [window EXCEPT ![w] = v]
    BY <1>1, <1>7
  <2>2. DOMAIN v = DOMAIN window[w] /\ v.late = window[w].late /\ v.stage = window[w].stage
    BY <1>2 DEF Message!HandleToggleReaction, Message!Reaction, ShowsNoGone, ViewFields
  <2> HIDE DEF v
  <2>3. Becomes(window[w], v)
    BY <1>2, <1>3, <1>o, <2>2, NotLate
  <2>4. CallsOK(flights', window')
    BY <1>4, <2>1, <2>3, CallsStayOK
  <2> QED BY <1>1, <1>5, <2>1, <2>3, <2>4, GoneAgain DEF WindowBecomes
<1> QED BY <1>6, <1>7

LEMMA SocketMovesOK == ASSUME GoneInv, NEW w \in Message!Windows, Message!SocketMoves(w) PROVE GoneInv'
<1> DEFINE v == [window[w] EXCEPT !.joined = ~@]
<1>1. window' = [window EXCEPT ![w] = v] /\ UNCHANGED <<row, pushes, flights>>
  BY DEF Message!SocketMoves
<1>2. ShowsNoGone(window[w])
  BY DEF GoneInv, ViewsOK
<1>3. KeepsGone(window[w], v)
  BY <1>2 DEF KeepsGone, ShowsNoGone, ViewFields
<1> HIDE DEF v
<1>4. Becomes(window[w], v)
  BY <1>2, <1>3, KeptGone
<1>5. CallsOK(flights', window')
  BY <1>1, <1>4, CallsAre, CallsStayOK
<1> QED BY <1>1, <1>4, <1>5, Unwritten, GoneAgain DEF WindowBecomes

LEMMA OpenedOK == ASSUME GoneInv, NEW w \in Message!Windows, Message!Open(w) PROVE GoneInv'
<1>1. window[w].stage = "closed" /\ UNCHANGED <<row, pushes>>
  BY DEF Message!Open
<1>2. PICK j \in {FALSE, window[w].joined} :
         window' = [window EXCEPT ![w] =
            [Message!Closed EXCEPT !.stage = "loading", !.joined = j,
                 !.late = {"deleted" : d \in {row.deleted} \ {FALSE}}
                          \cup {"hidden" : h \in {Message!Visible(Owner[w])} \ {TRUE}}]]
  BY DEF Message!Open
<1> DEFINE late == {"deleted" : d \in {row.deleted} \ {FALSE}}
                   \cup {"hidden" : h \in {Message!Visible(Owner[w])} \ {TRUE}}
           v == [Message!Closed EXCEPT !.stage = "loading", !.joined = j, !.late = late]
<1>3. /\ DOMAIN v = ViewFields /\ v.late = late /\ v.stage = "loading"
      /\ v.msg = Nothing /\ v.pins = Nothing /\ v.stars = Nothing
  BY DEF Message!Closed, ViewFields
<1>4. window' = [window EXCEPT ![w] = v]
  BY <1>2
<1>5. /\ late \subseteq {"deleted", "hidden"}
      /\ "deleted" \in late => row.deleted # FALSE
      /\ "hidden" \in late => Owner[w] \in row.hidden
  BY DEF Message!Visible
<1> HIDE DEF v, late
<1>6. PICK S, T : window \in [Message!Windows -> S] /\ flights \in [DOMAIN flights -> T]
  BY DEF GoneInv, Functions
<1>7. \A u \in Message!Windows : window'[u] = IF u = w THEN v ELSE window[u]
  BY <1>4, <1>6
<1>8. ViewsOK'
  <2>1. \A n : ShowsNoGone(n) => ShowsNoGone(n)'
    BY DEF ShowsNoGone, GoneCopy, Message!CopyOf
  <2>2. ShowsNoGone(v)
    BY <1>3, <1>5 DEF ShowsNoGone, GoneCopy
  <2> QED BY <1>7, <2>1, <2>2 DEF GoneInv, ViewsOK
<1>9. CallsOK(flights, window')
  <2>1. \A k \in DOMAIN flights : flights[k].w # w
    BY <1>1, ScreensAssumption DEF GoneInv, FlightsOK, Message!ChoresOK
  <2> QED BY <1>7, <2>1, CallsAre DEF CallsOK, AllAsk, AllTyped, FlightTyped
<1> DEFINE cs1 == Message!Started(flights, "load", w, FALSE)
           cs2 == Message!Started(cs1, "pins", w, FALSE)
<1>10. flights' = Message!Started(cs2, "stars", w, FALSE)
  BY DEF Message!Open, Message!Refetch
<1>11. window'[w].stage # "closed"
  BY <1>3, <1>7
<1>12. CallsOK(cs1, window')
  BY <1>9, <1>11, StartedOK DEF Queries
<1> HIDE DEF cs1
<1>13. CallsOK(cs2, window')
  BY <1>11, <1>12, StartedOK DEF Queries
<1> HIDE DEF cs2
<1>14. CallsOK(flights', window')
  BY <1>10, <1>11, <1>13, StartedOK DEF Queries
<1>15. FlightsTyped' /\ FlightsOK' /\ \E A : flights' \in [DOMAIN flights' -> A]
  <2>1. \A c : FlightTyped(c) => FlightTyped(c)'
    BY DEF FlightTyped
  <2>2. \A c, l : AsksForGone(c, l) => AsksForGone(c, l)'
    BY DEF AsksForGone, GoneCopy, Message!CopyOf
  <2> QED BY <1>14, <2>1, <2>2 DEF CallsOK, AllTyped, AllAsk, FlightsTyped, FlightsOK
<1>16. Functions'
  <2>1. window' \in [Message!Windows -> S \cup {v}]
    BY <1>4, <1>6
  <2> QED BY <1>15, <2>1 DEF Functions
<1>17. LateIsTrue'
  BY <1>1, <1>3, <1>5, <1>7 DEF GoneInv, LateIsTrue, RowFields
<1>18. RowFields' /\ PushesTyped'
  BY <1>1, Unwritten DEF GoneInv, RowFields
<1> QED BY <1>8, <1>15, <1>16, <1>17, <1>18 DEF GoneInv

LEMMA ClosedOK == ASSUME GoneInv, NEW w \in Message!Windows, Message!Close(w) PROVE GoneInv'
<1> DEFINE v == [Message!Closed EXCEPT !.joined = window[w].joined]
           Left(c) == IF c.w = w THEN [c EXCEPT !.w = Nothing] ELSE c
<1>1. /\ window' = [window EXCEPT ![w] = v] /\ UNCHANGED <<row, pushes>>
      /\ flights' = [k \in DOMAIN flights |-> Left(flights[k])]
  BY DEF Message!Close
<1>2. /\ DOMAIN v = ViewFields /\ v.late = {} /\ v.stage = "closed"
      /\ v.msg = Nothing /\ v.pins = Nothing /\ v.stars = Nothing
  BY DEF Message!Closed, ViewFields
<1> HIDE DEF v
<1>3. PICK S, T : window \in [Message!Windows -> S] /\ flights \in [DOMAIN flights -> T]
  BY DEF GoneInv, Functions
<1>4. \A u \in Message!Windows : window'[u] = IF u = w THEN v ELSE window[u]
  BY <1>1, <1>3
<1>5. Functions'
  <2>1. window' \in [Message!Windows -> S \cup {v}]
    BY <1>1, <1>3
  <2>2. flights' \in [DOMAIN flights' -> {Left(flights[k]) : k \in DOMAIN flights}]
    BY <1>1
  <2> QED BY <2>1, <2>2 DEF Functions
<1>6. ViewsOK'
  <2>1. \A n : ShowsNoGone(n) => ShowsNoGone(n)'
    BY DEF ShowsNoGone, GoneCopy, Message!CopyOf
  <2>2. ShowsNoGone(v)
    BY <1>2 DEF ShowsNoGone, GoneCopy
  <2> QED BY <1>4, <2>1, <2>2 DEF GoneInv, ViewsOK
<1>7. \A k \in DOMAIN flights : FlightTyped(flights[k])
  BY DEF GoneInv, FlightsTyped
<1>8. \A k \in DOMAIN flights :
         \/ flights[k].w # w /\ flights'[k] = flights[k]
         \/ /\ flights'[k] = [flights[k] EXCEPT !.w = Nothing]
            /\ DOMAIN flights[k] = FlightFields
  BY <1>1, <1>7 DEF FlightTyped
<1>9. DOMAIN flights' = DOMAIN flights
  BY <1>1
<1>10. FlightsTyped'
  <2> SUFFICES ASSUME NEW k \in DOMAIN flights PROVE FlightTyped(flights'[k])
    BY <1>9 DEF FlightsTyped, FlightTyped
  <2> DEFINE c == flights[k]
             d == [c EXCEPT !.w = Nothing]
  <2>1. FlightTyped(c)
    BY <1>7
  <2>2. CASE flights'[k] = d
    <3>1. DOMAIN d = FlightFields /\ d.op = c.op /\ d.step = c.step /\ d.w = Nothing
      BY <2>1 DEF FlightTyped, FlightFields
    <3> HIDE DEF d
    <3>2. FlightTyped(d)
      BY <2>1, <3>1 DEF FlightTyped
    <3> QED BY <2>2, <3>2
  <2> QED BY <1>8, <2>1, <2>2
<1>11. FlightsOK'
  <2>1. \A c, l : AsksForGone(c, l) => AsksForGone(c, l)'
    BY DEF AsksForGone, GoneCopy, Message!CopyOf
  <2>2. \A k \in DOMAIN flights : flights'[k].w # Nothing =>
            flights[k].w # w /\ flights'[k] = flights[k] /\ flights[k].w \in Message!Windows
    <3> TAKE k \in DOMAIN flights
    <3>1. CASE flights'[k] = [flights[k] EXCEPT !.w = Nothing] /\ DOMAIN flights[k] = FlightFields
      BY <3>1 DEF FlightFields
    <3> QED BY <1>7, <1>8, <3>1 DEF FlightTyped
  <2> QED BY <1>4, <1>9, <2>1, <2>2 DEF GoneInv, FlightsOK
<1>12. LateIsTrue'
  BY <1>1, <1>2, <1>4 DEF GoneInv, LateIsTrue
<1>13. RowFields' /\ PushesTyped'
  BY <1>1, Unwritten DEF GoneInv, RowFields
<1> QED BY <1>5, <1>6, <1>10, <1>11, <1>12, <1>13 DEF GoneInv

-----------------------------------------------------------------------------
LEMMA GoneStarts == Message!Init => GoneInv
<1> SUFFICES ASSUME Message!Init PROVE GoneInv
  OBVIOUS
<1>1. PICK day \in Chores :
        /\ row = [text |-> "old", deleted |-> FALSE, pinned |-> day.pinned,
                  starred |-> day.starred, reacts |-> {}, hidden |-> {}]
        /\ window = [w \in Message!Windows |->
              IF w \in day.shown
                THEN [Message!Closed EXCEPT !.stage = "open", !.joined = TRUE, !.msg = Message!CopyOf(row),
                          !.pins = IF row.pinned THEN Message!CopyOf(row) ELSE Nothing,
                          !.stars = IF row.starred THEN Message!CopyOf(row) ELSE Nothing]
                ELSE Message!Closed]
  BY DEF Message!Init
<1>2. flights = <<>> /\ pushes = [w \in Message!Windows |-> <<>>]
  BY DEF Message!Init
<1>3. \A w \in Message!Windows :
        /\ DOMAIN window[w] = ViewFields /\ window[w].late = {}
        /\ \/ window[w].stage = "open"
           \/ window[w].msg = Nothing /\ window[w].pins = Nothing /\ window[w].stars = Nothing
  BY <1>1 DEF Message!Closed, ViewFields
<1>4. ViewsOK /\ LateIsTrue
  BY <1>3 DEF ViewsOK, LateIsTrue, ShowsNoGone
<1>5. Functions
  <2>1. window \in [Message!Windows -> {window[w] : w \in Message!Windows}]
    BY <1>1
  <2>2. flights \in [DOMAIN flights -> {}]
    BY <1>2
  <2> QED BY <2>1, <2>2 DEF Functions
<1>6. FlightsTyped /\ FlightsOK
  BY <1>2 DEF FlightsTyped, FlightsOK
<1>7. PushesTyped
  <2>1. <<>> \in Seq({}) /\ DOMAIN <<>> = {}
    OBVIOUS
  <2> QED BY <1>2, <2>1 DEF PushesTyped
<1>8. RowFields
  BY <1>1 DEF RowFields
<1> QED BY <1>4, <1>5, <1>6, <1>7, <1>8 DEF GoneInv

LEMMA GoneNext == GoneInv /\ [Message!Next]_Message!vars => GoneInv'
<1> SUFFICES ASSUME GoneInv, [Message!Next]_Message!vars PROVE GoneInv'
  OBVIOUS
<1>1. CASE UNCHANGED Message!vars
  BY <1>1, CallsAre, Unwritten, GoneAgain DEF Message!vars
<1>2. CASE Message!Next
  BY <1>2, QueriesOK, ChangesOK, EmittedOK, LossOK, AnsweredHere, PushedOK, OpenedOK, SocketMovesOK,
     ClosedOK, ClickedOK DEF Message!Next, Message!Serve
<1> QED BY <1>1, <1>2

(* ChatService.deleteMessageForEveryone, deleteMessageForMe, getMessages,  *)
(* getPinnedMessages, getStarredMessages and TeamChatRoom: a window opened *)
(* after a message was deleted, or hidden by its user, never shows it,     *)
(* for any windows and any number of calls and pushes still on their way.  *)
THEOREM GoneMessagesStayGone == Message!Spec => []GoneStaysGone
<1>1. GoneInv => GoneStaysGone
  BY DEF GoneInv, ViewsOK, ShowsNoGone, GoneCopy, GoneStaysGone, Message!GoneStaysGone
<1> QED BY <1>1, GoneStarts, GoneNext, PTL DEF Message!Spec

(* The types of a message.  What a change carries to its event and answer  *)
(* is the row it wrote, and hiding a message is told to nobody.            *)
Flags == {"pin", "unpin", "star", "unstar"}
Carries(c) ==
    /\ c.op \in Flags /\ c.step \in {"emit", "answer"} => c.got \in Message!Copy
    /\ c.op = "hide" => c.step # "emit"
Carried == {c \in Message!Call : Carries(c)}
Told == {e \in Message!Event : e.op # "hide"}
MessageTyped ==
    /\ row \in Message!Row
    /\ window \in [Message!Windows -> Message!Window]
    /\ pushes \in [Message!Windows -> Seq(Told)]
    /\ flights \in [DOMAIN flights -> Carried]
    /\ chores \in [DOMAIN chores -> Nat]

LEMMA ACopy == ASSUME NEW r \in Message!Row PROVE Message!CopyOf(r) \in Message!Copy
BY DEF Message!Row, Message!Copy, Message!CopyOf

LEMMA CarriedIs ==
    ASSUME NEW c \in Carried
    PROVE  /\ c.op \in Message!Changes \cup Queries /\ c.by \in Message!Viewers
           /\ c.w \in Message!Windows \cup {Nothing} /\ c.got \in Message!Copies
           /\ c.was \in BOOLEAN /\ c.mine \in BOOLEAN
           /\ c.op = "hide" => c.step # "emit"
<1>1. c \in Message!Call /\ Carries(c)
  BY DEF Carried
<1>2. Queries = Message!Lists \cup {"load"}
  BY DEF Queries, Message!Lists
<1>3. c.op = "hide" => c.step # "emit"
  BY <1>1 DEF Carries
<1> QED BY <1>1, <1>2, <1>3 DEF Message!Call

LEMMA FlagsCarried ==
    ASSUME NEW c \in Carried, c.op \in Flags, c.step \in {"emit", "answer"}
    PROVE  c.got.pinned \in BOOLEAN /\ c.got.starred \in BOOLEAN
<1>1. Carries(c)
  BY DEF Carried
<1>2. c.got \in Message!Copy
  BY <1>1 DEF Carries
<1> QED BY <1>2 DEF Message!Copy

LEMMA Sends ==
    ASSUME MessageTyped, NEW k \in DOMAIN flights, NEW d \in Carried,
           flights' = [flights EXCEPT ![k] = d], row' \in Message!Row,
           UNCHANGED <<window, pushes, chores>>
    PROVE  MessageTyped'
BY DEF MessageTyped

LEMMA StepTyped ==
    ASSUME MessageTyped, NEW k \in DOMAIN flights, NEW s \in {"remove", "answer", "failed"},
           flights[k].op \in Flags => s = "failed" \/ flights[k].step = "emit", Message!To(k, s)
    PROVE  /\ [flights[k] EXCEPT !.step = s] \in Carried
           /\ flights' = [flights EXCEPT ![k] = [flights[k] EXCEPT !.step = s]]
<1>1. flights[k] \in Carried
  BY DEF MessageTyped
<1>2. flights' = [flights EXCEPT ![k] = [flights[k] EXCEPT !.step = s]]
  BY DEF Message!To
<1>3. [flights[k] EXCEPT !.step = s] \in Carried
  BY <1>1 DEF Carried, Carries, Message!Call
<1> QED BY <1>2, <1>3

LEMMA AnswersTyped ==
    ASSUME MessageTyped, NEW k \in DOMAIN flights, flights[k].op \notin Flags,
           NEW copy \in Message!Copies, Message!Answers(k, copy)
    PROVE  MessageTyped'
<1> DEFINE d == [flights[k] EXCEPT !.step = "answer", !.got = copy]
<1>1. flights[k] \in Carried /\ row \in Message!Row
  BY DEF MessageTyped
<1>2. d \in Carried
  BY <1>1 DEF Carried, Carries, Message!Call
<1>3. flights' = [flights EXCEPT ![k] = d] /\ UNCHANGED <<row, window, pushes, chores>>
  BY DEF Message!Answers
<1> HIDE DEF d
<1> QED BY <1>1, <1>2, <1>3, Sends

LEMMA ReadForTyped ==
    ASSUME MessageTyped, NEW k \in DOMAIN flights, NEW was \in BOOLEAN, Message!ReadFor(k, was)
    PROVE  MessageTyped'
<1> DEFINE d == [flights[k] EXCEPT !.step = "write", !.was = was]
<1>1. flights[k] \in Carried /\ row \in Message!Row
  BY DEF MessageTyped
<1>2. d \in Carried
  BY <1>1 DEF Carried, Carries, Message!Call
<1>3. flights' = [flights EXCEPT ![k] = d] /\ UNCHANGED <<row, window, pushes, chores>>
  BY DEF Message!ReadFor
<1> HIDE DEF d
<1> QED BY <1>1, <1>2, <1>3, Sends

LEMMA WriteTyped ==
    ASSUME MessageTyped, NEW k \in DOMAIN flights, flights[k].op # "hide",
           NEW new \in Message!Row, Message!Write(k, new)
    PROVE  MessageTyped'
<1> DEFINE d == [flights[k] EXCEPT !.step = "emit", !.got = Message!CopyOf(new)]
<1>1. flights[k] \in Carried /\ Message!CopyOf(new) \in Message!Copy
  BY ACopy DEF MessageTyped
<1>2. d \in Carried
  BY <1>1 DEF Carried, Carries, Message!Call, Message!Copies
<1>3. flights' = [flights EXCEPT ![k] = d] /\ row' = new /\ UNCHANGED <<window, pushes, chores>>
  BY DEF Message!Write
<1> HIDE DEF d
<1> QED BY <1>2, <1>3, Sends

LEMMA ReactedTyped ==
    ASSUME MessageTyped, NEW k \in DOMAIN flights, flights[k].op = "react",
           NEW reacts \in SUBSET Message!Viewers, NEW added \in BOOLEAN, Message!Reacted(k, reacts, added)
    PROVE  MessageTyped'
<1> DEFINE d == [flights[k] EXCEPT !.step = "emit", !.was = added]
           new == [row EXCEPT !.reacts = reacts]
<1>1. flights[k] \in Carried /\ row \in Message!Row
  BY DEF MessageTyped
<1>2. d \in Carried
  BY <1>1 DEF Carried, Carries, Message!Call, Flags
<1>3. new \in Message!Row
  BY <1>1 DEF Message!Row
<1>4. flights' = [flights EXCEPT ![k] = d] /\ row' = new /\ UNCHANGED <<window, pushes, chores>>
  BY DEF Message!Reacted
<1> HIDE DEF d, new
<1> QED BY <1>2, <1>3, <1>4, Sends

LEMMA ServeTyped ==
    ASSUME MessageTyped, NEW k \in DOMAIN flights, Message!Serve(k)
    PROVE  MessageTyped'
<1>1. flights[k] \in Carried /\ row \in Message!Row
  BY DEF MessageTyped
<1>2. Message!CopyOf(row) \in Message!Copies /\ Nothing \in Message!Copies
  BY <1>1, ACopy DEF Message!Copies
<1>3. /\ row.pinned \in BOOLEAN /\ row.starred \in BOOLEAN /\ row.reacts \in SUBSET Message!Viewers
      /\ flights[k].by \in Message!Viewers /\ flights[k].was \in BOOLEAN
  BY <1>1 DEF Message!Row, Carried, Message!Call
<1>4. CASE Message!GetMessages(k) \/ Message!GetPinnedMessages(k) \/ Message!GetStarredMessages(k)
  <2>1. flights[k].op \notin Flags
    BY <1>4 DEF Message!GetMessages, Message!GetPinnedMessages, Message!GetStarredMessages, Message!At, Flags
  <2>2. PICK copy \in Message!Copies : Message!Answers(k, copy)
    BY <1>2, <1>4 DEF Message!GetMessages, Message!GetPinnedMessages, Message!GetStarredMessages
  <2> QED BY <2>1, <2>2, AnswersTyped
<1>5. CASE Message!TogglePinMessage(k)
  <2>1. flights[k].op # "hide"
    BY <1>5 DEF Message!TogglePinMessage, Message!At
  <2> DEFINE new == [row EXCEPT !.pinned = ~flights[k].was]
  <2>2. new \in Message!Row
    BY <1>1, <1>3 DEF Message!Row
  <2>3. Message!ReadFor(k, row.pinned) \/ Message!Write(k, new)
    BY <1>5 DEF Message!TogglePinMessage
  <2> HIDE DEF new
  <2> QED BY <1>3, <2>1, <2>2, <2>3, ReadForTyped, WriteTyped
<1>6. CASE Message!ToggleStarMessage(k)
  <2>1. flights[k].op # "hide"
    BY <1>6 DEF Message!ToggleStarMessage, Message!At
  <2> DEFINE new == [row EXCEPT !.starred = ~flights[k].was]
  <2>2. new \in Message!Row
    BY <1>1, <1>3 DEF Message!Row
  <2>3. Message!ReadFor(k, row.starred) \/ Message!Write(k, new)
    BY <1>6 DEF Message!ToggleStarMessage
  <2> HIDE DEF new
  <2> QED BY <1>3, <2>1, <2>2, <2>3, ReadForTyped, WriteTyped
<1>7. ASSUME Message!Reject(k) PROVE MessageTyped'
  BY <1>1, <1>7, StepTyped, Sends DEF Message!Reject
<1>8. CASE Message!EditMessage(k)
  <2>1. flights[k].op # "hide"
    BY <1>8 DEF Message!EditMessage, Message!At
  <2> DEFINE new == [row EXCEPT !.text = "new"]
  <2>2. new \in Message!Row
    BY <1>1 DEF Message!Row
  <2>3. Message!ReadFor(k, FALSE) \/ Message!Reject(k) \/ Message!Write(k, new)
    BY <1>8 DEF Message!EditMessage
  <2> HIDE DEF new
  <2> QED BY <1>7, <2>1, <2>2, <2>3, ReadForTyped, WriteTyped
<1>9. CASE Message!DeleteMessageForEveryone(k)
  <2>1. flights[k].op # "hide"
    BY <1>9 DEF Message!DeleteMessageForEveryone, Message!At
  <2> DEFINE new == [row EXCEPT !.deleted = TRUE, !.text = "gone"]
  <2>2. new \in Message!Row
    BY <1>1 DEF Message!Row
  <2>3. Message!ReadFor(k, FALSE) \/ Message!Reject(k) \/ Message!Write(k, new)
    BY <1>9 DEF Message!DeleteMessageForEveryone
  <2> HIDE DEF new
  <2> QED BY <1>7, <2>1, <2>2, <2>3, ReadForTyped, WriteTyped
<1>10. CASE Message!DeleteMessageForMe(k)
  <2>1. flights[k].op \notin Flags
    BY <1>10 DEF Message!DeleteMessageForMe, Message!At, Flags
  <2> DEFINE new == [row EXCEPT !.hidden = @ \cup {flights[k].by}]
  <2>2. new \in Message!Row
    BY <1>1, <1>3 DEF Message!Row
  <2>3. \/ Message!ReadFor(k, FALSE) \/ Message!Answers(k, Message!CopyOf(row))
        \/ row' = new /\ Message!To(k, "answer") /\ UNCHANGED <<window, pushes, chores>>
    BY <1>10 DEF Message!DeleteMessageForMe
  <2> HIDE DEF new
  <2>4. CASE row' = new /\ Message!To(k, "answer") /\ UNCHANGED <<window, pushes, chores>>
    BY <2>1, <2>2, <2>4, StepTyped, Sends
  <2> QED BY <1>2, <2>1, <2>3, <2>4, ReadForTyped, AnswersTyped
<1>11. CASE Message!ToggleReaction(k)
  <2>1. flights[k].op = "react"
    BY <1>11 DEF Message!ToggleReaction, Message!At
  <2>2. \/ Message!ReadFor(k, FALSE) \/ Message!Reject(k)
        \/ Message!Reacted(k, row.reacts \cup {flights[k].by}, TRUE)
        \/ Message!To(k, "remove") /\ UNCHANGED <<row, window, pushes, chores>>
        \/ Message!Reacted(k, row.reacts \ {flights[k].by}, FALSE)
    BY <1>11 DEF Message!ToggleReaction
  <2>3. CASE Message!To(k, "remove") /\ UNCHANGED <<row, window, pushes, chores>>
    BY <1>1, <2>1, <2>3, StepTyped, Sends DEF Flags
  <2>4. ASSUME NEW reacts \in SUBSET Message!Viewers, NEW added \in BOOLEAN,
               Message!Reacted(k, reacts, added)
        PROVE  MessageTyped'
    BY <2>1, <2>4, ReactedTyped
  <2>5. /\ row.reacts \cup {flights[k].by} \in SUBSET Message!Viewers
        /\ row.reacts \ {flights[k].by} \in SUBSET Message!Viewers
    BY <1>3
  <2> QED BY <1>7, <2>2, <2>3, <2>4, <2>5, ReadForTyped
<1> QED BY <1>4, <1>5, <1>6, <1>8, <1>9, <1>10, <1>11 DEF Message!Serve

LEMMA ChoreDone ==
    ASSUME MessageTyped, NEW what, Message!Spend(what)
    PROVE  chores' \in [DOMAIN chores' -> Nat]
<1>1. chores \in [DOMAIN chores -> Nat]
  BY DEF MessageTyped
<1>2. chores[what] > 0 /\ chores' = [chores EXCEPT ![what] = @ - 1]
  BY DEF Message!Spend
<1>3. CASE what \in DOMAIN chores
  <2>1. chores[what] \in Nat
    BY <1>1, <1>3
  <2>2. chores[what] - 1 \in Nat
    BY <1>2, <2>1
  <2> QED BY <1>1, <1>2, <2>2
<1>4. CASE what \notin DOMAIN chores
  BY <1>1, <1>2, <1>4
<1> QED BY <1>3, <1>4

-----------------------------------------------------------------------------
(* What handlers leave of a window.                                        *)
LEMMA CopyChanged ==
    ASSUME NEW c \in Message!Copies, c # Nothing
    PROVE  /\ \A b \in BOOLEAN : /\ [c EXCEPT !.pinned = b] \in Message!Copies
                                /\ [c EXCEPT !.starred = b] \in Message!Copies
           /\ \A t \in {"old", "new", "gone"} : [c EXCEPT !.text = t] \in Message!Copies
           /\ [c EXCEPT !.deleted = TRUE, !.text = "gone"] \in Message!Copies
<1>1. c \in Message!Copy
  BY DEF Message!Copies
<1>2. ASSUME NEW b \in BOOLEAN
      PROVE  [c EXCEPT !.pinned = b] \in Message!Copy /\ [c EXCEPT !.starred = b] \in Message!Copy
  BY <1>1 DEF Message!Copy
<1>3. ASSUME NEW t \in {"old", "new", "gone"} PROVE [c EXCEPT !.text = t] \in Message!Copy
  BY <1>1 DEF Message!Copy
<1>4. [c EXCEPT !.deleted = TRUE, !.text = "gone"] \in Message!Copy
  BY <1>1 DEF Message!Copy
<1> QED BY <1>2, <1>3, <1>4 DEF Message!Copies

LEMMA CopiesShown ==
    ASSUME NEW v \in Message!Window
    PROVE  v.msg \in Message!Copies /\ v.pins \in Message!Copies /\ v.stars \in Message!Copies
BY DEF Message!Window

LEMMA PinnedTyped ==
    ASSUME NEW v \in Message!Window, NEW e, e.on \in BOOLEAN
    PROVE  Message!OnMessagePinned(v, e) \in Message!Window
<1> DEFINE msg == IF v.msg = Nothing THEN Nothing ELSE [v.msg EXCEPT !.pinned = e.on]
           pins == IF e.on THEN v.pins ELSE Nothing
<1>1. msg \in Message!Copies /\ pins \in Message!Copies
  BY CopiesShown, CopyChanged DEF Message!Copies
<1>2. Message!OnMessagePinned(v, e) = [v EXCEPT !.msg = msg, !.pins = pins]
  BY DEF Message!OnMessagePinned
<1> HIDE DEF msg, pins
<1> QED BY <1>1, <1>2 DEF Message!Window

LEMMA StarredTyped ==
    ASSUME NEW v \in Message!Window, NEW e, e.on \in BOOLEAN
    PROVE  Message!OnMessageStarred(v, e) \in Message!Window
<1> DEFINE msg == IF v.msg = Nothing THEN Nothing ELSE [v.msg EXCEPT !.starred = e.on]
           stars == IF e.on THEN v.stars ELSE Nothing
<1>1. msg \in Message!Copies /\ stars \in Message!Copies
  BY CopiesShown, CopyChanged DEF Message!Copies
<1>2. Message!OnMessageStarred(v, e) = [v EXCEPT !.msg = msg, !.stars = stars]
  BY DEF Message!OnMessageStarred
<1> HIDE DEF msg, stars
<1> QED BY <1>1, <1>2 DEF Message!Window

LEMMA EditedTyped ==
    ASSUME NEW v \in Message!Window, NEW e, e.text \in {"old", "new", "gone"}
    PROVE  Message!OnMessageEdited(v, e) \in Message!Window
<1> DEFINE Edited(c) == IF c = Nothing THEN Nothing ELSE [c EXCEPT !.text = e.text]
<1>1. ASSUME NEW c \in Message!Copies PROVE Edited(c) \in Message!Copies
  BY CopyChanged DEF Message!Copies
<1>2. Message!OnMessageEdited(v, e) =
        [v EXCEPT !.msg = Edited(v.msg), !.pins = Edited(v.pins), !.stars = Edited(v.stars)]
  BY DEF Message!OnMessageEdited
<1> HIDE DEF Edited
<1>3. Edited(v.msg) \in Message!Copies /\ Edited(v.pins) \in Message!Copies /\ Edited(v.stars) \in Message!Copies
  BY <1>1, CopiesShown
<1> QED BY <1>2, <1>3 DEF Message!Window

LEMMA DeletedTyped ==
    ASSUME NEW v \in Message!Window
    PROVE  Message!OnMessageDeleted(v) \in Message!Window /\ Message!DeletedHere(v) \in Message!Window
<1> DEFINE msg == IF v.msg = Nothing THEN Nothing ELSE [v.msg EXCEPT !.deleted = TRUE, !.text = "gone"]
<1>1. msg \in Message!Copies /\ Nothing \in Message!Copies
  BY CopiesShown, CopyChanged DEF Message!Copies
<1>2. /\ Message!OnMessageDeleted(v) = [v EXCEPT !.msg = msg, !.pins = Nothing, !.stars = Nothing]
      /\ Message!DeletedHere(v) = [v EXCEPT !.msg = msg, !.pins = Nothing]
  BY DEF Message!OnMessageDeleted, Message!DeletedHere
<1> HIDE DEF msg
<1> QED BY <1>1, <1>2 DEF Message!Window

LEMMA ReactionTyped ==
    ASSUME NEW v \in Message!Window, NEW u \in Message!Viewers, NEW there
    PROVE  Message!Reaction(v, u, there) \in Message!Window
<1> DEFINE n == Message!Reaction(v, u, there)
           reacts == IF there THEN v.msg.reacts \cup {u} ELSE v.msg.reacts \ {u}
<1>1. n.msg = IF v.msg = Nothing THEN Nothing ELSE Message!ReactedBy(v.msg, u, there)
  BY DEF Message!Reaction, Message!Window
<1>2. n = [v EXCEPT !.msg = n.msg]
  BY DEF Message!Reaction, Message!Window
<1> HIDE DEF n
<1>3. v.msg # Nothing => v.msg \in Message!Copy /\ reacts \in SUBSET Message!Viewers
  <2>1. v.msg # Nothing => v.msg \in Message!Copy
    BY CopiesShown DEF Message!Copies
  <2>2. v.msg # Nothing => v.msg.reacts \in SUBSET Message!Viewers
    BY <2>1 DEF Message!Copy
  <2> QED BY <2>1, <2>2
<1>4. Message!ReactedBy(v.msg, u, there) = [v.msg EXCEPT !.reacts = reacts]
  BY DEF Message!ReactedBy
<1> HIDE DEF reacts
<1>5. v.msg # Nothing => [v.msg EXCEPT !.reacts = reacts] \in Message!Copy
  BY <1>3 DEF Message!Copy
<1>6. n.msg \in Message!Copies
  BY <1>1, <1>4, <1>5 DEF Message!Copies
<1>7. n \in Message!Window
  BY <1>2, <1>6 DEF Message!Window
<1> QED BY <1>7 DEF n

LEMMA PushTyped ==
    ASSUME NEW v \in Message!Window, NEW e \in Told
    PROVE  Message!AfterPush(v, e) \in Message!Window
<1>1. /\ e.op \in Message!Changes \ {"hide"} /\ e.on \in BOOLEAN
      /\ e.by \in Message!Viewers /\ e.text \in {"old", "new", "gone"}
  BY DEF Told, Message!Event
<1>2. CASE e.op \in {"pin", "unpin"}
  <2>1. Message!AfterPush(v, e) = Message!OnMessagePinned(v, e)
    BY <1>2 DEF Message!AfterPush
  <2> QED BY <1>1, <2>1, PinnedTyped
<1>3. CASE e.op \in {"star", "unstar"}
  <2>1. Message!AfterPush(v, e) = Message!OnMessageStarred(v, e)
    BY <1>3 DEF Message!AfterPush
  <2> QED BY <1>1, <2>1, StarredTyped
<1>4. CASE e.op = "edit"
  <2>1. Message!AfterPush(v, e) = Message!OnMessageEdited(v, e)
    BY <1>4 DEF Message!AfterPush
  <2> QED BY <1>1, <2>1, EditedTyped
<1>5. CASE e.op = "delete"
  <2>1. Message!AfterPush(v, e) = Message!OnMessageDeleted(v)
    BY <1>5 DEF Message!AfterPush
  <2> QED BY <2>1, DeletedTyped
<1>6. CASE e.op = "react"
  <2>1. Message!AfterPush(v, e) = Message!Reaction(v, e.by, e.on)
    BY <1>6 DEF Message!AfterPush, Message!OnMessageReacted
  <2> QED BY <1>1, <2>1, ReactionTyped
<1> QED BY <1>1, <1>2, <1>3, <1>4, <1>5, <1>6 DEF Message!Changes

LEMMA AnswerTyped ==
    ASSUME NEW v \in Message!Window, NEW c \in Carried, c.step = "answer"
    PROVE  Message!AfterAnswer(v, c) \in Message!Window
<1> DEFINE n == Message!AfterAnswer(v, c)
<1>1. /\ c.op \in Message!Changes \cup Queries /\ c.got \in Message!Copies
      /\ c.op \in Flags => c.got.pinned \in BOOLEAN /\ c.got.starred \in BOOLEAN
  BY CarriedIs, FlagsCarried
<1>2. Nothing \in Message!Copies
  BY DEF Message!Copies
<1>3. CASE c.op = "load"
  <2>1. n = [v EXCEPT !.stage = "open", !.msg = c.got]
    BY <1>3 DEF Message!AfterAnswer
  <2> HIDE DEF n
  <2>2. n \in Message!Window
    BY <1>1, <2>1 DEF Message!Window
  <2> QED BY <2>2 DEF n
<1>4. CASE c.op \in {"pins", "stars"}
  <2>1. n = [v EXCEPT !.pins = c.got] \/ n = [v EXCEPT !.stars = c.got]
    BY <1>4 DEF Message!AfterAnswer
  <2> HIDE DEF n
  <2>2. n \in Message!Window
    BY <1>1, <2>1 DEF Message!Window
  <2> QED BY <2>2 DEF n
<1>5. CASE c.op \in {"pin", "unpin"}
  <2> DEFINE e == [on |-> c.got.pinned]
  <2>1. e.on \in BOOLEAN
    BY <1>1, <1>5 DEF Flags
  <2> DEFINE p == Message!OnMessagePinned(v, e)
  <2>2. p \in Message!Window
    BY <2>1, PinnedTyped
  <2>3. n = p \/ n = [p EXCEPT !.pins = Nothing]
    BY <1>5 DEF Message!AfterAnswer, Message!PinnedHere, Message!UnpinnedHere
  <2> HIDE DEF p, n
  <2>4. n \in Message!Window
    BY <1>2, <2>2, <2>3 DEF Message!Window
  <2> QED BY <2>4 DEF n
<1>6. CASE c.op = "star"
  <2> DEFINE msg == IF v.msg = Nothing THEN Nothing ELSE [v.msg EXCEPT !.starred = c.got.starred]
  <2>1. msg \in Message!Copies
    BY <1>1, <1>2, <1>6, CopiesShown, CopyChanged DEF Flags
  <2>2. n = [v EXCEPT !.msg = msg]
    BY <1>6 DEF Message!AfterAnswer, Message!StarredHere
  <2> HIDE DEF msg, n
  <2>3. n \in Message!Window
    BY <2>1, <2>2 DEF Message!Window
  <2> QED BY <2>3 DEF n
<1>7. CASE c.op = "unstar"
  <2> DEFINE e == [on |-> FALSE]
  <2>1. n = Message!OnMessageStarred(v, e)
    BY <1>7 DEF Message!AfterAnswer, Message!UnstarredHere
  <2>2. e.on \in BOOLEAN
    OBVIOUS
  <2> HIDE DEF e, n
  <2>3. n \in Message!Window
    BY <2>1, <2>2, StarredTyped
  <2> QED BY <2>3 DEF n
<1>8. CASE c.op = "edit"
  <2> DEFINE Edited(d) == IF d = Nothing THEN Nothing ELSE c.got
  <2>1. Edited(v.msg) \in Message!Copies /\ Edited(v.pins) \in Message!Copies
    BY <1>1, <1>2
  <2>2. n = [v EXCEPT !.msg = Edited(v.msg), !.pins = Edited(v.pins)]
    BY <1>8 DEF Message!AfterAnswer, Message!EditedHere
  <2> HIDE DEF Edited, n
  <2>3. n \in Message!Window
    BY <2>1, <2>2 DEF Message!Window
  <2> QED BY <2>3 DEF n
<1>9. CASE c.op = "delete"
  <2>1. n = Message!DeletedHere(v)
    BY <1>9 DEF Message!AfterAnswer
  <2> QED BY <2>1, DeletedTyped
<1>10. CASE c.op = "hide"
  <2>1. n = [v EXCEPT !.msg = Nothing, !.pins = Nothing]
    BY <1>10 DEF Message!AfterAnswer, Message!HiddenHere
  <2> HIDE DEF n
  <2>2. n \in Message!Window
    BY <1>2, <2>1 DEF Message!Window
  <2> QED BY <2>2 DEF n
<1>11. CASE c.op = "react"
  BY <1>11 DEF Message!AfterAnswer
<1> QED BY <1>1, <1>3, <1>4, <1>5, <1>6, <1>7, <1>8, <1>9, <1>10, <1>11 DEF Message!Changes, Queries

LEMMA FailureTyped ==
    ASSUME NEW v \in Message!Window, NEW c \in Carried
    PROVE  Message!AfterFailure(v, c) \in Message!Window
<1>1. c.by \in Message!Viewers
  BY CarriedIs
<1>2. CASE c.op = "load"
  <2>1. Message!AfterFailure(v, c) = [v EXCEPT !.stage = "error"]
    BY <1>2 DEF Message!AfterFailure
  <2> QED BY <2>1 DEF Message!Window
<1>3. CASE c.op = "react"
  <2>1. Message!AfterFailure(v, c) = Message!Reaction(v, c.by, c.mine)
    BY <1>3 DEF Message!AfterFailure
  <2> QED BY <1>1, <2>1, ReactionTyped
<1>4. CASE c.op \notin {"load", "react"}
  BY <1>4 DEF Message!AfterFailure
<1> QED BY <1>2, <1>3, <1>4

LEMMA StartedTyped ==
    ASSUME NEW cs, cs \in [DOMAIN cs -> Carried], NEW w \in Message!Windows, NEW mine \in BOOLEAN,
           NEW op \in Message!Changes \cup Queries
    PROVE  Message!Started(cs, op, w, mine) \in [DOMAIN Message!Started(cs, op, w, mine) -> Carried]
<1> DEFINE c == [op |-> op, by |-> Owner[w], w |-> w, step |-> "read",
                 got |-> Nothing, was |-> FALSE, mine |-> mine]
           new == Message!Started(cs, op, w, mine)
<1>1. new = [k \in DOMAIN cs \cup {Message!Fresh(cs, op, w)} |-> IF k \in DOMAIN cs THEN cs[k] ELSE c]
  BY DEF Message!Started
<1>2. Owner[w] \in Message!Viewers /\ op \in Message!Changes \cup Message!Lists \cup {"load"}
  BY DEF Message!Viewers, Message!Lists, Queries
<1>3. c \in Message!Call
  BY <1>2 DEF Message!Call, Message!Copies
<1>4. c \in Carried
  BY <1>3 DEF Carried, Carries, Flags
<1> HIDE DEF c, new
<1>5. new \in [DOMAIN new -> Carried]
  BY <1>1, <1>4
<1> QED BY <1>5 DEF new

-----------------------------------------------------------------------------
LEMMA EmitTyped == ASSUME MessageTyped, NEW k \in DOMAIN flights, Message!Emit(k) PROVE MessageTyped'
<1> DEFINE c == flights[k]
           e == Message!EventOf(c)
           d == [c EXCEPT !.step = "answer"]
<1>1. /\ c.op \in Message!Changes /\ c.step = "emit" /\ Message!To(k, "answer")
      /\ pushes' = [w \in Message!Windows |->
            IF window[w].joined THEN Append(pushes[w], e) ELSE pushes[w]]
      /\ UNCHANGED <<row, window, chores>>
  BY DEF Message!Emit, Message!At
<1>2. c \in Carried
  BY DEF MessageTyped
<1>3. d \in Carried /\ flights' = [flights EXCEPT ![k] = d]
  BY <1>1, StepTyped
<1>4. e \in Told
  <2> DEFINE on == CASE c.op \in {"pin", "unpin"} -> c.got.pinned
                     [] c.op \in {"star", "unstar"} -> c.got.starred
                     [] OTHER -> c.was
  <2>1. c.op \in Flags => c.got.pinned \in BOOLEAN /\ c.got.starred \in BOOLEAN
    BY <1>1, <1>2, FlagsCarried
  <2>2. c.by \in Message!Viewers /\ c.was \in BOOLEAN /\ c.op # "hide"
    BY <1>1, <1>2, CarriedIs
  <2>3. on \in BOOLEAN
    BY <2>1, <2>2 DEF Flags
  <2>4. e = [op |-> c.op, by |-> c.by, text |-> "new", on |-> on]
    BY DEF Message!EventOf
  <2> HIDE DEF on, e
  <2> QED BY <1>1, <2>2, <2>3, <2>4 DEF Told, Message!Event
<1> HIDE DEF d, e
<1>5. flights' \in [DOMAIN flights' -> Carried]
  BY <1>3 DEF MessageTyped
<1>6. pushes' \in [Message!Windows -> Seq(Told)]
  BY <1>1, <1>4 DEF MessageTyped
<1> QED BY <1>1, <1>5, <1>6 DEF MessageTyped

LEMMA LoseTyped == ASSUME MessageTyped, NEW k \in DOMAIN flights, Message!Lose(k) PROVE MessageTyped'
<1>1. /\ [flights[k] EXCEPT !.step = "failed"] \in Carried
      /\ flights' = [flights EXCEPT ![k] = [flights[k] EXCEPT !.step = "failed"]]
  BY StepTyped DEF Message!Lose
<1>2. flights' \in [DOMAIN flights' -> Carried]
  BY <1>1 DEF MessageTyped
<1>3. chores' \in [DOMAIN chores' -> Nat]
  BY ChoreDone DEF Message!Lose
<1> QED BY <1>2, <1>3 DEF MessageTyped, Message!Lose

LEMMA PushedTyped == ASSUME MessageTyped, NEW w \in Message!Windows, Message!Push(w) PROVE MessageTyped'
<1> DEFINE e == Head(pushes[w])
<1>1. pushes[w] \in Seq(Told) /\ pushes[w] # <<>> /\ window[w] \in Message!Window
  BY DEF MessageTyped, Message!Push
<1>2. e \in Told /\ Tail(pushes[w]) \in Seq(Told)
  BY <1>1
<1>3. pushes' \in [Message!Windows -> Seq(Told)] /\ UNCHANGED <<row, chores>>
  BY <1>2 DEF MessageTyped, Message!Push
<1>4. CASE UNCHANGED <<window, flights>>
  BY <1>3, <1>4 DEF MessageTyped
<1>5. CASE window' = [window EXCEPT ![w] = Message!AfterPush(@, e)] /\ flights' = Message!FetchAfterPush(w, e)
  <2>1. Message!AfterPush(window[w], e) \in Message!Window
    BY <1>1, <1>2, PushTyped
  <2>2. window' \in [Message!Windows -> Message!Window]
    BY <1>5, <2>1 DEF MessageTyped
  <2>3. \/ flights' = flights \/ flights' = Message!Started(flights, "pins", w, FALSE)
        \/ flights' = Message!Started(flights, "stars", w, FALSE)
    BY <1>5 DEF Message!FetchAfterPush, Message!Refetch
  <2>4. flights \in [DOMAIN flights -> Carried]
    BY DEF MessageTyped
  <2>5. ASSUME NEW op \in Queries, flights' = Message!Started(flights, op, w, FALSE)
        PROVE  flights' \in [DOMAIN flights' -> Carried]
    BY <2>4, <2>5, StartedTyped
  <2>6. flights' \in [DOMAIN flights' -> Carried]
    BY <2>3, <2>4, <2>5 DEF Queries
  <2> QED BY <1>3, <2>2, <2>6 DEF MessageTyped
<1> QED BY <1>4, <1>5 DEF Message!Push

LEMMA AnsweredTyped == ASSUME MessageTyped, NEW k \in DOMAIN flights, Message!Answer(k) PROVE MessageTyped'
<1> DEFINE c == flights[k]
           w == c.w
           v == IF c.step = "answer" THEN Message!AfterAnswer(window[w], c)
                                     ELSE Message!AfterFailure(window[w], c)
<1>1. c \in Carried /\ UNCHANGED <<row, pushes, chores>>
  BY DEF MessageTyped, Message!Answer
<1>2. Message!Ended(k) \in [DOMAIN Message!Ended(k) -> Carried]
  BY DEF MessageTyped, Message!Ended
<1>3. CASE w = Nothing
  <2>1. flights' = Message!Ended(k) /\ UNCHANGED window
    BY <1>3 DEF Message!Answer
  <2> QED BY <1>1, <1>2, <2>1 DEF MessageTyped
<1>4. CASE w # Nothing
  <2>1. w \in Message!Windows
    BY <1>1, <1>4, CarriedIs
  <2>2. window[w] \in Message!Window
    BY <2>1 DEF MessageTyped
  <2>3. v \in Message!Window
    BY <1>1, <2>2, AnswerTyped, FailureTyped
  <2>4. window' = [window EXCEPT ![w] = v]
    BY <1>4 DEF Message!Answer
  <2> HIDE DEF v
  <2>5. window' \in [Message!Windows -> Message!Window]
    BY <2>3, <2>4 DEF MessageTyped
  <2>6. flights' = Message!Ended(k) \/ flights' = Message!Started(Message!Ended(k), "pins", w, FALSE)
    BY <1>4 DEF Message!Answer, Message!Refetch
  <2>7. ASSUME flights' = Message!Started(Message!Ended(k), "pins", w, FALSE)
        PROVE  flights' \in [DOMAIN flights' -> Carried]
    <3> DEFINE cs == Message!Ended(k)
    <3> HIDE DEF cs
    <3>1. cs \in [DOMAIN cs -> Carried]
      BY <1>2 DEF cs
    <3>2. flights' = Message!Started(cs, "pins", w, FALSE)
      BY <2>7 DEF cs
    <3>3. flights' \in [DOMAIN flights' -> Carried]
      BY <2>1, <3>1, <3>2, StartedTyped DEF Queries
    <3> QED BY <3>3
  <2>8. flights' \in [DOMAIN flights' -> Carried]
    BY <1>2, <2>6, <2>7
  <2> QED BY <1>1, <2>5, <2>8 DEF MessageTyped
<1> QED BY <1>3, <1>4

LEMMA ClickedTyped ==
    ASSUME MessageTyped, NEW w \in Message!Windows, NEW op \in Message!Changes, Message!Click(w, op)
    PROVE  MessageTyped'
<1> DEFINE u == Owner[w]
           mine == op = "react" /\ u \in window[w].msg.reacts
           v == Message!Reaction(window[w], u, u \notin window[w].msg.reacts)
<1>1. /\ flights' = Message!Started(flights, op, w, mine) /\ UNCHANGED <<row, pushes>>
      /\ window' = window \/ window' = [window EXCEPT ![w] = v]
  BY DEF Message!Click, Message!HandleToggleReaction
<1>2. mine \in BOOLEAN
  OBVIOUS
<1> HIDE DEF mine
<1>3. flights' \in [DOMAIN flights' -> Carried]
  BY <1>1, <1>2, StartedTyped DEF MessageTyped
<1>4. window[w] \in Message!Window /\ u \in Message!Viewers
  BY DEF MessageTyped, Message!Viewers
<1>5. v \in Message!Window
  BY <1>4, ReactionTyped
<1> HIDE DEF v
<1>6. window' \in [Message!Windows -> Message!Window]
  BY <1>1, <1>5 DEF MessageTyped
<1>7. chores' \in [DOMAIN chores' -> Nat]
  BY ChoreDone DEF Message!Click
<1> QED BY <1>1, <1>3, <1>6, <1>7 DEF MessageTyped

LEMMA OpenTyped == ASSUME MessageTyped, NEW w \in Message!Windows, Message!Open(w) PROVE MessageTyped'
<1> DEFINE late == {"deleted" : d \in {row.deleted} \ {FALSE}}
                   \cup {"hidden" : h \in {Message!Visible(Owner[w])} \ {TRUE}}
           Opened(j) == [Message!Closed EXCEPT !.stage = "loading", !.joined = j, !.late = late]
           cs1 == Message!Started(flights, "load", w, FALSE)
           cs2 == Message!Started(cs1, "pins", w, FALSE)
<1>1. flights' = Message!Started(cs2, "stars", w, FALSE) /\ UNCHANGED <<row, pushes>>
  BY DEF Message!Open, Message!Refetch
<1>2. PICK j \in {FALSE, window[w].joined} : window' = [window EXCEPT ![w] = Opened(j)]
  BY DEF Message!Open
<1>3. late \in SUBSET {"deleted", "hidden"}
  OBVIOUS
<1> HIDE DEF late
<1>4. j \in BOOLEAN
  BY <1>2 DEF MessageTyped, Message!Window
<1>5. Opened(j) \in Message!Window
  BY <1>3, <1>4 DEF Message!Closed, Message!Window, Message!Copies
<1> HIDE DEF Opened
<1>6. window' \in [Message!Windows -> Message!Window]
  BY <1>2, <1>5 DEF MessageTyped
<1>7. cs1 \in [DOMAIN cs1 -> Carried]
  BY StartedTyped DEF MessageTyped, Queries
<1> HIDE DEF cs1
<1>8. cs2 \in [DOMAIN cs2 -> Carried]
  BY <1>7, StartedTyped DEF Queries
<1> HIDE DEF cs2
<1>9. flights' \in [DOMAIN flights' -> Carried]
  BY <1>1, <1>8, StartedTyped DEF Queries
<1>10. chores' \in [DOMAIN chores' -> Nat]
  BY ChoreDone DEF Message!Open
<1> QED BY <1>1, <1>6, <1>9, <1>10 DEF MessageTyped

LEMMA CloseTyped == ASSUME MessageTyped, NEW w \in Message!Windows, Message!Close(w) PROVE MessageTyped'
<1> DEFINE v == [Message!Closed EXCEPT !.joined = window[w].joined]
           Left(c) == IF c.w = w THEN [c EXCEPT !.w = Nothing] ELSE c
<1>1. /\ window' = [window EXCEPT ![w] = v] /\ UNCHANGED <<row, pushes, chores>>
      /\ flights' = [k \in DOMAIN flights |-> Left(flights[k])]
  BY DEF Message!Close
<1>2. window[w].joined \in BOOLEAN
  BY DEF MessageTyped, Message!Window
<1>3. v \in Message!Window
  BY <1>2 DEF Message!Closed, Message!Window, Message!Copies
<1>4. ASSUME NEW c \in Carried PROVE Left(c) \in Carried
  BY DEF Carried, Carries, Message!Call
<1> HIDE DEF v, Left
<1>5. flights' \in [DOMAIN flights' -> Carried]
  BY <1>1, <1>4 DEF MessageTyped
<1>6. window' \in [Message!Windows -> Message!Window]
  BY <1>1, <1>3 DEF MessageTyped
<1> QED BY <1>1, <1>5, <1>6 DEF MessageTyped

LEMMA SocketMovesTyped ==
    ASSUME MessageTyped, NEW w \in Message!Windows, Message!SocketMoves(w) PROVE MessageTyped'
<1> DEFINE v == [window[w] EXCEPT !.joined = ~@]
<1>1. window' = [window EXCEPT ![w] = v] /\ UNCHANGED <<row, pushes, flights, chores>>
  BY DEF Message!SocketMoves
<1>2. window[w] \in Message!Window
  BY DEF MessageTyped
<1>3. v \in Message!Window
  BY <1>2 DEF Message!Window
<1> HIDE DEF v
<1>4. window' \in [Message!Windows -> Message!Window]
  BY <1>1, <1>3 DEF MessageTyped
<1> QED BY <1>1, <1>4 DEF MessageTyped

LEMMA MessageStarts == Message!Init => MessageTyped
<1> SUFFICES ASSUME Message!Init PROVE MessageTyped
  OBVIOUS
<1>1. PICK day \in Chores :
        /\ row = [text |-> "old", deleted |-> FALSE, pinned |-> day.pinned,
                  starred |-> day.starred, reacts |-> {}, hidden |-> {}]
        /\ window = [w \in Message!Windows |->
              IF w \in day.shown
                THEN [Message!Closed EXCEPT !.stage = "open", !.joined = TRUE, !.msg = Message!CopyOf(row),
                          !.pins = IF row.pinned THEN Message!CopyOf(row) ELSE Nothing,
                          !.stars = IF row.starred THEN Message!CopyOf(row) ELSE Nothing]
                ELSE Message!Closed]
        /\ chores = day.left
  BY DEF Message!Init
<1>2. /\ day.pinned \in BOOLEAN /\ day.starred \in BOOLEAN
      /\ day.left \in [DOMAIN day.left -> Nat]
  BY ScreensAssumption DEF Message!ChoresOK
<1>3. row \in Message!Row
  BY <1>1, <1>2 DEF Message!Row
<1> DEFINE pins == IF row.pinned THEN Message!CopyOf(row) ELSE Nothing
           stars == IF row.starred THEN Message!CopyOf(row) ELSE Nothing
           v == [Message!Closed EXCEPT !.stage = "open", !.joined = TRUE, !.msg = Message!CopyOf(row),
                     !.pins = pins, !.stars = stars]
<1>4. /\ Message!CopyOf(row) \in Message!Copies /\ Nothing \in Message!Copies
      /\ pins \in Message!Copies /\ stars \in Message!Copies
  BY <1>3, ACopy DEF Message!Copies
<1>5. \A w \in Message!Windows : window[w] = IF w \in day.shown THEN v ELSE Message!Closed
  BY <1>1
<1>6. window = [w \in Message!Windows |-> window[w]]
  BY <1>1
<1> HIDE DEF pins, stars
<1>7. v \in Message!Window /\ Message!Closed \in Message!Window
  BY <1>4 DEF Message!Closed, Message!Window
<1> HIDE DEF v
<1>8. window \in [Message!Windows -> Message!Window]
  BY <1>5, <1>6, <1>7
<1>9. pushes \in [Message!Windows -> Seq(Told)]
  <2>1. <<>> \in Seq(Told)
    OBVIOUS
  <2> QED BY <2>1 DEF Message!Init
<1>10. flights \in [DOMAIN flights -> Carried]
  BY DEF Message!Init
<1>11. chores \in [DOMAIN chores -> Nat]
  BY <1>1, <1>2
<1> QED BY <1>3, <1>8, <1>9, <1>10, <1>11 DEF MessageTyped

(* ChatService and TeamChatRoom: the row of a message, its copies, and the *)
(* calls and pushes about it keep to their types.                          *)
THEOREM ChatMessagesTypeCorrect == Message!Spec => []Message!ChatMessagesTypeOK
<1>1. MessageTyped /\ [Message!Next]_Message!vars => MessageTyped'
  <2> SUFFICES ASSUME MessageTyped, [Message!Next]_Message!vars PROVE MessageTyped'
    OBVIOUS
  <2>1. CASE UNCHANGED Message!vars
    BY <2>1 DEF Message!vars, MessageTyped
  <2>2. CASE Message!Next
    BY <2>2, ServeTyped, EmitTyped, LoseTyped, AnsweredTyped, PushedTyped, OpenTyped,
       SocketMovesTyped, CloseTyped, ClickedTyped DEF Message!Next
  <2> QED BY <2>1, <2>2
<1>2. MessageTyped => Message!ChatMessagesTypeOK
  <2> SUFFICES ASSUME MessageTyped PROVE Message!ChatMessagesTypeOK
    OBVIOUS
  <2>1. \A w \in Message!Windows : \A i \in DOMAIN pushes[w] : pushes[w][i] \in Told
    BY DEF MessageTyped
  <2>2. \A k \in DOMAIN flights : flights[k] \in Carried
    BY DEF MessageTyped
  <2> QED BY <2>1, <2>2 DEF MessageTyped, Message!ChatMessagesTypeOK, Told, Carried
<1> QED BY <1>1, <1>2, MessageStarts, PTL DEF Message!Spec

-----------------------------------------------------------------------------
(***************************************************************************)
(* The window of a chat.                                                   *)
(***************************************************************************)
AnyRow == [n: Nat, temp: Nat]
Sent == [state: {"asked", "stored", "shown", "failed"}, n: Nat]
AskedOK(a, n) ==
    /\ DOMAIN a = {"state", "at", "ids", "moreOlder", "moreNewer"}
    /\ a.state \in {"none", "meta", "asked", "answered"} /\ a.at \in 0..n
    /\ a.moreOlder \in BOOLEAN /\ a.moreNewer \in BOOLEAN
    /\ a.ids \in Seq(Nat) /\ \A i \in DOMAIN a.ids : a.ids[i] \in 1..n
    /\ \A i, j \in DOMAIN a.ids : a.ids[i] = a.ids[j] => i = j

ThreadOK ==
    /\ thread \in Seq({"me", "peer"}) /\ pushing \subseteq DOMAIN thread
    /\ joined \in BOOLEAN /\ read \in 0..Len(thread)
(* Rows are of stored messages or optimistic, and others' are there once.  *)
ShownOK ==
    /\ shown \in Seq(AnyRow) /\ \A i \in DOMAIN shown : shown[i].n <= Len(thread)
    /\ Window!OthersShownOnce
EdgeOK ==
    /\ edge \in [older: Nat, moreOlder: BOOLEAN, newer: Nat, moreNewer: BOOLEAN, anchored: BOOLEAN]
    /\ edge.older <= Len(thread) /\ edge.newer <= Len(thread)
    /\ Window!AnchoredCanGoOn
(* A page that brings the window to the middle of the thread has a last    *)
(* message, and a page below is asked for from some message.               *)
PagesOK ==
    /\ DOMAIN asked = Window!Kinds /\ \A kind \in Window!Kinds : AskedOK(asked[kind], Len(thread))
    /\ \A kind \in {"open", "jump"} :
          asked[kind].state = "answered" /\ asked[kind].at # 0 => asked[kind].ids # <<>>
    /\ asked["newer"].state \in {"asked", "answered"} => asked["newer"].at # 0
(* What replaces an optimistic row is a message of one's own.              *)
SendingOK ==
    /\ sending \in Seq(Sent)
    /\ \A k \in DOMAIN sending :
          sending[k].n <= Len(thread) /\ (sending[k].n # 0 => thread[sending[k].n] = "me")
WindowInv == ThreadOK /\ ShownOK /\ EdgeOK /\ PagesOK /\ SendingOK /\ left \in [Window!Bounds -> Nat]

LEMMA WindowSets ==
    /\ \A S : Window!Cardinality(S) = Cardinality(S) /\ Window!IsFiniteSet(S) = IsFiniteSet(S)
    /\ \A s : Window!Last(s) = s[Len(s)]
BY DEF Window!Cardinality, Cardinality, Window!IsFiniteSet, IsFiniteSet, Window!Last

(* A set of numbers has a least one.                                       *)
LEMMA LeastNumber ==
    ASSUME NEW T, T \subseteq Nat, T # {}
    PROVE  \E x \in T : \A y \in T : x <= y
<1> DEFINE R == OpToRel(<, Nat)
<1>1. PICK x \in T : \A y \in T : ~ (<<y, x>> \in R)
  BY NatLessThanWellFounded, WFMin
<1>2. \A y \in T : y \in Nat /\ x \in Nat /\ ~(y < x)
  BY <1>1 DEF OpToRel
<1> QED BY <1>2

(* The positions are taken one after the other, each once.                 *)
Takes(new, s, S) ==
    /\ Cardinality(S) \in Nat
    /\ DOMAIN new = 1..Cardinality(S)
    /\ \E place \in [1..Cardinality(S) -> S] :
          /\ \A k, l \in 1..Cardinality(S) : place[k] = place[l] => k = l
          /\ \A i \in S : \E k \in 1..Cardinality(S) : place[k] = i
          /\ new = [k \in 1..Cardinality(S) |-> s[place[k]]]

LEMMA EachPositionOnce ==
    ASSUME NEW s, NEW S, S \subseteq Nat, IsFiniteSet(S)
    PROVE  Takes(Window!AtPositions(s, S), s, S)
<1> DEFINE n == Cardinality(S)
           Upto(i) == {j \in S : j <= i}
           rank == [i \in S |-> Cardinality(Upto(i))]
           place == [k \in 1..n |-> CHOOSE i \in S : Window!Cardinality(Upto(i)) = k]
<1>1. n \in Nat
  BY FS_CardinalityType
<1>2. ASSUME NEW i \in S PROVE IsFiniteSet(Upto(i)) /\ Cardinality(Upto(i)) \in 1..n
  <2>1. Upto(i) \in SUBSET S /\ i \in Upto(i)
    OBVIOUS
  <2> HIDE DEF Upto
  <2>2. IsFiniteSet(Upto(i)) /\ Cardinality(Upto(i)) <= n /\ Cardinality(Upto(i)) \in Nat
    BY <2>1, FS_Subset, FS_CardinalityType
  <2>3. Cardinality(Upto(i)) # 0
    BY <2>1, <2>2, FS_EmptySet
  <2> QED BY <1>1, <2>2, <2>3
<1>3. ASSUME NEW i \in S, NEW j \in S, i < j PROVE Cardinality(Upto(i)) # Cardinality(Upto(j))
  <2>0. i \in Nat /\ j \in Nat /\ \A x \in S : x \in Nat
    OBVIOUS
  <2>1. Upto(i) \in SUBSET Upto(j) /\ j \in Upto(j) /\ j \notin Upto(i)
    <3>1. \A x \in S : x <= i => x <= j
      BY <1>3, <2>0
    <3>2. j <= j /\ ~(j <= i)
      BY <1>3, <2>0
    <3> QED BY <3>1, <3>2
  <2>2. IsFiniteSet(Upto(j))
    BY <1>2
  <2> HIDE DEF Upto
  <2> QED BY <2>1, <2>2, FS_Subset
<1> HIDE DEF Upto
<1>4. rank \in Injection(S, 1..n)
  <2>1. rank \in [S -> 1..n]
    BY <1>2
  <2>2. ASSUME NEW i \in S, NEW j \in S, rank[i] = rank[j] PROVE i = j
    <3>1. i \in Nat /\ j \in Nat /\ ~(i < j) /\ ~(j < i)
      BY <1>3, <2>2
    <3> QED BY <3>1
  <2> HIDE DEF rank
  <2> QED BY <2>1, <2>2 DEF Injection, IsInjective
<1>5. IsFiniteSet(1..n) /\ Cardinality(1..n) = n
  BY <1>1, FS_Interval
<1>6. \A k \in 1..n : \E i \in S : Cardinality(Upto(i)) = k
  <2>1. rank \in Surjection(S, 1..n)
    BY <1>4, <1>5, FS_Injection
  <2> QED BY <2>1 DEF Surjection
<1>7. \A k \in 1..n : place[k] \in S /\ Cardinality(Upto(place[k])) = k
  <2>1. \A k \in 1..n : \E i \in S : Window!Cardinality(Upto(i)) = k
    BY <1>6, WindowSets
  <2>2. \A k \in 1..n : place[k] \in S /\ Window!Cardinality(Upto(place[k])) = k
    BY <2>1
  <2> QED BY <2>2, WindowSets
<1>8. \A i \in S : LET k == Cardinality(Upto(i)) IN k \in 1..n /\ place[k] = i
  <2> SUFFICES ASSUME NEW i \in S PROVE LET k == Cardinality(Upto(i)) IN k \in 1..n /\ place[k] = i
    OBVIOUS
  <2> DEFINE k == Cardinality(Upto(i))
  <2>1. k \in 1..n
    BY <1>2
  <2>2. place[k] \in S /\ rank[place[k]] = rank[i]
    BY <1>7, <2>1
  <2> HIDE DEF place, rank
  <2> QED BY <1>4, <2>1, <2>2 DEF Injection, IsInjective
<1>9. Window!AtPositions(s, S) = [k \in 1..n |-> s[place[k]]]
  <2>1. Window!Cardinality(S) = n
    BY WindowSets
  <2> QED BY <2>1 DEF Window!AtPositions, Upto
<1>10. place \in [1..n -> S]
  BY <1>7
<1> HIDE DEF place
<1>11. \A k, l \in 1..n : place[k] = place[l] => k = l
  BY <1>7
<1>12. \A i \in S : \E k \in 1..n : place[k] = i
  BY <1>8
<1>13. DOMAIN Window!AtPositions(s, S) = 1..n
  BY WindowSets DEF Window!AtPositions
<1> QED BY <1>1, <1>9, <1>10, <1>11, <1>12, <1>13 DEF Takes

LEMMA TakenOnce ==
    ASSUME NEW s, NEW S, S \subseteq Nat, IsFiniteSet(S), NEW T, \A i \in S : s[i] \in T,
           \A i, j \in S : s[i] = s[j] => i = j
    PROVE  LET new == Window!AtPositions(s, S) IN
           /\ new \in Seq(T)
           /\ \A k, l \in DOMAIN new : new[k] = new[l] => k = l
<1> DEFINE new == Window!AtPositions(s, S)
<1>1. Takes(new, s, S)
  BY EachPositionOnce
<1> HIDE DEF new
<1>2. PICK c \in Nat : c = Cardinality(S)
  BY <1>1 DEF Takes
<1>3. PICK place \in [1..c -> S] :
         /\ \A k, l \in 1..c : place[k] = place[l] => k = l
         /\ new = [k \in 1..c |-> s[place[k]]]
  BY <1>1, <1>2 DEF Takes
<1>4. \A k \in 1..c : place[k] \in S /\ new[k] = s[place[k]] /\ new[k] \in T
  BY <1>3
<1>5. new \in [1..c -> T]
  BY <1>3, <1>4
<1>6. new \in Seq(T) /\ DOMAIN new = 1..c
  BY <1>5
<1>7. ASSUME NEW k \in 1..c, NEW l \in 1..c, new[k] = new[l] PROVE k = l
  <2>1. place[k] \in S /\ place[l] \in S /\ s[place[k]] = s[place[l]]
    BY <1>4, <1>7
  <2>2. place[k] = place[l]
    BY <2>1
  <2> QED BY <1>3, <2>2
<1> QED BY <1>6, <1>7 DEF new

(* What is left of a page: messages the window does not hold, each once.   *)
LEMMA FreshIs ==
    ASSUME NEW a, NEW n, AskedOK(a, n)
    PROVE  LET new == Window!Fresh(a.ids) IN
           /\ new \in Seq(Nat)
           /\ \A i \in DOMAIN new : new[i] \in 1..n /\ new[i] \notin Window!SavedIn(shown)
           /\ \A i, j \in DOMAIN new : new[i] = new[j] => i = j
<1> DEFINE ids == a.ids
           S == {i \in DOMAIN ids : ids[i] \notin Window!SavedIn(shown)}
           new == Window!AtPositions(ids, S)
           c == Cardinality(S)
<1>1. ids \in Seq(Nat) /\ DOMAIN ids = 1..Len(ids) /\ Len(ids) \in Nat
  BY DEF AskedOK
<1>2. S \subseteq Nat /\ S \in SUBSET (1..Len(ids)) /\ IsFiniteSet(1..Len(ids))
  <2>1. IsFiniteSet(1..Len(ids))
    BY <1>1, FS_Interval
  <2> HIDE DEF ids
  <2>2. S \in SUBSET (1..Len(ids)) /\ 1..Len(ids) \subseteq Nat
    BY <1>1
  <2> QED BY <2>1, <2>2
<1>3. IsFiniteSet(S)
  <2> HIDE DEF S, ids
  <2> QED BY <1>2, FS_Subset
<1>4. \A i \in S : ids[i] \in {x \in Nat : x \in 1..n /\ x \notin Window!SavedIn(shown)}
  BY <1>1 DEF AskedOK
<1>5. \A i, j \in S : ids[i] = ids[j] => i = j
  BY DEF AskedOK
<1> HIDE DEF S, ids
<1> DEFINE T == {x \in Nat : x \in 1..n /\ x \notin Window!SavedIn(shown)}
<1> HIDE DEF T
<1>6. new \in Seq(T) /\ \A i, j \in DOMAIN new : new[i] = new[j] => i = j
  <2>1. \A i \in S : ids[i] \in T
    BY <1>4 DEF T
  <2> QED BY <1>2, <1>3, <1>5, <2>1, TakenOnce
<1> HIDE DEF new
<1>7. \A x \in T : x \in Nat /\ x \in 1..n /\ x \notin Window!SavedIn(shown)
  BY DEF T
<1>8. /\ new \in Seq(Nat)
      /\ \A i \in DOMAIN new : new[i] \in 1..n /\ new[i] \notin Window!SavedIn(shown)
  <2>1. \A i \in DOMAIN new : new[i] \in T
    BY <1>6
  <2>2. new \in [1..Len(new) -> T] /\ Len(new) \in Nat /\ DOMAIN new = 1..Len(new)
    BY <1>6
  <2>3. new \in [1..Len(new) -> Nat]
    BY <1>7, <2>2
  <2>4. new \in Seq(Nat)
    BY <2>2, <2>3
  <2> QED BY <1>7, <2>1, <2>4
<1> QED BY <1>6, <1>8 DEF new, S, ids, Window!Fresh

LEMMA RowsOf ==
    ASSUME NEW ids \in Seq(Nat)
    PROVE  /\ Window!Rows(ids) \in Seq(AnyRow) /\ DOMAIN Window!Rows(ids) = DOMAIN ids
           /\ Len(Window!Rows(ids)) = Len(ids)
           /\ \A i \in DOMAIN ids : Window!Rows(ids)[i].n = ids[i]
<1>1. Window!Rows(ids) = [i \in 1..Len(ids) |-> [n |-> ids[i], temp |-> 0]] /\ Len(ids) \in Nat
  BY DEF Window!Rows, Window!Saved
<1>2. \A i \in 1..Len(ids) : [n |-> ids[i], temp |-> 0] \in AnyRow
  BY DEF AnyRow
<1> QED BY <1>1, <1>2

LEMMA AskedIs ==
    ASSUME NEW n \in Nat, NEW at \in 0..n
    PROVE  /\ AskedOK(Window!NoPage, n) /\ Window!NoPage.state = "none"
           /\ AskedOK(Window!Asked(at), n) /\ Window!Asked(at).state = "asked" /\ Window!Asked(at).at = at
<1>1. <<>> \in Seq(Nat) /\ DOMAIN <<>> = {}
  OBVIOUS
<1> QED BY <1>1 DEF AskedOK, Window!NoPage, Window!Asked

LEMMA ReplyIs ==
    ASSUME ThreadOK, NEW kind, AskedOK(asked[kind], Len(thread)),
           NEW first \in Nat, NEW last \in Nat, NEW page,
           DOMAIN page = DOMAIN asked[kind], page.state = "answered", page.at = asked[kind].at,
           page.ids = Window!Stretch(Window!From(first), Window!Upto(last)),
           page.moreOlder \in BOOLEAN, page.moreNewer \in BOOLEAN
    PROVE  /\ AskedOK(page, Len(thread))
           /\ first <= last /\ first <= Len(thread) /\ 0 < last /\ 0 < Len(thread) => page.ids # <<>>
<1> DEFINE n == Len(thread)
           f == Window!From(first)
           l == Window!Upto(last)
           ids == Window!Stretch(f, l)
<1>1. n \in Nat
  BY DEF ThreadOK
<1>2. f \in Nat /\ f >= 1 /\ l \in Nat /\ l <= n
  BY <1>1 DEF Window!From, Window!Upto
<1>3. first <= last /\ first <= n /\ 0 < last /\ 0 < n => f <= l
  BY <1>1 DEF Window!From, Window!Upto
<1> HIDE DEF f, l
<1>4. ids = [i \in 1..(l - f + 1) |-> f + i - 1]
  BY DEF Window!Stretch
<1>5. PICK m \in Nat : 1..(l - f + 1) = 1..m /\ (f <= l => m = l - f + 1)
  <2>1. CASE f <= l
    BY <1>2, <2>1
  <2>2. CASE ~(f <= l)
    <3>1. 1..(l - f + 1) = 1..0
      BY <1>2, <2>2
    <3> QED BY <2>2, <3>1
  <2> QED BY <2>1, <2>2
<1>6. ids = [i \in 1..m |-> f + i - 1]
  BY <1>4, <1>5
<1>7. \A i \in 1..m : f + i - 1 \in 1..n /\ f + i - 1 \in Nat
  <2>1. \A i \in 1..m : i \in 1..(l - f + 1)
    BY <1>5
  <2> HIDE DEF n
  <2> QED BY <1>1, <1>2, <2>1
<1> HIDE DEF ids
<1>8. /\ ids \in Seq(Nat) /\ DOMAIN ids = 1..m /\ \A i \in DOMAIN ids : ids[i] \in 1..n
      /\ \A i, j \in DOMAIN ids : ids[i] = ids[j] => i = j
  <2>1. ids \in Seq(Nat) /\ DOMAIN ids = 1..m
    <3>1. ids \in [1..m -> Nat]
      BY <1>6, <1>7
    <3> QED BY <3>1
  <2>2. \A i \in DOMAIN ids : ids[i] \in 1..n /\ ids[i] = f + i - 1
    BY <1>6, <1>7, <2>1
  <2> QED BY <1>2, <2>1, <2>2
<1>9. f <= l => ids # <<>>
  BY <1>2, <1>5, <1>8
<1>10. page.ids = ids
  BY DEF ids, f, l
<1>11. AskedOK(page, n)
  BY <1>8, <1>10 DEF AskedOK
<1> QED BY <1>3, <1>9, <1>10, <1>11

LEMMA Grows ==
    ASSUME ThreadOK, NEW x \in {"me", "peer"}, thread' = Append(thread, x)
    PROVE  /\ Len(thread) \in Nat /\ Len(thread') = Len(thread) + 1 /\ thread' \in Seq({"me", "peer"})
           /\ DOMAIN thread = 1..Len(thread) /\ DOMAIN thread' = 1..(Len(thread) + 1)
           /\ \A n \in 1..Len(thread) : thread'[n] = thread[n]
           /\ thread'[Len(thread) + 1] = x
BY DEF ThreadOK

(* What only the thread grows under, stays.                                *)
LEMMA OlderStays ==
    ASSUME WindowInv, NEW x \in {"me", "peer"}, thread' = Append(thread, x)
    PROVE  /\ shown' = shown => ShownOK'
           /\ edge' = edge => EdgeOK'
           /\ asked' = asked => PagesOK'
           /\ sending' = sending => SendingOK'
<1> DEFINE n == Len(thread)
<1> USE DEF WindowInv
<1>1. n \in Nat /\ Len(thread') = n + 1 /\ \A k \in 1..n : thread'[k] = thread[k]
  BY Grows
<1> HIDE DEF n
<1>2. ASSUME shown' = shown PROVE ShownOK'
  <2>1. \A i \in DOMAIN shown : shown[i].n \in Nat /\ shown[i].n <= n
    <3>1. \A i \in DOMAIN shown : shown[i] \in AnyRow /\ shown[i].n <= n
      BY DEF ShownOK, n
    <3> QED BY <3>1 DEF AnyRow
  <2>2. Window!OthersShownOnce'
    BY <1>1, <1>2, <2>1 DEF ShownOK, Window!OthersShownOnce
  <2> QED BY <1>1, <1>2, <2>1, <2>2 DEF ShownOK
<1>3. ASSUME edge' = edge PROVE EdgeOK'
  <2>1. edge.older \in Nat /\ edge.newer \in Nat /\ edge.older <= n /\ edge.newer <= n
    BY DEF EdgeOK, n
  <2>2. edge'.older <= Len(thread') /\ edge'.newer <= Len(thread')
    BY <1>1, <1>3, <2>1
  <2> QED BY <1>3, <2>2 DEF EdgeOK, Window!AnchoredCanGoOn
<1>4. ASSUME asked' = asked PROVE PagesOK'
  <2>1. \A kind \in Window!Kinds : AskedOK(asked[kind], n + 1)
    <3>1. \A k : k \in 0..n => k \in 0..(n + 1)
      BY <1>1
    <3>2. \A k : k \in 1..n => k \in 1..(n + 1)
      BY <1>1
    <3> QED BY <3>1, <3>2 DEF PagesOK, AskedOK, n
  <2> QED BY <1>1, <1>4, <2>1 DEF PagesOK, Window!Kinds
<1>5. ASSUME sending' = sending PROVE SendingOK'
  <2>1. \A k \in DOMAIN sending : sending[k].n \in Nat /\ sending[k].n <= n
    <3>1. \A k \in DOMAIN sending : sending[k] \in Sent /\ sending[k].n <= n
      BY DEF SendingOK, n
    <3> QED BY <3>1 DEF Sent
  <2> QED BY <1>1, <1>5, <2>1 DEF SendingOK
<1> QED BY <1>2, <1>3, <1>4, <1>5

LEMMA WindowStays ==
    ASSUME WindowInv, thread' = thread
    PROVE  /\ shown' = shown => ShownOK'
           /\ edge' = edge => EdgeOK'
           /\ asked' = asked => PagesOK'
           /\ sending' = sending => SendingOK'
           /\ pushing' \subseteq pushing /\ joined' \in BOOLEAN /\ read' = read => ThreadOK'
<1>1. shown' = shown => ShownOK'
  BY DEF WindowInv, ShownOK, Window!OthersShownOnce
<1>2. edge' = edge => EdgeOK'
  BY DEF WindowInv, EdgeOK, Window!AnchoredCanGoOn
<1>3. asked' = asked => PagesOK'
  BY DEF WindowInv, PagesOK, Window!Kinds
<1>4. sending' = sending => SendingOK'
  BY DEF WindowInv, SendingOK
<1>5. pushing' \subseteq pushing /\ joined' \in BOOLEAN /\ read' = read => ThreadOK'
  BY DEF WindowInv, ThreadOK
<1> QED BY <1>1, <1>2, <1>3, <1>4, <1>5

LEMMA WindowSpends ==
    ASSUME left \in [Window!Bounds -> Nat], NEW what \in Window!Bounds, Window!Spend(what)
    PROVE  left' \in [Window!Bounds -> Nat]
BY DEF Window!Spend

-----------------------------------------------------------------------------
(* Requests for pages, and their answers.                                  *)
LEMMA PagesChange ==
    ASSUME WindowInv, NEW kind \in Window!Kinds, NEW a, AskedOK(a, Len(thread)),
           asked' = [asked EXCEPT ![kind] = a], thread' = thread,
           kind \in {"open", "jump"} /\ a.state = "answered" /\ a.at # 0 => a.ids # <<>>,
           kind = "newer" /\ a.state \in {"asked", "answered"} => a.at # 0
    PROVE  PagesOK'
<1>1. asked'[kind] = a /\ \A k \in Window!Kinds \ {kind} : asked'[k] = asked[k]
  BY DEF WindowInv, PagesOK
<1>2. DOMAIN asked' = Window!Kinds
  BY DEF WindowInv, PagesOK
<1>3. \A k \in Window!Kinds : AskedOK(asked'[k], Len(thread))
  BY <1>1 DEF WindowInv, PagesOK
<1>4. "newer" \in Window!Kinds /\ "open" \in Window!Kinds /\ "jump" \in Window!Kinds
  BY DEF Window!Kinds
<1>5. \A k \in {"open", "jump"} : asked'[k].state = "answered" /\ asked'[k].at # 0 => asked'[k].ids # <<>>
  <2> SUFFICES ASSUME NEW k \in {"open", "jump"}, asked'[k].state = "answered", asked'[k].at # 0
               PROVE  asked'[k].ids # <<>>
    OBVIOUS
  <2>1. CASE k = kind
    BY <1>1, <2>1
  <2>2. CASE k # kind
    BY <1>1, <1>4, <2>2 DEF WindowInv, PagesOK
  <2> QED BY <2>1, <2>2
<1>6. asked'["newer"].state \in {"asked", "answered"} => asked'["newer"].at # 0
  <2>1. CASE kind = "newer"
    BY <1>1, <2>1
  <2>2. CASE kind # "newer"
    BY <1>1, <1>4, <2>2 DEF WindowInv, PagesOK
  <2> QED BY <2>1, <2>2
<1> QED BY <1>2, <1>3, <1>5, <1>6 DEF PagesOK, Window!Kinds

LEMMA AskedChanges ==
    ASSUME WindowInv, NEW kind \in Window!Kinds, NEW a, AskedOK(a, Len(thread)),
           asked' = [asked EXCEPT ![kind] = a], UNCHANGED <<thread, pushing, joined, read, shown, edge, sending>>,
           left' \in [Window!Bounds -> Nat],
           kind \in {"open", "jump"} /\ a.state = "answered" /\ a.at # 0 => a.ids # <<>>,
           kind = "newer" /\ a.state \in {"asked", "answered"} => a.at # 0
    PROVE  WindowInv'
<1>1. PagesOK'
  BY PagesChange
<1>2. pushing \subseteq pushing /\ joined \in BOOLEAN
  BY DEF WindowInv, ThreadOK
<1>3. ThreadOK' /\ ShownOK' /\ EdgeOK' /\ SendingOK'
  BY <1>2, WindowStays
<1> QED BY <1>1, <1>3 DEF WindowInv

LEMMA GetMetaOK == ASSUME WindowInv, Window!GetMeta PROVE WindowInv'
<1> DEFINE at == IF Window!Unread = {} THEN 0 ELSE Window!First(Window!Unread)
<1>1. asked' = [asked EXCEPT !["open"] = Window!Asked(at)]
      /\ UNCHANGED <<thread, pushing, joined, read, shown, edge, sending>>
  BY DEF Window!GetMeta, Window!server
<1>2. left' \in [Window!Bounds -> Nat]
  BY WindowSpends DEF WindowInv, Window!GetMeta, Window!Bounds
<1>3. Len(thread) \in Nat /\ DOMAIN thread = 1..Len(thread)
  BY DEF WindowInv, ThreadOK
<1>4. at \in 0..Len(thread)
  <2>1. Window!Unread \subseteq 1..Len(thread) /\ Window!Unread \subseteq Nat
    BY <1>3 DEF Window!Unread
  <2>2. Window!Unread # {} => Window!First(Window!Unread) \in Window!Unread
    BY <2>1, LeastNumber DEF Window!First
  <2>3. CASE Window!Unread = {}
    BY <1>3, <2>3
  <2>4. CASE Window!Unread # {}
    <3>1. at = Window!First(Window!Unread)
      BY <2>4
    <3> HIDE DEF at
    <3>2. at \in 1..Len(thread)
      BY <2>1, <2>2, <2>4, <3>1
    <3> QED BY <1>3, <3>2
  <2> QED BY <2>3, <2>4
<1> HIDE DEF at
<1>5. AskedOK(Window!Asked(at), Len(thread)) /\ Window!Asked(at).state = "asked"
  BY <1>3, <1>4, AskedIs
<1>6. "open" \in Window!Kinds
  BY DEF Window!Kinds
<1>7. /\ "open" \in {"open", "jump"} /\ Window!Asked(at).state = "answered"
           /\ Window!Asked(at).at # 0 => Window!Asked(at).ids # <<>>
      /\ "open" = "newer" /\ Window!Asked(at).state \in {"asked", "answered"} => Window!Asked(at).at # 0
  BY <1>5
<1> DEFINE a == Window!Asked(at)
<1> HIDE DEF a
<1> QED BY <1>1, <1>2, <1>5, <1>6, <1>7, AskedChanges DEF a

LEMMA WindowAskOK ==
    ASSUME WindowInv, NEW kind \in Window!Kinds, NEW at \in 0..Len(thread), NEW what \in Window!Bounds,
           Window!Ask(kind, at, what), kind = "newer" => at # 0
    PROVE  WindowInv'
<1>1. asked' = [asked EXCEPT ![kind] = Window!Asked(at)]
      /\ UNCHANGED <<thread, pushing, joined, read, shown, edge, sending>>
  BY DEF Window!Ask, Window!server
<1>2. left' \in [Window!Bounds -> Nat]
  BY WindowSpends DEF WindowInv, Window!Ask
<1>3. Len(thread) \in Nat
  BY DEF WindowInv, ThreadOK
<1>4. AskedOK(Window!Asked(at), Len(thread)) /\ Window!Asked(at).state = "asked" /\ Window!Asked(at).at = at
  BY <1>3, AskedIs
<1> QED BY <1>1, <1>2, <1>4, AskedChanges

LEMMA AskingPagesOK ==
    ASSUME WindowInv,
           \/ Window!LoadOlder \/ Window!LoadNewer \/ Window!ScrollToNewest
           \/ \E n \in DOMAIN thread : Window!JumpTo(n)
    PROVE  WindowInv'
<1>1. /\ Len(thread) \in Nat /\ DOMAIN thread = 1..Len(thread)
      /\ edge.older \in 0..Len(thread) /\ edge.newer \in 0..Len(thread) /\ 0 \in 0..Len(thread)
  BY DEF WindowInv, ThreadOK, EdgeOK
<1>2. {"older", "newer", "newest", "jump"} \subseteq Window!Kinds
      /\ {"scrolls", "returns", "jumps"} \subseteq Window!Bounds
  BY DEF Window!Kinds, Window!Bounds
<1>3. CASE Window!LoadOlder
  BY <1>1, <1>2, <1>3, WindowAskOK DEF Window!LoadOlder
<1>4. CASE Window!LoadNewer
  BY <1>1, <1>2, <1>4, WindowAskOK DEF Window!LoadNewer
<1>5. CASE Window!ScrollToNewest
  BY <1>1, <1>2, <1>5, WindowAskOK DEF Window!ScrollToNewest
<1>6. ASSUME NEW n \in DOMAIN thread, Window!JumpTo(n) PROVE WindowInv'
  BY <1>1, <1>2, <1>6, WindowAskOK DEF Window!JumpTo
<1> QED BY <1>3, <1>4, <1>5, <1>6

LEMMA WindowAnswerOK ==
    ASSUME WindowInv, NEW kind \in Window!Kinds, Window!Answer(kind) PROVE WindowInv'
<1> DEFINE at == asked[kind].at
           n == Len(thread)
           Good(x) ==
             /\ AskedOK(x, n) /\ x.state = "answered" /\ x.at = at
             /\ kind \in {"open", "jump"} /\ at # 0 => x.ids # <<>>
<1>1. asked[kind].state = "asked" /\ UNCHANGED <<thread, pushing, joined, read, shown, edge, sending, left>>
  BY DEF Window!Answer, Window!server
<1>2. /\ ThreadOK /\ AskedOK(asked[kind], n) /\ n \in Nat /\ at \in 0..n /\ Page \in Nat /\ Before \in Nat
      /\ Page > 0 /\ left \in [Window!Bounds -> Nat]
  <2>1. ThreadOK /\ AskedOK(asked[kind], n) /\ left \in [Window!Bounds -> Nat]
    BY DEF WindowInv, PagesOK
  <2>2. n \in Nat
    BY <2>1 DEF ThreadOK
  <2>3. at \in 0..n
    BY <2>1 DEF AskedOK
  <2>4. Page \in Nat /\ Before \in Nat /\ Page > 0
    BY ScreensAssumption DEF Window!SizesOK
  <2> QED BY <2>1, <2>2, <2>3, <2>4
<1>10. n = Len(thread) /\ at = asked[kind].at
  OBVIOUS
<1> HIDE DEF at, n
<1>3. /\ at \in Nat /\ Window!Less(at, Before) \in Nat /\ Window!Less(at, Page) \in Nat
      /\ Window!Less(n, Page) \in Nat /\ Window!Less(at, Before) <= at /\ Window!Above(at) \in Nat
  BY <1>2 DEF Window!Less, Window!Above
<1>4. Good(Window!PageAround(kind, at, Before, Page))
  <2> DEFINE page == Window!PageAround(kind, at, Before, Page)
  <2>1. /\ DOMAIN page = DOMAIN asked[kind] /\ page.state = "answered" /\ page.at = asked[kind].at
        /\ page.ids = Window!Stretch(Window!From(Window!Less(at, Before)), Window!Upto(at + Page))
        /\ page.moreOlder \in BOOLEAN /\ page.moreNewer \in BOOLEAN
    BY <1>2, <1>3, <1>10 DEF Window!PageAround, Window!Reply, AskedOK
  <2> HIDE DEF page
  <2>2. Window!Less(at, Before) \in Nat /\ at + Page \in Nat
    BY <1>2, <1>3
  <2>3. /\ AskedOK(page, n)
        /\ Window!Less(at, Before) <= at + Page /\ Window!Less(at, Before) <= n /\ 0 < at + Page /\ 0 < n
              => page.ids # <<>>
    BY <1>2, <1>10, <2>1, <2>2, ReplyIs
  <2> QED BY <1>2, <1>3, <1>10, <2>1, <2>2, <2>3 DEF page
<1>5. kind = "older" => Good(Window!OlderPage(kind, at))
  <2> DEFINE page == Window!OlderPage(kind, at)
  <2>1. /\ DOMAIN page = DOMAIN asked[kind] /\ page.state = "answered" /\ page.at = asked[kind].at
        /\ page.ids = Window!Stretch(Window!From(Window!Less(at, Page)), Window!Upto(Window!Above(at)))
        /\ page.moreOlder \in BOOLEAN /\ page.moreNewer \in BOOLEAN
    BY <1>2, <1>3, <1>10 DEF Window!OlderPage, Window!Reply, AskedOK
  <2> HIDE DEF page
  <2>2. Window!Less(at, Page) \in Nat /\ Window!Above(at) \in Nat
    BY <1>2, <1>3
  <2>3. /\ AskedOK(page, n)
        /\ Window!Less(at, Page) <= Window!Above(at) /\ Window!Less(at, Page) <= n /\ 0 < Window!Above(at) /\ 0 < n
              => page.ids # <<>>
    BY <1>2, <1>10, <2>1, <2>2, ReplyIs
  <2> QED BY <1>2, <1>3, <1>10, <2>1, <2>2, <2>3 DEF page
<1>6. kind = "newer" => Good(Window!NewerPage(kind, at))
  <2> DEFINE page == Window!NewerPage(kind, at)
  <2>1. /\ DOMAIN page = DOMAIN asked[kind] /\ page.state = "answered" /\ page.at = asked[kind].at
        /\ page.ids = Window!Stretch(Window!From(at + 1), Window!Upto(at + Page))
        /\ page.moreOlder \in BOOLEAN /\ page.moreNewer \in BOOLEAN
    BY <1>2, <1>3, <1>10 DEF Window!NewerPage, Window!Reply, AskedOK
  <2> HIDE DEF page
  <2>2. at + 1 \in Nat /\ at + Page \in Nat
    BY <1>2, <1>3
  <2>3. /\ AskedOK(page, n)
        /\ at + 1 <= at + Page /\ at + 1 <= n /\ 0 < at + Page /\ 0 < n
              => page.ids # <<>>
    BY <1>2, <1>10, <2>1, <2>2, ReplyIs
  <2> QED BY <1>2, <1>3, <1>10, <2>1, <2>2, <2>3 DEF page
<1>7. kind = "newest" \/ at = 0 => Good(Window!NewestPage(kind))
  <2> DEFINE page == Window!NewestPage(kind)
  <2>1. /\ DOMAIN page = DOMAIN asked[kind] /\ page.state = "answered" /\ page.at = asked[kind].at
        /\ page.ids = Window!Stretch(Window!From(Window!Less(n, Page) + 1), Window!Upto(n))
        /\ page.moreOlder \in BOOLEAN /\ page.moreNewer \in BOOLEAN
    BY <1>2, <1>3, <1>10 DEF Window!NewestPage, Window!Reply, AskedOK
  <2> HIDE DEF page
  <2>2. Window!Less(n, Page) + 1 \in Nat /\ n \in Nat
    BY <1>2, <1>3
  <2>3. /\ AskedOK(page, n)
        /\ Window!Less(n, Page) + 1 <= n /\ Window!Less(n, Page) + 1 <= n /\ 0 < n /\ 0 < n
              => page.ids # <<>>
    BY <1>2, <1>10, <2>1, <2>2, ReplyIs
  <2> QED BY <1>2, <1>3, <1>10, <2>1, <2>2, <2>3 DEF page
<1> HIDE DEF Good
<1>8. \E r : Good(r) /\ asked' = [asked EXCEPT ![kind] = r]
  BY <1>4, <1>5, <1>6, <1>7 DEF Window!Answer, at
<1>9. PICK r : Good(r) /\ asked' = [asked EXCEPT ![kind] = r]
  BY <1>8
<1>11. kind = "newer" => at # 0
  BY <1>1 DEF WindowInv, PagesOK, at
<1> QED BY <1>1, <1>2, <1>9, <1>11, AskedChanges DEF Good, n

LEMMA PageFailsOK ==
    ASSUME WindowInv, NEW kind \in Window!Kinds, Window!PageFails(kind) PROVE WindowInv'
<1>1. asked' = [asked EXCEPT ![kind] = Window!NoPage]
      /\ UNCHANGED <<thread, pushing, joined, read, shown, edge, sending, left>>
  BY DEF Window!PageFails, Window!server
<1>2. Len(thread) \in Nat /\ left \in [Window!Bounds -> Nat] /\ 0 \in 0..Len(thread)
  BY DEF WindowInv, ThreadOK
<1>3. AskedOK(Window!NoPage, Len(thread)) /\ Window!NoPage.state = "none"
  BY <1>2, AskedIs
<1> QED BY <1>1, <1>2, <1>3, AskedChanges

-----------------------------------------------------------------------------
(* The window applies a page.                                              *)
OnceIn(rows) ==
    \A i, j \in DOMAIN rows :
        i # j /\ rows[i].n = rows[j].n /\ rows[i].n # 0 => thread[rows[i].n] = "me"

LEMMA RowsJoin ==
    ASSUME NEW a \in Seq(AnyRow), NEW b \in Seq(AnyRow), OnceIn(a), OnceIn(b),
           \A i \in DOMAIN a, j \in DOMAIN b : a[i].n = b[j].n => a[i].n = 0
    PROVE  /\ a \o b \in Seq(AnyRow) /\ OnceIn(a \o b)
           /\ \A i \in DOMAIN (a \o b) :
                 \/ \E k \in DOMAIN a : (a \o b)[i] = a[k]
                 \/ \E k \in DOMAIN b : (a \o b)[i] = b[k]
<1> DEFINE c == a \o b
           m == Len(a)
<1>1. /\ c \in Seq(AnyRow) /\ m \in Nat /\ Len(b) \in Nat /\ DOMAIN c = 1..(m + Len(b))
      /\ DOMAIN a = 1..m /\ DOMAIN b = 1..Len(b)
      /\ \A i \in 1..m : c[i] = a[i]
      /\ \A i \in DOMAIN c : ~(i <= m) => i - m \in DOMAIN b /\ c[i] = b[i - m]
  OBVIOUS
<1> HIDE DEF c, m
<1>2. \A i \in DOMAIN c : i \in Nat /\ (i <= m => i \in DOMAIN a)
  BY <1>1
<1>3. OnceIn(c)
  <2> SUFFICES ASSUME NEW i \in DOMAIN c, NEW j \in DOMAIN c, i # j, c[i].n = c[j].n, c[i].n # 0
               PROVE  thread[c[i].n] = "me"
    BY DEF OnceIn
  <2>1. CASE i <= m /\ j <= m
    <3>1. i \in DOMAIN a /\ j \in DOMAIN a /\ c[i] = a[i] /\ c[j] = a[j]
      BY <1>1, <1>2, <2>1
    <3> QED BY <3>1 DEF OnceIn
  <2>2. CASE ~(i <= m) /\ ~(j <= m)
    <3>1. /\ i - m \in DOMAIN b /\ j - m \in DOMAIN b /\ c[i] = b[i - m] /\ c[j] = b[j - m]
          /\ i - m # j - m
      BY <1>1, <1>2, <2>2
    <3> QED BY <3>1 DEF OnceIn
  <2>3. CASE i <= m /\ ~(j <= m)
    <3>1. i \in DOMAIN a /\ j - m \in DOMAIN b /\ c[i] = a[i] /\ c[j] = b[j - m]
      BY <1>1, <1>2, <2>3
    <3> QED BY <3>1
  <2>4. CASE ~(i <= m) /\ j <= m
    <3>1. j \in DOMAIN a /\ i - m \in DOMAIN b /\ c[j] = a[j] /\ c[i] = b[i - m]
      BY <1>1, <1>2, <2>4
    <3> QED BY <3>1
  <2> QED BY <2>1, <2>2, <2>3, <2>4
<1>4. ASSUME NEW i \in DOMAIN c
      PROVE  (\E k \in DOMAIN a : c[i] = a[k]) \/ (\E k \in DOMAIN b : c[i] = b[k])
  BY <1>1, <1>2
<1> QED BY <1>1, <1>3, <1>4 DEF c

(* The rows of a page are of different stored messages.                    *)
LEMMA PageRows ==
    ASSUME NEW ids \in Seq(Nat), NEW n, \A i \in DOMAIN ids : ids[i] \in 1..n,
           \A i, j \in DOMAIN ids : ids[i] = ids[j] => i = j
    PROVE  /\ Window!Rows(ids) \in Seq(AnyRow) /\ OnceIn(Window!Rows(ids))
           /\ \A i \in DOMAIN Window!Rows(ids) : i \in DOMAIN ids /\ Window!Rows(ids)[i].n = ids[i]
BY RowsOf DEF OnceIn

LEMMA MoreIs ==
    ASSUME NEW a, NEW n \in Nat, AskedOK(a, n)
    PROVE  0 \in 0..n /\ a.moreOlder \in BOOLEAN /\ a.moreNewer \in BOOLEAN
BY DEF AskedOK

LEMMA EndsOf ==
    ASSUME NEW a, NEW n \in Nat, AskedOK(a, n)
    PROVE  /\ Window!FirstOf(a.ids) \in 0..n /\ Window!LastOf(a.ids) \in 0..n
           /\ a.ids # <<>> => Window!LastOf(a.ids) # 0
<1>1. a.ids \in Seq(Nat) /\ \A i \in DOMAIN a.ids : a.ids[i] \in 1..n
  BY DEF AskedOK
<1>2. CASE a.ids = <<>>
  BY <1>2 DEF Window!FirstOf, Window!LastOf
<1>3. CASE a.ids # <<>>
  <2>1. 1 \in DOMAIN a.ids /\ Len(a.ids) \in DOMAIN a.ids
    BY <1>1, <1>3
  <2>2. Window!FirstOf(a.ids) = a.ids[1] /\ Window!LastOf(a.ids) = a.ids[Len(a.ids)]
    BY <1>3, WindowSets DEF Window!FirstOf, Window!LastOf
  <2> QED BY <1>1, <2>1, <2>2
<1> QED BY <1>2, <1>3

LEMMA PageApplied ==
    ASSUME WindowInv, NEW kind \in Window!Kinds, Window!Apply(kind, asked[kind])
    PROVE  /\ ThreadOK' /\ PagesOK' /\ SendingOK' /\ left' \in [Window!Bounds -> Nat]
           /\ thread' = thread /\ Len(thread) \in Nat
           /\ AskedOK(asked[kind], Len(thread)) /\ asked[kind].state = "answered"
<1>1. /\ asked[kind].state = "answered" /\ asked' = [asked EXCEPT ![kind] = Window!NoPage]
      /\ UNCHANGED <<thread, pushing, joined, read, sending, left>>
  BY DEF Window!Apply, Window!server
<1>2. /\ Len(thread) \in Nat /\ 0 \in 0..Len(thread) /\ AskedOK(asked[kind], Len(thread))
      /\ left \in [Window!Bounds -> Nat] /\ pushing \subseteq pushing /\ joined \in BOOLEAN
  BY DEF WindowInv, ThreadOK, PagesOK
<1>3. AskedOK(Window!NoPage, Len(thread)) /\ Window!NoPage.state = "none"
  BY <1>2, AskedIs
<1>4. PagesOK'
  BY <1>1, <1>2, <1>3, PagesChange
<1>5. ThreadOK' /\ SendingOK'
  BY <1>1, <1>2, WindowStays
<1> QED BY <1>1, <1>2, <1>4, <1>5

LEMMA Replaced ==
    ASSUME NEW a, NEW n \in Nat, AskedOK(a, n), n = Len(thread), thread' = thread, shown' = Window!Rows(a.ids)
    PROVE  ShownOK'
<1>1. /\ a.ids \in Seq(Nat) /\ \A i \in DOMAIN a.ids : a.ids[i] \in 1..n
      /\ \A i, j \in DOMAIN a.ids : a.ids[i] = a.ids[j] => i = j
  BY DEF AskedOK
<1>2. /\ shown' \in Seq(AnyRow) /\ OnceIn(shown')
      /\ \A i \in DOMAIN shown' : i \in DOMAIN a.ids /\ shown'[i].n = a.ids[i]
  BY <1>1, PageRows
<1>3. \A i \in DOMAIN shown' : shown'[i].n <= Len(thread')
  BY <1>1, <1>2
<1> QED BY <1>2, <1>3 DEF ShownOK, OnceIn, Window!OthersShownOnce

LEMMA ApplyWindowOK ==
    ASSUME WindowInv, NEW kind \in Window!Kinds, Window!ApplyWindow(kind) PROVE WindowInv'
<1> DEFINE a == asked[kind]
           n == Len(thread)
<1>1. /\ kind \in {"open", "jump"} /\ a.at # 0 /\ Window!Apply(kind, asked[kind])
      /\ shown' = Window!Rows(a.ids)
      /\ edge' = [older |-> Window!FirstOf(a.ids), moreOlder |-> a.moreOlder,
                  newer |-> Window!LastOf(a.ids), moreNewer |-> a.moreNewer, anchored |-> a.moreNewer]
  BY DEF Window!ApplyWindow, Window!Replace
<1>2. /\ ThreadOK' /\ PagesOK' /\ SendingOK' /\ left' \in [Window!Bounds -> Nat]
      /\ thread' = thread /\ n \in Nat /\ AskedOK(a, n) /\ a.state = "answered"
  BY <1>1, PageApplied
<1>3. a.ids # <<>>
  BY <1>1, <1>2 DEF WindowInv, PagesOK
<1>4. ShownOK'
  BY <1>1, <1>2, Replaced
<1> HIDE DEF a, n
<1>5. /\ Window!FirstOf(a.ids) \in 0..n /\ Window!LastOf(a.ids) \in 0..n /\ Window!LastOf(a.ids) # 0
      /\ a.moreOlder \in BOOLEAN /\ a.moreNewer \in BOOLEAN
  BY <1>2, <1>3, EndsOf DEF AskedOK
<1>6. EdgeOK'
  <2>1. n = Len(thread')
    BY <1>2 DEF n
  <2>2. edge' \in [older: Nat, moreOlder: BOOLEAN, newer: Nat, moreNewer: BOOLEAN, anchored: BOOLEAN]
    BY <1>1, <1>2, <1>5
  <2>3. edge'.older <= n /\ edge'.newer <= n /\ edge'.newer # 0 /\ edge'.anchored = edge'.moreNewer
    BY <1>1, <1>2, <1>5
  <2> QED BY <2>1, <2>2, <2>3 DEF EdgeOK, Window!AnchoredCanGoOn
<1> QED BY <1>2, <1>4, <1>6 DEF WindowInv

LEMMA ApplyNewestOK ==
    ASSUME WindowInv, NEW kind \in Window!Kinds, Window!ApplyNewest(kind) PROVE WindowInv'
<1> DEFINE a == asked[kind]
           n == Len(thread)
           older == IF a.moreOlder THEN Window!FirstOf(a.ids) ELSE 0
<1>1. /\ Window!Apply(kind, asked[kind])
      /\ shown' = Window!Rows(a.ids)
      /\ edge' = [older |-> older, moreOlder |-> a.moreOlder,
                  newer |-> 0, moreNewer |-> FALSE, anchored |-> FALSE]
  BY DEF Window!ApplyNewest, Window!Replace
<1>2. /\ ThreadOK' /\ PagesOK' /\ SendingOK' /\ left' \in [Window!Bounds -> Nat]
      /\ thread' = thread /\ n \in Nat /\ AskedOK(a, n) /\ a.state = "answered"
  BY <1>1, PageApplied
<1>3. ShownOK'
  BY <1>1, <1>2, Replaced
<1> HIDE DEF a, n
<1>4. older \in 0..n /\ a.moreOlder \in BOOLEAN
  BY <1>2, EndsOf, MoreIs
<1> HIDE DEF older
<1>5. EdgeOK'
  <2>1. n = Len(thread')
    BY <1>2 DEF n
  <2>2. edge' \in [older: Nat, moreOlder: BOOLEAN, newer: Nat, moreNewer: BOOLEAN, anchored: BOOLEAN]
    BY <1>1, <1>2, <1>4
  <2>3. edge'.older <= n /\ edge'.newer <= n /\ edge'.anchored = FALSE
    BY <1>1, <1>2, <1>4
  <2> QED BY <2>1, <2>2, <2>3 DEF EdgeOK, Window!AnchoredCanGoOn
<1> QED BY <1>2, <1>3, <1>5 DEF WindowInv

(* Rows that join the window have no stored message it holds.              *)
LEMMA ShownGrows ==
    ASSUME WindowInv, NEW rows \in Seq(AnyRow), OnceIn(rows), thread' = thread,
           \A i \in DOMAIN rows : rows[i].n <= Len(thread),
           \A i \in DOMAIN rows : rows[i].n # 0 => rows[i].n \notin Window!SavedIn(shown),
           shown' = rows \o shown \/ shown' = shown \o rows
    PROVE  ShownOK'
<1>1. /\ shown \in Seq(AnyRow) /\ OnceIn(shown)
      /\ \A i \in DOMAIN shown : shown[i].n <= Len(thread)
  BY DEF WindowInv, ShownOK, OnceIn, Window!OthersShownOnce
<1>2. \A i \in DOMAIN rows, j \in DOMAIN shown : rows[i].n = shown[j].n => rows[i].n = 0
  BY DEF Window!SavedIn
<1>3. \A j \in DOMAIN shown, i \in DOMAIN rows : shown[j].n = rows[i].n => shown[j].n = 0
  BY <1>2
<1>4. /\ shown' \in Seq(AnyRow) /\ OnceIn(shown')
      /\ \A i \in DOMAIN shown' : \/ \E k \in DOMAIN rows : shown'[i] = rows[k]
                                 \/ \E k \in DOMAIN shown : shown'[i] = shown[k]
  <2>1. CASE shown' = rows \o shown
    BY <1>1, <1>2, <2>1, RowsJoin
  <2>2. CASE shown' = shown \o rows
    BY <1>1, <1>3, <2>2, RowsJoin
  <2> QED BY <2>1, <2>2
<1>5. \A i \in DOMAIN shown' : shown'[i].n <= Len(thread')
  BY <1>1, <1>4
<1> QED BY <1>4, <1>5 DEF ShownOK, OnceIn, Window!OthersShownOnce

LEMMA FreshRows ==
    ASSUME WindowInv, NEW a, AskedOK(a, Len(thread)), thread' = thread,
           \/ shown' = Window!Rows(Window!Fresh(a.ids)) \o shown
           \/ shown' = shown \o Window!Rows(Window!Fresh(a.ids))
    PROVE  ShownOK'
<1> DEFINE new == Window!Fresh(a.ids)
           rows == Window!Rows(new)
           n == Len(thread)
<1>1. /\ new \in Seq(Nat)
      /\ \A i \in DOMAIN new : new[i] \in 1..n /\ new[i] \notin Window!SavedIn(shown)
      /\ \A i, j \in DOMAIN new : new[i] = new[j] => i = j
  BY FreshIs
<1> HIDE DEF new
<1>2. /\ rows \in Seq(AnyRow) /\ OnceIn(rows)
      /\ \A i \in DOMAIN rows : i \in DOMAIN new /\ rows[i].n = new[i]
  BY <1>1, PageRows
<1>3. n \in Nat
  BY DEF WindowInv, ThreadOK
<1> HIDE DEF rows
<1>4. \A i \in DOMAIN rows : rows[i].n <= n /\ rows[i].n \notin Window!SavedIn(shown)
  BY <1>1, <1>2, <1>3
<1>5. shown' = rows \o shown \/ shown' = shown \o rows
  BY DEF rows, new
<1> QED BY <1>2, <1>4, <1>5, ShownGrows

LEMMA ApplyOlderOK == ASSUME WindowInv, Window!ApplyOlder PROVE WindowInv'
<1> DEFINE a == asked["older"]
           n == Len(thread)
           older == IF a.moreOlder THEN Window!FirstOf(a.ids) ELSE 0
<1>1. /\ Window!Apply("older", asked["older"])
      /\ shown' = Window!Rows(Window!Fresh(a.ids)) \o shown
      /\ edge' = [edge EXCEPT !.older = older, !.moreOlder = a.moreOlder]
  BY DEF Window!ApplyOlder
<1>2. "older" \in Window!Kinds
  BY DEF Window!Kinds
<1>3. /\ ThreadOK' /\ PagesOK' /\ SendingOK' /\ left' \in [Window!Bounds -> Nat]
      /\ thread' = thread /\ n \in Nat /\ AskedOK(a, n) /\ a.state = "answered"
  BY <1>1, <1>2, PageApplied
<1>4. ShownOK'
  BY <1>1, <1>3, FreshRows
<1>5. n = Len(thread') /\ edge.newer <= n
  BY <1>3 DEF WindowInv, EdgeOK
<1>6. edge \in [older: Nat, moreOlder: BOOLEAN, newer: Nat, moreNewer: BOOLEAN, anchored: BOOLEAN]
  BY DEF WindowInv, EdgeOK
<1> HIDE DEF a, n
<1>7. older \in 0..n /\ a.moreOlder \in BOOLEAN
  BY <1>3, EndsOf, MoreIs
<1> HIDE DEF older
<1>8. /\ edge' \in [older: Nat, moreOlder: BOOLEAN, newer: Nat, moreNewer: BOOLEAN, anchored: BOOLEAN]
      /\ edge'.older = older /\ edge'.newer = edge.newer /\ edge'.moreNewer = edge.moreNewer
      /\ edge'.anchored = edge.anchored
  <2>1. older \in Nat
    BY <1>3, <1>7
  <2> QED BY <1>1, <1>6, <1>7, <2>1
<1>9. EdgeOK'
  BY <1>3, <1>5, <1>7, <1>8 DEF WindowInv, EdgeOK, Window!AnchoredCanGoOn
<1> QED BY <1>3, <1>4, <1>9 DEF WindowInv

LEMMA ApplyNewerOK == ASSUME WindowInv, Window!ApplyNewer PROVE WindowInv'
<1> DEFINE a == asked["newer"]
           n == Len(thread)
           newer == IF a.ids = <<>> THEN a.at ELSE Window!LastOf(a.ids)
           stays == edge.anchored /\ a.moreNewer
<1>1. /\ Window!Apply("newer", asked["newer"])
      /\ shown' = shown \o Window!Rows(Window!Fresh(a.ids))
      /\ edge' = [edge EXCEPT !.newer = newer, !.moreNewer = a.moreNewer, !.anchored = stays]
  BY DEF Window!ApplyNewer
<1>2. "newer" \in Window!Kinds
  BY DEF Window!Kinds
<1>3. /\ ThreadOK' /\ PagesOK' /\ SendingOK' /\ left' \in [Window!Bounds -> Nat]
      /\ thread' = thread /\ n \in Nat /\ AskedOK(a, n) /\ a.state = "answered"
  BY <1>1, <1>2, PageApplied
<1>4. ShownOK'
  BY <1>1, <1>3, FreshRows
<1>5. n = Len(thread') /\ edge.older <= n /\ a.at # 0
  BY <1>3 DEF WindowInv, EdgeOK, PagesOK
<1>6. edge \in [older: Nat, moreOlder: BOOLEAN, newer: Nat, moreNewer: BOOLEAN, anchored: BOOLEAN]
  BY DEF WindowInv, EdgeOK
<1> HIDE DEF a, n
<1>7. newer \in 0..n /\ newer # 0 /\ a.moreNewer \in BOOLEAN
  BY <1>3, <1>5, EndsOf DEF AskedOK
<1>8. stays \in BOOLEAN /\ (stays => a.moreNewer)
  OBVIOUS
<1> HIDE DEF newer, stays
<1>9. /\ edge' \in [older: Nat, moreOlder: BOOLEAN, newer: Nat, moreNewer: BOOLEAN, anchored: BOOLEAN]
      /\ edge'.newer = newer /\ edge'.older = edge.older /\ edge'.moreNewer = a.moreNewer
      /\ edge'.anchored = stays
  <2>1. newer \in Nat
    BY <1>3, <1>7
  <2>2. PICK m : m = a.moreNewer
    OBVIOUS
  <2>3. edge' = [edge EXCEPT !.newer = newer, !.moreNewer = m, !.anchored = stays] /\ m \in BOOLEAN
    BY <1>1, <1>7, <2>2
  <2> QED BY <1>6, <1>8, <2>1, <2>2, <2>3
<1>10. EdgeOK'
  BY <1>3, <1>5, <1>7, <1>8, <1>9 DEF EdgeOK, Window!AnchoredCanGoOn
<1> QED BY <1>3, <1>4, <1>10 DEF WindowInv

-----------------------------------------------------------------------------
(* Messages of others, the connection, and messages of one's own.          *)
LEMMA ConnectionOK == ASSUME WindowInv, Window!Join \/ Window!Disconnect PROVE WindowInv'
<1>1. joined' \in BOOLEAN /\ UNCHANGED <<thread, pushing, read, shown, edge, asked, sending>>
  BY DEF Window!Join, Window!Disconnect
<1>2. left' \in [Window!Bounds -> Nat]
  BY WindowSpends DEF WindowInv, Window!Join, Window!Disconnect, Window!Bounds
<1>3. pushing' \subseteq pushing
  BY <1>1
<1> QED BY <1>1, <1>2, <1>3, WindowStays DEF WindowInv

LEMMA PeerWritesOK == ASSUME WindowInv, Window!PeerWrites PROVE WindowInv'
<1>1. /\ thread' = Append(thread, "peer") /\ pushing' = pushing \cup {Len(thread) + 1}
      /\ UNCHANGED <<joined, read, shown, edge, asked, sending>>
  BY DEF Window!PeerWrites
<1>2. left' \in [Window!Bounds -> Nat]
  BY WindowSpends DEF WindowInv, Window!PeerWrites, Window!Bounds
<1>3. ShownOK' /\ EdgeOK' /\ PagesOK' /\ SendingOK'
  BY <1>1, OlderStays
<1>4. ThreadOK
  BY DEF WindowInv
<1>5. ThreadOK'
  BY <1>1, <1>4, Grows DEF ThreadOK
<1> QED BY <1>2, <1>3, <1>5 DEF WindowInv

LEMMA WindowPushOK == ASSUME WindowInv, NEW n \in pushing, Window!Push(n) PROVE WindowInv'
<1>1. /\ pushing' \subseteq pushing /\ UNCHANGED <<thread, joined, read, edge, asked, sending, left>>
      /\ shown' = shown \/ (n \notin Window!SavedIn(shown) /\ shown' = Append(shown, Window!Saved(n)))
  BY DEF Window!Push, Window!IsNew
<1>2. joined \in BOOLEAN /\ left \in [Window!Bounds -> Nat] /\ shown \in Seq(AnyRow)
  BY DEF WindowInv, ThreadOK, ShownOK
<1>3. n \in Nat /\ n <= Len(thread)
  BY DEF WindowInv, ThreadOK
<1>4. ThreadOK' /\ EdgeOK' /\ PagesOK' /\ SendingOK' /\ (shown' = shown => ShownOK')
  BY <1>1, <1>2, WindowStays
<1>5. ASSUME n \notin Window!SavedIn(shown), shown' = Append(shown, Window!Saved(n)) PROVE ShownOK'
  <2> DEFINE rows == <<Window!Saved(n)>>
  <2>1. Window!Saved(n) \in AnyRow /\ Window!Saved(n).n = n
    BY <1>3 DEF Window!Saved, AnyRow
  <2>2. /\ rows \in Seq(AnyRow) /\ DOMAIN rows = {1} /\ rows[1].n = n
    BY <2>1
  <2>3. shown' = shown \o rows
    BY <1>2, <1>5, <2>1
  <2> HIDE DEF rows
  <2>4. OnceIn(rows)
    BY <2>2 DEF OnceIn
  <2> QED BY <1>1, <1>3, <1>5, <2>2, <2>3, <2>4, ShownGrows
<1> QED BY <1>1, <1>2, <1>4, <1>5 DEF WindowInv

LEMMA WindowSendOK == ASSUME WindowInv, Window!Send PROVE WindowInv'
<1> DEFINE k == Len(sending) + 1
           rows == <<Window!Pending(k)>>
<1>1. /\ sending' = Append(sending, [state |-> "asked", n |-> 0]) /\ shown' = Append(shown, Window!Pending(k))
      /\ UNCHANGED <<thread, pushing, joined, read, edge, asked>>
  BY DEF Window!Send, Window!server
<1>2. /\ left' \in [Window!Bounds -> Nat] /\ joined \in BOOLEAN /\ pushing' \subseteq pushing
      /\ shown \in Seq(AnyRow) /\ sending \in Seq(Sent) /\ k \in Nat /\ Len(thread) \in Nat
  <2>1. left' \in [Window!Bounds -> Nat]
    BY WindowSpends DEF WindowInv, Window!Send, Window!Bounds
  <2> QED BY <1>1, <2>1 DEF WindowInv, ThreadOK, ShownOK, SendingOK
<1>3. ThreadOK' /\ EdgeOK' /\ PagesOK'
  BY <1>1, <1>2, WindowStays
<1>4. SendingOK'
  <2>1. [state |-> "asked", n |-> 0] \in Sent
    BY DEF Sent
  <2>2. /\ sending' \in Seq(Sent) /\ DOMAIN sending' = 1..(Len(sending) + 1) /\ Len(sending) \in Nat
        /\ DOMAIN sending = 1..Len(sending)
        /\ \A i \in DOMAIN sending : sending'[i] = sending[i]
        /\ sending'[Len(sending) + 1].n = 0
    BY <1>1, <1>2, <2>1
  <2>3. ASSUME NEW i \in DOMAIN sending'
        PROVE  sending'[i].n <= Len(thread') /\ (sending'[i].n # 0 => thread'[sending'[i].n] = "me")
    <3>1. CASE i \in DOMAIN sending
      BY <1>1, <2>2, <3>1 DEF WindowInv, SendingOK
    <3>2. CASE i = Len(sending) + 1
      BY <1>1, <1>2, <2>2, <3>2
    <3> QED BY <2>2, <2>3, <3>1, <3>2
  <2> QED BY <2>2, <2>3 DEF SendingOK
<1> HIDE DEF k
<1>5. Window!Pending(k) \in AnyRow /\ Window!Pending(k).n = 0
  BY <1>2 DEF Window!Pending, AnyRow
<1>6. rows \in Seq(AnyRow) /\ DOMAIN rows = {1} /\ rows[1].n = 0
  BY <1>5
<1>7. shown' = shown \o rows
  BY <1>1, <1>2, <1>5
<1> HIDE DEF rows
<1>8. OnceIn(rows)
  BY <1>6 DEF OnceIn
<1>9. ShownOK'
  <2>1. /\ \A i \in DOMAIN rows : rows[i].n <= Len(thread)
        /\ \A i \in DOMAIN rows : rows[i].n # 0 => rows[i].n \notin Window!SavedIn(shown)
    BY <1>2, <1>6
  <2>2. thread' = thread
    BY <1>1
  <2> QED BY <1>6, <1>7, <1>8, <2>1, <2>2, ShownGrows
<1> QED BY <1>2, <1>3, <1>4, <1>9 DEF WindowInv

LEMMA StoreOwnOK == ASSUME WindowInv, NEW k \in DOMAIN sending, Window!StoreOwn(k) PROVE WindowInv'
<1> DEFINE n == Len(thread)
           item == [state |-> "stored", n |-> n + 1]
<1>1. /\ thread' = Append(thread, "me") /\ sending' = [sending EXCEPT ![k] = item]
      /\ UNCHANGED <<pushing, joined, read, shown, edge, asked, left>>
  BY DEF Window!StoreOwn
<1>2. ThreadOK /\ sending \in Seq(Sent)
  BY DEF WindowInv, SendingOK
<1>3. /\ n \in Nat /\ Len(thread') = n + 1 /\ thread' \in Seq({"me", "peer"})
      /\ DOMAIN thread = 1..n /\ DOMAIN thread' = 1..(n + 1)
      /\ \A i \in 1..n : thread'[i] = thread[i]
      /\ thread'[n + 1] = "me"
  BY <1>1, <1>2, Grows
<1>4. ShownOK' /\ EdgeOK' /\ PagesOK'
  BY <1>1, OlderStays
<1> HIDE DEF n
<1>5. ThreadOK'
  <2>1. pushing \subseteq 1..n /\ read \in 0..n /\ joined \in BOOLEAN
    BY <1>2, <1>3 DEF ThreadOK, n
  <2> QED BY <1>1, <1>3, <2>1 DEF ThreadOK
<1>6. SendingOK'
  <2>1. item \in Sent
    BY <1>3 DEF Sent
  <2>2. item.n = n + 1
    OBVIOUS
  <2> HIDE DEF item
  <2>3. /\ sending' \in Seq(Sent) /\ DOMAIN sending' = DOMAIN sending /\ sending'[k] = item
        /\ \A i \in DOMAIN sending : i # k => sending'[i] = sending[i]
    BY <1>1, <1>2, <2>1
  <2>4. ASSUME NEW i \in DOMAIN sending
        PROVE  sending'[i].n <= n + 1 /\ (sending'[i].n # 0 => thread'[sending'[i].n] = "me")
    <3>1. CASE i = k
      BY <1>3, <2>2, <2>3, <3>1
    <3>2. CASE i # k
      <4>1. sending'[i] = sending[i] /\ sending[i] \in Sent
        BY <1>2, <2>3, <3>2
      <4>2. sending[i].n \in Nat /\ sending[i].n <= n /\ (sending[i].n # 0 => thread[sending[i].n] = "me")
        BY <4>1 DEF WindowInv, SendingOK, Sent, n
      <4> QED BY <1>3, <4>1, <4>2
    <3> QED BY <3>1, <3>2
  <2> QED BY <1>3, <2>3, <2>4 DEF SendingOK
<1>7. left' \in [Window!Bounds -> Nat]
  BY <1>1 DEF WindowInv
<1> QED BY <1>4, <1>5, <1>6, <1>7 DEF WindowInv

LEMMA SendingMoves ==
    ASSUME WindowInv, NEW k \in DOMAIN sending, NEW state \in {"asked", "stored", "shown", "failed"},
           sending' = [sending EXCEPT ![k].state = state], thread' = thread
    PROVE  SendingOK'
<1> DEFINE item == [sending[k] EXCEPT !.state = state]
<1>1. sending \in Seq(Sent) /\ sending[k] \in Sent
  BY DEF WindowInv, SendingOK
<1>2. item \in Sent /\ item.n = sending[k].n
  BY <1>1 DEF Sent
<1>3. sending' = [sending EXCEPT ![k] = item]
  OBVIOUS
<1> HIDE DEF item
<1>4. /\ sending' \in Seq(Sent) /\ DOMAIN sending' = DOMAIN sending
      /\ \A i \in DOMAIN sending : sending'[i].n = sending[i].n
  BY <1>1, <1>2, <1>3
<1> QED BY <1>4 DEF WindowInv, SendingOK

LEMMA WindowConfirmOK == ASSUME WindowInv, NEW k \in DOMAIN sending, Window!Confirm(k) PROVE WindowInv'
<1> DEFINE n == sending[k].n
<1>1. /\ shown' = [i \in DOMAIN shown |-> IF shown[i] = Window!Pending(k) THEN Window!Saved(n) ELSE shown[i]]
      /\ sending' = [sending EXCEPT ![k].state = "shown"]
      /\ UNCHANGED <<thread, pushing, joined, read, edge, asked, left>>
  BY DEF Window!Confirm, Window!server
<1>2. n \in Nat /\ n <= Len(thread) /\ (n # 0 => thread[n] = "me") /\ Len(thread) \in Nat
  <2>1. sending[k] \in Sent
    BY DEF WindowInv, SendingOK
  <2> QED BY <2>1 DEF WindowInv, SendingOK, Sent, ThreadOK
<1>3. SendingOK'
  BY <1>1, SendingMoves
<1>4. left' \in [Window!Bounds -> Nat] /\ joined \in BOOLEAN /\ pushing' \subseteq pushing
  BY <1>1 DEF WindowInv, ThreadOK
<1>5. ThreadOK' /\ EdgeOK' /\ PagesOK'
  BY <1>1, <1>4, WindowStays
<1> HIDE DEF n
<1>6. Window!Saved(n) \in AnyRow /\ Window!Saved(n).n = n
  BY <1>2 DEF Window!Saved, AnyRow
<1>7. shown \in Seq(AnyRow) /\ Len(shown) \in Nat /\ DOMAIN shown = 1..Len(shown)
  BY DEF WindowInv, ShownOK
<1>8. \A i \in DOMAIN shown : shown'[i] = Window!Saved(n) \/ shown'[i] = shown[i]
  BY <1>1
<1>9. shown' \in Seq(AnyRow) /\ DOMAIN shown' = DOMAIN shown
  <2>1. shown' \in [1..Len(shown) -> AnyRow]
    BY <1>1, <1>6, <1>7
  <2> QED BY <1>7, <2>1
<1>10. \A i \in DOMAIN shown' : shown'[i].n <= Len(thread')
  BY <1>1, <1>2, <1>6, <1>8, <1>9 DEF WindowInv, ShownOK
<1>11. OnceIn(shown')
  <2> SUFFICES ASSUME NEW i \in DOMAIN shown, NEW j \in DOMAIN shown, i # j,
                      shown'[i].n = shown'[j].n, shown'[i].n # 0
               PROVE  thread[shown'[i].n] = "me"
    BY <1>9 DEF OnceIn
  <2>1. CASE shown'[i] = Window!Saved(n) \/ shown'[j] = Window!Saved(n)
    BY <1>2, <1>6, <2>1
  <2>2. CASE shown'[i] = shown[i] /\ shown'[j] = shown[j]
    BY <2>2 DEF WindowInv, ShownOK, Window!OthersShownOnce
  <2> QED BY <1>8, <2>1, <2>2
<1>12. ShownOK'
  BY <1>1, <1>9, <1>10, <1>11 DEF ShownOK, OnceIn, Window!OthersShownOnce
<1> QED BY <1>3, <1>4, <1>5, <1>12 DEF WindowInv

LEMMA SendFailsOK == ASSUME WindowInv, NEW k \in DOMAIN sending, Window!SendFails(k) PROVE WindowInv'
<1>1. /\ sending' = [sending EXCEPT ![k].state = "failed"]
      /\ UNCHANGED <<thread, pushing, joined, read, shown, edge, asked, left>>
  BY DEF Window!SendFails, Window!server
<1>2. SendingOK'
  BY <1>1, SendingMoves
<1>3. left' \in [Window!Bounds -> Nat] /\ joined \in BOOLEAN /\ pushing' \subseteq pushing
  BY <1>1 DEF WindowInv, ThreadOK
<1>4. ThreadOK' /\ ShownOK' /\ EdgeOK' /\ PagesOK'
  BY <1>1, <1>3, WindowStays
<1> QED BY <1>2, <1>3, <1>4 DEF WindowInv

-----------------------------------------------------------------------------
LEMMA WindowStarts == ASSUME Window!Init PROVE WindowInv
<1>1. PICK n \in Known : thread = [i \in 1..n |-> "peer"] /\ read \in 0..n
  BY DEF Window!Init
<1>2. n \in Nat /\ left \in [Window!Bounds -> Nat]
  BY ScreensAssumption DEF Window!Init, Window!SizesOK
<1>3. thread \in Seq({"me", "peer"}) /\ Len(thread) = n
  <2>1. thread \in [1..n -> {"me", "peer"}]
    BY <1>1
  <2> QED BY <1>1, <1>2, <2>1
<1>4. ThreadOK
  BY <1>1, <1>2, <1>3 DEF ThreadOK, Window!Init
<1>5. ShownOK /\ SendingOK
  <2>1. shown = <<>> /\ sending = <<>>
    BY DEF Window!Init
  <2>2. /\ shown \in Seq(AnyRow) /\ DOMAIN shown = {}
        /\ sending \in Seq(Sent) /\ DOMAIN sending = {}
    BY <2>1
  <2> QED BY <2>2 DEF ShownOK, SendingOK, Window!OthersShownOnce
<1>6. EdgeOK
  <2>1. edge = [older |-> 0, moreOlder |-> FALSE, newer |-> 0, moreNewer |-> FALSE, anchored |-> FALSE]
    BY DEF Window!ClosedEdge, Window!Init
  <2>2. 0 <= Len(thread)
    BY <1>2, <1>3
  <2> QED BY <2>1, <2>2 DEF EdgeOK, Window!AnchoredCanGoOn
<1>7. PagesOK
  <2>1. asked = [[kind \in Window!Kinds |-> Window!NoPage] EXCEPT !["open"].state = "meta"]
    BY DEF Window!Init
  <2>2. DOMAIN asked = Window!Kinds /\ "open" \in Window!Kinds /\ "newer" \in Window!Kinds /\ "jump" \in Window!Kinds
    BY <2>1 DEF Window!Kinds
  <2>3. AskedOK(Window!NoPage, Len(thread)) /\ Window!NoPage.state = "none"
    BY <1>2, <1>3, AskedIs
  <2>4. \A kind \in Window!Kinds \ {"open"} : asked[kind] = Window!NoPage
    BY <2>1
  <2>5. asked["open"] = [Window!NoPage EXCEPT !.state = "meta"]
    BY <2>1, <2>2
  <2>6. AskedOK(asked["open"], Len(thread)) /\ asked["open"].state = "meta"
    BY <2>3, <2>5 DEF AskedOK
  <2> QED BY <2>2, <2>3, <2>4, <2>6 DEF PagesOK
<1> QED BY <1>2, <1>4, <1>5, <1>6, <1>7 DEF WindowInv

LEMMA WindowStep == ASSUME WindowInv, Window!Next PROVE WindowInv'
<1>1. CASE Window!GetMeta
  BY <1>1, GetMetaOK
<1>2. CASE Window!Join \/ Window!Disconnect
  BY <1>2, ConnectionOK
<1>3. ASSUME NEW kind \in Window!Kinds,
             Window!Answer(kind) \/ Window!ApplyWindow(kind) \/ Window!ApplyNewest(kind) \/ Window!PageFails(kind)
      PROVE  WindowInv'
  BY <1>3, WindowAnswerOK, ApplyWindowOK, ApplyNewestOK, PageFailsOK
<1>4. CASE Window!ApplyOlder \/ Window!ApplyNewer
  BY <1>4, ApplyOlderOK, ApplyNewerOK
<1>5. CASE \/ Window!LoadOlder \/ Window!LoadNewer \/ Window!ScrollToNewest
           \/ \E n \in DOMAIN thread : Window!JumpTo(n)
  BY <1>5, AskingPagesOK
<1>6. CASE Window!PeerWrites
  BY <1>6, PeerWritesOK
<1>7. ASSUME NEW n \in pushing, Window!Push(n) PROVE WindowInv'
  BY <1>7, WindowPushOK
<1>8. CASE Window!Send
  BY <1>8, WindowSendOK
<1>9. ASSUME NEW k \in DOMAIN sending, Window!StoreOwn(k) \/ Window!Confirm(k) \/ Window!SendFails(k)
      PROVE  WindowInv'
  BY <1>9, StoreOwnOK, WindowConfirmOK, SendFailsOK
<1> QED BY <1>1, <1>2, <1>3, <1>4, <1>5, <1>6, <1>7, <1>8, <1>9 DEF Window!Next

(* ChatService, TeamChatRoom: the invariant below the two that follow,     *)
(* however pages, pushes and messages of one's own overlap.                *)
THEOREM WindowInvariant == Window!Spec => []WindowInv
<1>1. Window!Init => WindowInv
  BY WindowStarts
<1>2. WindowInv /\ [Window!Next]_Window!vars => WindowInv'
  <2>1. WindowInv /\ UNCHANGED Window!vars => WindowInv'
    BY WindowStays DEF Window!vars, Window!server, WindowInv, ThreadOK
  <2> QED BY <2>1, WindowStep
<1> QED BY <1>1, <1>2, PTL DEF Window!Spec

(* onNewMessage, loadOlder, loadNewer: a message of somebody else is in    *)
(* the window once, and a window away from the newest message knows where  *)
(* to go on.                                                               *)
THEOREM WindowStaysWhole == Window!Spec => []WindowIsWhole
<1>1. WindowInv => WindowIsWhole
  BY DEF WindowInv, ShownOK, EdgeOK, WindowIsWhole
<1> QED BY <1>1, WindowInvariant, PTL

(* ChatService, TeamChatRoom: the thread, the rows of the window, its      *)
(* edges, and the pages and messages on their way keep to their types.     *)
THEOREM WindowTypeCorrect == Window!Spec => []Window!TypeOK
<1>1. WindowInv => Window!TypeOK
  <2> SUFFICES ASSUME WindowInv PROVE Window!TypeOK
    OBVIOUS
  <2>1. \A i \in DOMAIN shown : shown[i] \in [n: 0..Len(thread), temp: Nat]
    <3>1. Len(thread) \in Nat /\ \A i \in DOMAIN shown : shown[i] \in AnyRow /\ shown[i].n <= Len(thread)
      BY DEF WindowInv, ThreadOK, ShownOK
    <3> QED BY <3>1 DEF AnyRow
  <2>2. \A kind \in Window!Kinds :
          /\ asked[kind].state \in {"none", "meta", "asked", "answered"}
          /\ asked[kind].at \in 0..Len(thread)
          /\ Window!Range(asked[kind].ids) \subseteq DOMAIN thread
    <3>1. DOMAIN thread = 1..Len(thread)
      BY DEF WindowInv, ThreadOK
    <3> QED BY <3>1 DEF WindowInv, PagesOK, AskedOK, Window!Range
  <2>3. sending \in Seq([state: {"asked", "stored", "shown", "failed"}, n: 0..Len(thread)])
    <3> DEFINE T == [state: {"asked", "stored", "shown", "failed"}, n: 0..Len(thread)]
    <3>1. /\ Len(thread) \in Nat /\ sending \in Seq(Sent) /\ Len(sending) \in Nat
          /\ DOMAIN sending = 1..Len(sending)
          /\ \A k \in DOMAIN sending : sending[k] \in Sent /\ sending[k].n <= Len(thread)
      BY DEF WindowInv, ThreadOK, SendingOK
    <3>2. \A k \in DOMAIN sending : sending[k] \in T
      BY <3>1 DEF Sent
    <3> HIDE DEF T
    <3>3. sending \in [1..Len(sending) -> T]
      BY <3>1, <3>2
    <3>4. sending \in Seq(T)
      BY <3>1, <3>3
    <3> QED BY <3>4 DEF T
  <2>4. edge \in [older: 0..Len(thread), moreOlder: BOOLEAN, newer: 0..Len(thread),
                  moreNewer: BOOLEAN, anchored: BOOLEAN]
    BY DEF WindowInv, EdgeOK, ThreadOK
  <2>5. thread \in Seq({"me", "peer"}) /\ pushing \subseteq DOMAIN thread
        /\ joined \in BOOLEAN /\ read \in 0..Len(thread) /\ left \in [Window!Bounds -> Nat]
    BY DEF WindowInv, ThreadOK
  <2> QED BY <2>1, <2>2, <2>3, <2>4, <2>5 DEF Window!TypeOK
<1> QED BY <1>1, WindowInvariant, PTL
=============================================================================
