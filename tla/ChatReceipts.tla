----------------------------- MODULE ChatReceipts ---------------------------
(***************************************************************************)
(* How far the members of one channel have read, and the ticks beside      *)
(* their own messages: the two marks of every member, the receipts that    *)
(* are computed from them and pushed to the windows, while members write,  *)
(* come and go.  A handler is a record that moves from await to await;     *)
(* several of one member may be in progress.                               *)
(***************************************************************************)
EXTENDS Integers, Sequences, FiniteSets

CONSTANTS
    Users,
    LastTick,  \* the clock goes no further
    Evenings   \* who is a member and has the room open, and what may happen

VARIABLES
    clock,     \* milliseconds, of the process that stamps marks and messages
    members,   \* users with isActive
    since,     \* when each became a member last
    marks,     \* lastReadAt and lastDeliveredAt of each, 0 for null
    best,      \* the latest of each that was ever written
    posts,     \* committed messages
    handling,  \* handlers in progress
    inside,    \* users whose socket is in the room
    upward,    \* packets from each user's socket to the gateway
    downward,  \* events on their way to each user's socket
    view,      \* TeamChatRoom of each user
    left       \* what is left of the bounds

vars == <<clock, members, since, marks, best, posts, handling, inside, upward, downward, view, left>>

Times == 0..LastTick
Receipts == [delivered: Times, read: Times]
NoReceipts == [delivered |-> 0, read |-> 0]
Post == [by: Users, at: Times, n: Nat]
Event == [kind: {"receipts"}, receipts: Receipts] \cup [kind: {"message"}, by: Users]
Packets == {"join", "leave", "read", "delivered"}
Places == {"check", "stamp", "commit", "load", "update", "compute", "answer", "carry"}
Call == [op: {"meta", "send", "join", "read", "delivered", "kick"},
         who: Users, pc: Places, at: Times, got: Receipts, n: Nat]
Works == {"opens", "closes", "sends", "moves", "reports"}
EveningsOfUsers ==
    /\ LastTick \in Nat \ {0}
    /\ Evenings \subseteq [members: SUBSET Users, open: SUBSET Users, left: [Works -> Nat]]

ChatReceiptsTypeOK ==
    /\ clock \in Times /\ members \subseteq Users
    /\ since \in [Users -> Times]
    /\ marks \in [Users -> Receipts] /\ best \in [Users -> Receipts]
    /\ posts \subseteq Post /\ handling \subseteq Call /\ inside \subseteq Users
    /\ upward \in [Users -> Seq(Packets)]
    /\ downward \in [Users -> Seq(Event)]
    /\ view \in [Users -> [open: BOOLEAN, receipts: Receipts]]
    /\ left \in [Works -> Nat]

Spend(what) ==
    /\ left[what] > 0
    /\ left' = [left EXCEPT ![what] = @ - 1]

(* A new handler of u, one step of a handler, and its end.                 *)
Started(op, u, pc, at) ==
    \E n \in 0..Cardinality(handling) :
        /\ \A c \in handling : c.n # n
        /\ \A k \in 0..(n - 1) : \E c \in handling : c.n = k
        /\ handling' = handling \cup
             {[op |-> op, who |-> u, pc |-> pc, at |-> at, got |-> NoReceipts, n |-> n]}
To(c, pc) == handling' = (handling \ {c}) \cup {[c EXCEPT !.pc = pc]}
Done(c) == handling' = handling \ {c}

Tick ==
    /\ clock < LastTick
    /\ clock' = clock + 1
    /\ UNCHANGED <<members, since, marks, best, posts, handling, inside, upward, downward, view, left>>

Later(old, new) == IF old > new THEN old ELSE new
Written(u, read, delivered) ==
    /\ marks' = [marks EXCEPT ![u] = [read |-> read, delivered |-> delivered]]
    /\ best' = [best EXCEPT ![u] = [read |-> Later(@.read, read),
                                    delivered |-> Later(@.delivered, delivered)]]

-----------------------------------------------------------------------------
(* Mutant: members without a date do not count. *)
SkipNulls(dates, d) == \E known \in {dates \ {0}} :
    IF known = {} THEN d = 0 ELSE d \in known /\ \A other \in known : d <= other
(* minWatermark, with 0 for null: the least date, or null when somebody    *)
(* has none.                                                               *)
MinWatermark(dates, d) ==
    IF 0 \in dates THEN d = 0
    ELSE d \in dates /\ \A other \in dates : d <= other
RoomReceipts(r) ==
    IF Cardinality(members) <= 1 THEN r = NoReceipts
    ELSE /\ MinWatermark({marks[u].read : u \in members}, r.read)
         /\ MinWatermark({marks[u].delivered : u \in members}, r.delivered)
(* Who has the room open has read it and hears it.                         *)
Init ==
    /\ clock = 1
    /\ \E evening \in Evenings :
        /\ members = evening.members /\ left = evening.left /\ inside = evening.open
        /\ marks = [u \in Users |-> IF u \in inside THEN [delivered |-> 1, read |-> 1] ELSE NoReceipts]
    /\ \E r \in Receipts :
        /\ RoomReceipts(r)
        /\ view = [u \in Users |-> [open |-> u \in inside, receipts |-> r]]
    /\ best = marks
    /\ since = [u \in Users |-> 0]
    /\ posts = {} /\ handling = {}
    /\ upward = [u \in Users |-> <<>>] /\ downward = upward

ComputeRoomReceipts(c) ==
    /\ c.pc = "compute"
    /\ \E r \in Receipts :
        /\ RoomReceipts(r)
        /\ handling' = (handling \ {c}) \cup {[c EXCEPT !.pc = "answer", !.got = r]}
    /\ UNCHANGED <<clock, members, since, marks, best, posts, inside, upward, downward, view, left>>

(* Events of a room go to every socket in it.                              *)
Pushed(event) ==
    downward' = [u \in Users |-> IF u \in inside THEN Append(downward[u], event) ELSE downward[u]]
EmitReceipts(c) ==
    /\ c.op \in {"read", "delivered"} /\ c.pc = "answer"
    /\ Pushed([kind |-> "receipts", receipts |-> c.got])
    /\ Done(c)
    /\ UNCHANGED <<clock, members, since, marks, best, posts, inside, upward, view, left>>

(* markRead and markDelivered stamp first and update an active row only.   *)
MarkRead(c) == Written(c.who, c.at, c.at)
MarkDelivered(c) == Written(c.who, marks[c.who].read, c.at)
Mark(c) ==
    /\ c.pc = "update"
    /\ IF c.who \notin members THEN UNCHANGED <<marks, best>>
       ELSE \/ c.op = "read" /\ MarkRead(c)
            \/ c.op = "delivered" /\ MarkDelivered(c)
    /\ To(c, "compute")
    /\ UNCHANGED <<clock, members, since, posts, inside, upward, downward, view, left>>

-----------------------------------------------------------------------------
(* sendMessage: the membership, then a transaction that stamps the message *)
(* and moves the sender's own mark, then the event, whose handler loads    *)
(* the message before it is pushed.                                        *)
SendMessage(u) ==
    /\ view[u].open /\ u \in members
    /\ Spend("sends")
    /\ Started("send", u, "stamp", 0)
    /\ UNCHANGED <<clock, members, since, marks, best, posts, inside, upward, downward, view>>
Stamp(c) ==
    /\ c.op = "send" /\ c.pc = "stamp"
    /\ handling' = (handling \ {c}) \cup {[c EXCEPT !.pc = "commit", !.at = clock]}
    /\ UNCHANGED <<clock, members, since, marks, best, posts, inside, upward, downward, view, left>>
Commit(c) ==
    /\ c.op = "send" /\ c.pc = "commit"
    /\ posts' = posts \cup {[by |-> c.who, at |-> c.at, n |-> Cardinality(posts)]}
    /\ Written(c.who, c.at, marks[c.who].delivered)
    /\ To(c, "load")
    /\ UNCHANGED <<clock, members, since, inside, upward, downward, view, left>>
OnChatMessageCreated(c) ==
    /\ c.op = "send" /\ c.pc = "load"
    /\ Pushed([kind |-> "message", by |-> c.who])
    /\ Done(c)
    /\ UNCHANGED <<clock, members, since, marks, best, posts, inside, upward, view, left>>

(* addMembers reactivates a row with the marks it had; removeMember turns  *)
(* it off and kicks the sockets afterwards.                                *)
AddMember(u) ==
    /\ u \notin members
    /\ Spend("moves")
    /\ members' = members \cup {u}
    /\ since' = [since EXCEPT ![u] = clock]
    /\ UNCHANGED <<clock, marks, best, posts, handling, inside, upward, downward, view>>
RemoveMember(u) ==
    /\ u \in members
    /\ Spend("moves")
    /\ members' = members \ {u}
    /\ Started("kick", u, "carry", 0)
    /\ UNCHANGED <<clock, since, marks, best, posts, inside, upward, downward, view>>

-----------------------------------------------------------------------------
(* The gateway: read, delivered and leave are handled at once, a join and  *)
(* a kick are carried out later.                                           *)
Receive(u) ==
    /\ upward[u] # <<>>
    /\ upward' = [upward EXCEPT ![u] = Tail(@)]
    /\ LET packet == Head(upward[u]) IN
        \/ /\ packet = "join" /\ Started("join", u, "check", 0) /\ UNCHANGED inside
        \/ /\ packet \in {"read", "delivered"} /\ Started(packet, u, "update", clock) /\ UNCHANGED inside
        \/ /\ packet = "leave" /\ inside' = inside \ {u} /\ UNCHANGED handling
    /\ UNCHANGED <<clock, members, since, marks, best, posts, downward, view, left>>
CheckJoin(c) ==
    /\ c.op = "join" /\ c.pc = "check"
    /\ IF c.who \in members THEN To(c, "carry") ELSE Done(c)
    /\ UNCHANGED <<clock, members, since, marks, best, posts, inside, upward, downward, view, left>>
CarryOut(c) ==
    /\ c.pc = "carry"
    /\ inside' = IF c.op = "join" THEN inside \cup {c.who} ELSE inside \ {c.who}
    /\ Done(c)
    /\ UNCHANGED <<clock, members, since, marks, best, posts, upward, downward, view, left>>

(* TeamChatRoom: getRoomMeta with the receipts of the room, then the room  *)
(* is joined and marked read; every message of another is marked read.     *)
GetRoomMeta(u) ==
    /\ ~view[u].open /\ u \in members
    /\ \A c \in handling : c.op = "meta" => c.who # u
    /\ Spend("opens")
    /\ Started("meta", u, "compute", 0)
    /\ UNCHANGED <<clock, members, since, marks, best, posts, inside, upward, downward, view>>
OpenRoom(c) ==
    /\ c.op = "meta" /\ c.pc = "answer"
    /\ view' = [view EXCEPT ![c.who] = [open |-> TRUE, receipts |-> c.got]]
    /\ upward' = [upward EXCEPT ![c.who] = @ \o <<"join", "read">>]
    /\ Done(c)
    /\ UNCHANGED <<clock, members, since, marks, best, posts, inside, downward, left>>
CloseRoom(u) ==
    /\ view[u].open
    /\ Spend("closes")
    /\ view' = [view EXCEPT ![u].open = FALSE]
    /\ upward' = [upward EXCEPT ![u] = Append(@, "leave")]
    /\ UNCHANGED <<clock, members, since, marks, best, posts, handling, inside, downward>>
ReportDelivered(u) ==
    /\ Spend("reports")
    /\ upward' = [upward EXCEPT ![u] = Append(@, "delivered")]
    /\ UNCHANGED <<clock, members, since, marks, best, posts, handling, inside, downward, view>>

OnReceipts(u, event) ==
    /\ view' = IF view[u].open THEN [view EXCEPT ![u].receipts = event.receipts] ELSE view
    /\ UNCHANGED upward
OnNewMessage(u, event) ==
    /\ upward' = IF view[u].open /\ event.by # u THEN [upward EXCEPT ![u] = Append(@, "read")] ELSE upward
    /\ UNCHANGED view
Push(u) ==
    /\ downward[u] # <<>>
    /\ downward' = [downward EXCEPT ![u] = Tail(@)]
    /\ LET event == Head(downward[u]) IN
        \/ event.kind = "receipts" /\ OnReceipts(u, event)
        \/ event.kind = "message" /\ OnNewMessage(u, event)
    /\ UNCHANGED <<clock, members, since, marks, best, posts, handling, inside, left>>

HandlerStep(c) ==
    \/ ComputeRoomReceipts(c) \/ EmitReceipts(c) \/ Mark(c)
    \/ Stamp(c) \/ Commit(c) \/ OnChatMessageCreated(c)
    \/ CheckJoin(c) \/ CarryOut(c) \/ OpenRoom(c)
UserStep(u) ==
    \/ SendMessage(u) \/ AddMember(u) \/ RemoveMember(u)
    \/ GetRoomMeta(u) \/ CloseRoom(u) \/ ReportDelivered(u)
    \/ Receive(u) \/ Push(u)
Next ==
    \/ Tick
    \/ \E c \in handling : HandlerStep(c)
    \/ \E u \in Users : UserStep(u)
Spec == Init /\ [][Next]_vars

-----------------------------------------------------------------------------
(* tickStatus of a committed message: two ticks in colour, two, or one.    *)
TickStatus(post, receipts) ==
    IF post.at <= receipts.read THEN "READ"
    ELSE IF post.at <= receipts.delivered THEN "DELIVERED" ELSE "SENT"

(* A message that a window shows as read was marked read by everybody who  *)
(* has been a member since before it was stamped, however late or out of   *)
(* order the receipts come and whatever a mark went back to, and likewise  *)
(* for delivered (computeRoomReceipts: "DELIVERED/READ only once EVERY     *)
(* active member is past it").                                             *)
TicksAreEarned ==
    \A u \in Users : \A post \in posts : \A v \in members :
        view[u].open /\ since[v] < post.at =>
            LET tick == TickStatus(post, view[u].receipts) IN
            /\ tick = "READ" => best[v].read >= post.at
            /\ tick = "DELIVERED" => best[v].delivered >= post.at
=============================================================================
