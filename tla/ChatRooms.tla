----------------------------- MODULE ChatRooms ------------------------------
(***************************************************************************)
(* Who is in which team-chat conversation, and whose sockets hear it.      *)
(* ChatService keeps the membership rows, AppGateway the rooms a socket    *)
(* has joined, AppEventHandler pushes what happened, and ChatShell leaves  *)
(* a conversation its user was removed from.  A handler is a sequence of   *)
(* awaits; each is a step of its own here, and between two steps the       *)
(* handlers of other requests run.                                         *)
(***************************************************************************)
EXTENDS Naturals, FiniteSets

CONSTANTS
    Users,      \* active staff accounts, one browser each
    Organisers, \* those with manage:chatchannel, who need not be channel ADMIN
    Channels,   \* named channels, standing or to be created
    Roster,     \* admins and members of the standing ones
    Common,     \* the room with key COMMON_ROOM
    Calls,      \* slots for requests and event handlers in progress
    Scenarios   \* how many requests of each kind arrive: see Limited

(* The key of a direct conversation is the unordered pair of its users.    *)
Direct == UNION {{{a, b} : b \in Users \ {a}} : a \in Users}
Convs == {Common} \cup Channels \cup Direct

Limited == {
    "resolves",  \* getRoomForUser
    "channels",  \* createChannel
    "archives",  \* updateChannel with archived
    "additions", \* addMembers
    "removals",  \* removeMember
    "dms",       \* openDm
    "opens",     \* a conversation opened in the browser
    "sends",     \* sendMessage
    "drops"}     \* lost connections

ASSUME ChatAssumption ==
    /\ Users # {}
    /\ Organisers \subseteq Users
    /\ Scenarios \subseteq [Limited -> Nat]
    /\ Common \notin Direct /\ Common \notin Channels
    /\ Channels \cap Direct = {}
    /\ Roster \in [Channels -> [admins: SUBSET Users, members: SUBSET Users]]

VARIABLES
    conv,      \* ChatConversation rows
    member,    \* ChatParticipant rows: absent, or isActive
    admins,    \* users whose row has role ADMIN, active or not
    messages,  \* ChatMessage rows
    online,    \* users with a connected socket
    rooms,     \* chat rooms each user's socket is in
    joining,   \* chat:join events the gateway is handling
    open,      \* rooms the browser retains and joins again on reconnect
    removed,   \* chat:membership:removed events on their way to a browser
    late,      \* joins that were carried out after their user's removal
    owed,      \* messages stored for a connected member who has not had them
    told,      \* conversations each browser has had any live event of
    call,      \* requests and handlers in progress
    budget     \* what is left of the scenario

sockets == <<online, rooms, joining, open, removed, late>>
rows == <<conv, member, admins, messages>>
vars == <<rows, sockets, owed, told, call, budget>>

Message == [conv: Convs, by: Users, n: Nat]
NoMessage == [conv |-> Common, by |-> CHOOSE u \in Users : TRUE, n |-> 0]
Ops == {"idle", "resolve", "create", "update", "add", "remove", "dm", "send", "push"}
Steps == {"find", "create", "ensure", "check", "write", "kick", "archived",
          "load", "members", "announce", "tell"}
Call == [op: Ops, step: Steps, by: Users, conv: Convs, who: SUBSET Users,
         to: {"open", "archived"}, msg: Message \cup {NoMessage}]
Idle == [op |-> "idle", step |-> "find", by |-> NoMessage.by, conv |-> Common,
         who |-> {}, to |-> "open", msg |-> NoMessage]

TypeOK ==
    /\ conv \in [Convs -> {"absent", "open", "archived"}]
    /\ member \in [Convs -> [Users -> {"absent", "active", "inactive"}]]
    /\ admins \in [Convs -> SUBSET Users]
    /\ messages \subseteq Message
    /\ online \subseteq Users
    /\ rooms \in [Users -> SUBSET Convs]
    /\ joining \in [Users -> [Convs -> {"no", "asked", "allowed"}]]
    /\ open \in [Users -> SUBSET Convs]
    /\ removed \subseteq Users \X Convs
    /\ late \subseteq Users \X Convs
    /\ owed \in [Users -> SUBSET Message]
    /\ told \in [Users -> SUBSET Convs]
    /\ call \in [Calls -> Call]
    /\ budget \in [Limited -> Nat]

(* The channels on the roster were created by an earlier process.          *)
Init ==
    /\ conv = [c \in Convs |->
           IF c \in Channels /\ Roster[c].members # {} THEN "open" ELSE "absent"]
    /\ member = [c \in Convs |-> [u \in Users |->
           IF c \in Channels /\ u \in Roster[c].members THEN "active" ELSE "absent"]]
    /\ admins = [c \in Convs |-> IF c \in Channels THEN Roster[c].admins ELSE {}]
    /\ messages = {}
    /\ online = Users
    /\ rooms = [u \in Users |-> {}]
    /\ joining = [u \in Users |-> [c \in Convs |-> "no"]]
    /\ open = [u \in Users |-> {}]
    /\ removed = {}
    /\ late = {}
    /\ owed = [u \in Users |-> {}]
    /\ told = [u \in Users |-> {}]
    /\ call = [k \in Calls |-> Idle]
    /\ budget \in Scenarios

-----------------------------------------------------------------------------
Active(c, u) == member[c][u] = "active"
ActiveIds(c) == {u \in Users : Active(c, u)}
IsAdmin(c, u) == Active(c, u) /\ u \in admins[c]

(* Requests arrive.                                                        *)
Begin(what, k, request) ==
    /\ budget[what] > 0
    /\ budget' = [budget EXCEPT ![what] = @ - 1]
    /\ call[k] = Idle
    /\ call' = [call EXCEPT ![k] = request]
    /\ UNCHANGED <<rows, sockets, owed, told>>

Request(op, step, u, c, who) ==
    [Idle EXCEPT !.op = op, !.step = step, !.by = u, !.conv = c, !.who = who]

ResolveCommon(k, u) == Begin("resolves", k, Request("resolve", "find", u, Common, {u}))
CreateChannel(k, u, c, who) ==
    /\ conv[c] = "absent"
    /\ \A j \in Calls : call[j].op = "create" => call[j].conv # c
    /\ Begin("channels", k, Request("create", "create", u, c, who \ {u}))
UpdateChannel(k, u, c, to) ==
    /\ conv[c] # "absent" /\ c \notin Direct
    /\ to = "archived" => c # Common
    /\ Begin("archives", k, [Request("update", "check", u, c, {}) EXCEPT !.to = to])
MayAddMembers(c) == conv[c] # "absent" /\ c \notin Direct
AddMembers(k, u, c, who) ==
    /\ MayAddMembers(c)
    /\ Begin("additions", k, Request("add", "check", u, c, who))
(* Mutant of MayRemoveMembers: only the common room is protected. *)
NotTheCommonRoom(c) == conv[c] # "absent" /\ c # Common
MayRemoveMembers(c) == conv[c] # "absent" /\ c \notin Direct /\ c # Common
RemoveMember(k, u, c, target) ==
    /\ MayRemoveMembers(c)
    /\ Begin("removals", k, Request("remove", "check", u, c, {target}))
OpenDm(k, u, other) ==
    /\ u # other
    /\ Begin("dms", k, Request("dm", "find", u, {u, other}, {u, other}))
SendMessage(k, u, c) ==
    /\ conv[c] # "absent"
    /\ Begin("sends", k, Request("send", "check", u, c, {}))

-----------------------------------------------------------------------------
(* Steps of a handler.  Next(step) keeps the call, Done frees its slot.    *)
At(k, ops, step) == call[k].op \in ops /\ call[k].step = step
Goto(k, step) == call' = [call EXCEPT ![k].step = step]
Done(k) == call' = [call EXCEPT ![k] = Idle]

(* ensureMembership: upsert on (conversation, user); the role is kept.     *)
Joined(m, c, who) ==
    [m EXCEPT ![c] = [u \in Users |-> IF u \in who THEN "active" ELSE @[u]]]
Ensure(k) ==
    /\ At(k, {"resolve", "add", "dm"}, "ensure")
    /\ \E u \in call[k].who :
        /\ member' = Joined(member, call[k].conv, {u})
        /\ IF call[k].who # {u}
           THEN call' = [call EXCEPT ![k].who = @ \ {u}]
           ELSE IF call[k].op = "add" THEN Goto(k, "announce") ELSE Done(k)
    /\ UNCHANGED <<conv, admins, messages, sockets, owed, told, budget>>

Find(k) ==
    /\ At(k, {"resolve", "dm"}, "find")
    /\ Goto(k, IF conv[call[k].conv] = "absent" THEN "create" ELSE "ensure")
    /\ UNCHANGED <<rows, sockets, owed, told, budget>>

(* The three places that create a conversation: the unique key lets only    *)
(* one of two requests do it, the other finds the row.                     *)
Created(k) ==
    /\ call[k].step = "create"
    /\ conv[call[k].conv] = "absent"
    /\ conv' = [conv EXCEPT ![call[k].conv] = "open"]
    /\ UNCHANGED <<messages, sockets, owed, told, budget>>

CreateCommon(k) ==
    /\ call[k].op = "resolve"
    /\ Created(k)
    /\ Goto(k, "ensure")
    /\ UNCHANGED <<member, admins>>
CreateNamed(k) ==
    /\ call[k].op = "create"
    /\ Created(k)
    /\ member' = Joined(member, call[k].conv, call[k].who \cup {call[k].by})
    /\ admins' = [admins EXCEPT ![call[k].conv] = {call[k].by}]
    /\ Goto(k, "announce")
CreateDirect(k) ==
    /\ call[k].op = "dm"
    /\ Created(k)
    /\ member' = Joined(member, call[k].conv, call[k].who)
    /\ Goto(k, "announce")
    /\ UNCHANGED admins

CommonExists(k) ==
    /\ At(k, {"resolve"}, "create") /\ conv[Common] # "absent"
    /\ Goto(k, "ensure")
    /\ UNCHANGED <<rows, sockets, owed, told, budget>>
DirectExists(k) ==
    /\ At(k, {"dm"}, "create") /\ conv[call[k].conv] # "absent"
    /\ Done(k)
    /\ UNCHANGED <<rows, sockets, owed, told, budget>>

(* assertActiveMember, which refuses by ending the call.                   *)
Permitted(k) ==
    LET u == call[k].by  c == call[k].conv IN
    CASE call[k].op = "send" -> Active(c, u)
      [] call[k].op = "remove" -> call[k].who = {u} \/ u \in Organisers \/ IsAdmin(c, u)
      [] OTHER -> u \in Organisers \/ IsAdmin(c, u)
AfterCheck == [send |-> "archived", remove |-> "write", update |-> "write", add |-> "ensure"]
Check(k) ==
    /\ At(k, {"send", "remove", "update", "add"}, "check")
    /\ IF Permitted(k) THEN Goto(k, AfterCheck[call[k].op]) ELSE Done(k)
    /\ UNCHANGED <<rows, sockets, owed, told, budget>>

WriteArchived(k) ==
    /\ At(k, {"update"}, "write")
    /\ conv' = [conv EXCEPT ![call[k].conv] = call[k].to]
    /\ Goto(k, "announce")
    /\ UNCHANGED <<member, admins, messages, sockets, owed, told, budget>>

WriteRemoved(k) ==
    LET c == call[k].conv IN
    /\ At(k, {"remove"}, "write")
    /\ member' = [member EXCEPT ![c] =
           [u \in Users |-> IF u \in call[k].who /\ @[u] # "absent" THEN "inactive" ELSE @[u]]]
    /\ owed' = [u \in Users |->
           IF u \in call[k].who THEN {m \in owed[u] : m.conv # c} ELSE owed[u]]
    /\ Goto(k, "kick")
    /\ UNCHANGED <<conv, admins, messages, sockets, told, budget>>

(* Mutant of Kick: the browser is told and the sockets stay. *)
TellOnly(k) ==
    /\ At(k, {"remove"}, "kick")
    /\ removed' = removed \cup ((call[k].who \cap online) \X {call[k].conv})
    /\ Goto(k, "announce")
    /\ UNCHANGED <<rows, online, rooms, joining, open, late, owed, told, budget>>

(* onChatMembershipRemoved: the event to the user's room, then socketsLeave.*)
Kick(k) ==
    LET c == call[k].conv  us == call[k].who IN
    /\ At(k, {"remove"}, "kick")
    /\ rooms' = [u \in Users |-> IF u \in us THEN rooms[u] \ {c} ELSE rooms[u]]
    /\ removed' = removed \cup ((us \cap online) \X {c})
    /\ Goto(k, "announce")
    /\ UNCHANGED <<rows, online, joining, open, late, owed, told, budget>>

(* emitConversationUpdated: the members are read, then told.               *)
Announce(k) ==
    /\ call[k].step = "announce"
    /\ call' = [call EXCEPT ![k].step = "tell", ![k].who = ActiveIds(call[k].conv)]
    /\ UNCHANGED <<rows, sockets, owed, told, budget>>

ReadArchived(k) ==
    /\ At(k, {"send"}, "archived")
    /\ IF conv[call[k].conv] = "archived" THEN Done(k) ELSE Goto(k, "write")
    /\ UNCHANGED <<rows, sockets, owed, told, budget>>

(* The transaction commits and chat.message.created is emitted: the slot   *)
(* goes on as onChatMessageCreated, which awaits getMessageById.           *)
StoreMessage(k) ==
    LET msg == [conv |-> call[k].conv, by |-> call[k].by, n |-> Cardinality(messages) + 1] IN
    /\ At(k, {"send"}, "write")
    /\ messages' = messages \cup {msg}
    /\ owed' = [u \in Users |->
           IF u # msg.by /\ Active(msg.conv, u) /\ u \in online THEN owed[u] \cup {msg} ELSE owed[u]]
    /\ call' = [call EXCEPT ![k] = [@ EXCEPT !.op = "push", !.step = "load", !.msg = msg]]
    /\ UNCHANGED <<conv, member, admins, sockets, told, budget>>

Hear(us, msg) == owed' = [u \in Users |-> IF u \in us THEN owed[u] \ {msg} ELSE owed[u]]
Tell(us, c) == told' = [u \in Users |-> IF u \in us THEN told[u] \cup {c} ELSE told[u]]

PushToRoom(k) ==
    LET c == call[k].conv  inRoom == {u \in online : c \in rooms[u]} IN
    /\ At(k, {"push"}, "load")
    /\ Hear(inRoom, call[k].msg)
    /\ Tell(inRoom, c)
    /\ Goto(k, "members")
    /\ UNCHANGED <<rows, sockets, budget>>

(* Mutants of Recipients: everybody but the sender, and only the members   *)
(* who have the conversation open. *)
Everybody(k) == Users \ {call[k].msg.by}
OnlyOpen(k) ==
    {u \in ActiveIds(call[k].conv) \ {call[k].msg.by} : call[k].conv \in rooms[u]}
Recipients(k) == ActiveIds(call[k].conv) \ {call[k].msg.by}
ReadMembers(k) ==
    /\ At(k, {"push"}, "members")
    /\ call' = [call EXCEPT ![k].step = "tell", ![k].who = Recipients(k)]
    /\ UNCHANGED <<rows, sockets, owed, told, budget>>

(* A notification, or chat:conversation:updated, to personal rooms.        *)
TellMembers(k) ==
    LET us == call[k].who \cap online IN
    /\ call[k].step = "tell"
    /\ Tell(us, call[k].conv)
    /\ IF call[k].op = "push" THEN Hear(us, call[k].msg) ELSE UNCHANGED owed
    /\ Done(k)
    /\ UNCHANGED <<rows, sockets, budget>>

-----------------------------------------------------------------------------
(* The browser opens and closes a conversation; the gateway handles join   *)
(* in two steps, leave in one.                                             *)
OpenRoom(u, c) ==
    /\ budget["opens"] > 0
    /\ u \in online /\ c \notin open[u]
    /\ Active(c, u)
    /\ budget' = [budget EXCEPT !["opens"] = @ - 1]
    /\ open' = [open EXCEPT ![u] = @ \cup {c}]
    /\ joining' = [joining EXCEPT ![u][c] = "asked"]
    /\ UNCHANGED <<rows, online, rooms, removed, late, owed, told, call>>

MayJoin(c, u) == Active(c, u)
CheckJoin(u, c) ==
    /\ joining[u][c] = "asked"
    /\ joining' = [joining EXCEPT ![u][c] = IF MayJoin(c, u) THEN "allowed" ELSE "no"]
    /\ UNCHANGED <<rows, online, rooms, open, removed, late, owed, told, call, budget>>

JoinRoom(u, c) ==
    /\ joining[u][c] = "allowed"
    /\ joining' = [joining EXCEPT ![u][c] = "no"]
    /\ rooms' = [rooms EXCEPT ![u] = @ \cup {c}]
    /\ late' = IF Active(c, u) THEN late ELSE late \cup {<<u, c>>}
    /\ UNCHANGED <<rows, online, open, removed, owed, told, call, budget>>

LeaveRoom(u, c) ==
    /\ open' = [open EXCEPT ![u] = @ \ {c}]
    /\ rooms' = [rooms EXCEPT ![u] = @ \ {c}]
CloseRoom(u, c) ==
    /\ u \in online /\ c \in open[u]
    /\ LeaveRoom(u, c)
    /\ UNCHANGED <<rows, online, joining, removed, late, owed, told, call, budget>>

(* ChatShell on chat:membership:removed: the open conversation is left.    *)
(* The leave may overtake a join that still awaits its check.              *)
RouteAway(u, c) ==
    /\ <<u, c>> \in removed
    /\ removed' = removed \ {<<u, c>>}
    /\ LeaveRoom(u, c)
    /\ UNCHANGED <<rows, online, joining, late, owed, told, call, budget>>

(* A lost connection takes its rooms, its joins and its events with it.    *)
Disconnect(u) ==
    /\ budget["drops"] > 0
    /\ u \in online
    /\ budget' = [budget EXCEPT !["drops"] = @ - 1]
    /\ online' = online \ {u}
    /\ rooms' = [rooms EXCEPT ![u] = {}]
    /\ joining' = [joining EXCEPT ![u] = [c \in Convs |-> "no"]]
    /\ removed' = {e \in removed : e[1] # u}
    /\ owed' = [owed EXCEPT ![u] = {}]
    /\ UNCHANGED <<rows, open, late, told, call>>

(* handleSocketReconnect asks for every retained room again.               *)
Reconnect(u) ==
    /\ u \notin online
    /\ online' = online \cup {u}
    /\ joining' = [joining EXCEPT ![u] = [c \in Convs |-> IF c \in open[u] THEN "asked" ELSE "no"]]
    /\ UNCHANGED <<rows, rooms, open, removed, late, owed, told, call, budget>>
-----------------------------------------------------------------------------
Advance(k) ==
    \/ Find(k) \/ Ensure(k) \/ CreateCommon(k) \/ CreateNamed(k) \/ CreateDirect(k)
    \/ CommonExists(k) \/ DirectExists(k)
    \/ Check(k) \/ WriteArchived(k) \/ WriteRemoved(k) \/ Kick(k) \/ Announce(k)
    \/ ReadArchived(k) \/ StoreMessage(k)
    \/ PushToRoom(k) \/ ReadMembers(k) \/ TellMembers(k)

Arrive(k, u) ==
    \/ ResolveCommon(k, u)
    \/ \E c \in Channels, who \in SUBSET Users : CreateChannel(k, u, c, who)
    \/ \E c \in Convs, to \in {"open", "archived"} : UpdateChannel(k, u, c, to)
    \/ \E c \in Convs, who \in SUBSET Users \ {{}} : AddMembers(k, u, c, who)
    \/ \E c \in Convs, target \in Users : RemoveMember(k, u, c, target)
    \/ \E other \in Users : OpenDm(k, u, other)
    \/ \E c \in Convs : SendMessage(k, u, c)

Gateway(u, c) == CheckJoin(u, c) \/ JoinRoom(u, c) \/ RouteAway(u, c)

Next ==
    \/ \E k \in Calls : Advance(k)
    \/ \E k \in Calls, u \in Users : Arrive(k, u)
    \/ \E u \in Users, c \in Convs : Gateway(u, c) \/ OpenRoom(u, c) \/ CloseRoom(u, c)
    \/ \E u \in Users : Disconnect(u) \/ Reconnect(u)

(* The event loop gets to every started handler and every socket event;    *)
(* users and the network owe nothing.                                      *)
Fairness ==
    /\ \A k \in Calls : WF_vars(Advance(k))
    /\ \A u \in Users : WF_vars(\E c \in Convs : Gateway(u, c))

Spec == Init /\ [][Next]_vars /\ Fairness

-----------------------------------------------------------------------------
(* A direct conversation is shared by exactly its two users, whoever       *)
(* opened it first or at the same time, and nobody leaves it or is added:  *)
(* openDm, addMembers and removeMember.                                    *)
DirectRoomsAreShared ==
    \A pair \in Direct :
        conv[pair] # "absent" => ActiveIds(pair) = pair

(* Who never was in a conversation has had no live event of it, nor has a  *)
(* socket in its room ("non-members must not even learn the channel        *)
(* exists", onChatMessageCreated).                                         *)
OutsidersHearNothing ==
    \A u \in Users, c \in Convs :
        member[c][u] = "absent" => c \notin told[u] \cup rooms[u]

BeingKicked(u, c) ==
    \E k \in Calls : At(k, {"remove"}, "kick") /\ call[k].conv = c /\ u \in call[k].who

(* onChatMembershipRemoved: after socketsLeave "no live event from that    *)
(* room can reach them again".                                             *)
KickIsFinal ==
    \A u \in Users : \A c \in rooms[u] : Active(c, u) \/ BeingKicked(u, c)

(* What the order of removeMember does guarantee, the row first and the    *)
(* kick after it: a removed user's socket is in the room only when a join  *)
(* that was already past its check is carried out after the removal.       *)
RoomFollowsMembership ==
    \A u \in Users : \A c \in rooms[u] :
        Active(c, u) \/ BeingKicked(u, c) \/ <<u, c>> \in late

(* A message reaches everyone else who is a member and connected, unless   *)
(* they are removed or lose the connection first, and whether or not they  *)
(* have the conversation open (onChatMessageCreated).                      *)
MembersHear == \A u \in Users : owed[u] # {} ~> owed[u] = {}
=============================================================================
