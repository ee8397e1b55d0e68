-------------------------- MODULE ChatRoomsProofs --------------------------
(***************************************************************************)
(* Who may be in a team-chat room and hear of it, for any number of users, *)
(* channels and requests in progress.  A membership row, once there, is    *)
(* never deleted, and the handlers carry what they read of it from one     *)
(* await to the next: the invariant says what of that is still true.       *)
(***************************************************************************)
EXTENDS ChatRooms, FiniteSetTheorems, TLAPS

Known(c, u) == member[c][u] # "absent"

(* What a request in progress has established: its conversation is of the  *)
(* kind its operation is for, a direct one exists before its users are     *)
(* ensured, and whom it tells are or were members.                         *)
RequestOK(r) ==
    /\ r.op = "resolve" => r.conv = Common
    /\ r.op \in {"create", "update", "add", "remove"} => r.conv \notin Direct
    /\ r.op = "dm" => r.conv \in Direct
    /\ (r.op = "dm" /\ r.step = "create") => r.who = r.conv
    /\ (r.op = "dm" /\ r.step = "find") => r.who = r.conv
    /\ (r.op = "dm" /\ r.step = "ensure") => r.who \subseteq r.conv /\ conv[r.conv] # "absent"
    /\ r.step = "tell" => \A u \in r.who : Known(r.conv, u)
RequestsOK == \A k \in Calls : RequestOK(call[k])

DirectMembers ==
    \A pair \in Direct : ActiveIds(pair) = IF conv[pair] = "absent" THEN {} ELSE pair

JoinsAreKnown == \A u \in Users, c \in Convs : joining[u][c] = "allowed" => Known(c, u)

IInv ==
    /\ TypeOK /\ IsFiniteSet(messages)
    /\ RequestsOK
    /\ DirectMembers
    /\ OutsidersHearNothing /\ JoinsAreKnown
    /\ RoomFollowsMembership

AtKick(r) == r.op = "remove" /\ r.step = "kick"

-----------------------------------------------------------------------------
(* Records and sets of the model.                                          *)

LEMMA ConvTypes ==
    /\ Common \in Convs /\ Channels \subseteq Convs /\ Direct \subseteq Convs
    /\ Common \notin Direct /\ Channels \cap Direct = {}
    /\ \A pair \in Direct : pair \subseteq Users
    /\ \A u, v \in Users : u # v => {u, v} \in Direct
<1>1. \A pair \in Direct : pair \subseteq Users
  BY DEF Direct
<1>2. ASSUME NEW u \in Users, NEW v \in Users, u # v PROVE {u, v} \in Direct
  BY <1>2 DEF Direct
<1> QED BY <1>1, <1>2, ChatAssumption DEF Convs

LEMMA IdleType ==
    /\ Idle \in Call /\ Idle.op = "idle" /\ Idle.step = "find"
    /\ NoMessage \in Message
<1>1. NoMessage.by \in Users /\ NoMessage \in Message
  BY ConvTypes, ChatAssumption DEF NoMessage, Message
<1> QED BY <1>1, ConvTypes DEF Idle, Call, Ops, Steps

LEMMA IdleOK == RequestOK(Idle) /\ ~AtKick(Idle)
BY IdleType DEF RequestOK, AtKick

LEMMA GotoType ==
    ASSUME NEW r \in Call, NEW s \in Steps
    PROVE  LET q == [r EXCEPT !.step = s] IN
           /\ q \in Call /\ q.step = s
           /\ q.op = r.op /\ q.conv = r.conv /\ q.who = r.who
BY DEF Call

LEMMA WhoType ==
    ASSUME NEW r \in Call, NEW who \in SUBSET Users
    PROVE  LET q == [r EXCEPT !.who = who] IN
           /\ q \in Call /\ q.who = who
           /\ q.op = r.op /\ q.conv = r.conv /\ q.step = r.step
BY DEF Call

LEMMA CallFields ==
    ASSUME NEW r \in Call
    PROVE  /\ r.op \in Ops /\ r.step \in Steps /\ r.by \in Users /\ r.conv \in Convs
           /\ r.who \subseteq Users /\ r.to \in {"open", "archived"}
           /\ r.msg \in Message
BY IdleType DEF Call

LEMMA RequestType ==
    ASSUME NEW op \in Ops, NEW step \in Steps, NEW u \in Users, NEW c \in Convs,
           NEW who \in SUBSET Users
    PROVE  LET q == Request(op, step, u, c, who) IN
           /\ q \in Call /\ q.op = op /\ q.step = step
           /\ q.conv = c /\ q.who = who
BY IdleType DEF Request, Idle, Call

LEMMA JoinedType ==
    ASSUME NEW m \in [Convs -> [Users -> {"absent", "active", "inactive"}]],
           NEW c \in Convs, NEW who
    PROVE  /\ Joined(m, c, who) \in [Convs -> [Users -> {"absent", "active", "inactive"}]]
           /\ \A d \in Convs : d # c => Joined(m, c, who)[d] = m[d]
           /\ \A u \in Users : Joined(m, c, who)[c][u] = IF u \in who THEN "active" ELSE m[c][u]
BY DEF Joined

-----------------------------------------------------------------------------
(* What a step of a handler does to the parts of the invariant.            *)

(* No conversation and no membership row disappears.                       *)
Grows ==
    /\ \A c \in Convs : conv[c] # "absent" => conv'[c] # "absent"
    /\ \A c \in Convs, u \in Users : Known(c, u) => member'[c][u] # "absent"

LEMMA CallMoves ==
    ASSUME TypeOK, RequestsOK, Grows, NEW k \in Calls, NEW r \in Call,
           call' = [call EXCEPT ![k] = r], RequestOK(r)'
    PROVE  call' \in [Calls -> Call] /\ RequestsOK'
<1>1. call'[k] = r /\ \A j \in Calls \ {k} : call'[j] = call[j]
  BY DEF TypeOK
<1>2. \A j \in Calls : call[j] \in Call
  BY DEF TypeOK
<1>3. ASSUME NEW j \in Calls \ {k} PROVE RequestOK(call[j])'
  <2>1. RequestOK(call[j]) /\ call'[j] = call[j]
    BY <1>1 DEF RequestsOK
  <2>2. call[j].conv \in Convs /\ call[j].who \subseteq Users
    BY <1>2, CallFields
  <2> QED BY <2>1, <2>2 DEF RequestOK, Grows, Known
<1> QED BY <1>1, <1>3 DEF TypeOK, RequestsOK

LEMMA KickStays ==
    ASSUME TypeOK, NEW k \in Calls, NEW r, call' = [call EXCEPT ![k] = r], ~AtKick(call[k]),
           NEW u, NEW c, BeingKicked(u, c)
    PROVE  BeingKicked(u, c)'
<1>1. PICK j \in Calls : At(j, {"remove"}, "kick") /\ call[j].conv = c /\ u \in call[j].who
  BY DEF BeingKicked
<1>2. j # k
  BY <1>1 DEF At, AtKick
<1>3. call'[j] = call[j]
  BY <1>2 DEF TypeOK
<1> QED BY <1>1, <1>3 DEF BeingKicked, At

LEMMA KicksUnchanged ==
    ASSUME UNCHANGED call, NEW u, NEW c, BeingKicked(u, c)
    PROVE  BeingKicked(u, c)'
BY DEF BeingKicked, At

LEMMA RoomsFollow ==
    ASSUME RoomFollowsMembership, TypeOK,
           \A u \in Users, c \in Convs : Active(c, u) => Active(c, u)',
           \A u \in Users, c \in Convs : BeingKicked(u, c) => BeingKicked(u, c)',
           late \subseteq late', \A u \in Users : rooms'[u] \subseteq rooms[u]
    PROVE  RoomFollowsMembership'
<1> SUFFICES ASSUME NEW u \in Users, NEW c \in rooms'[u]
             PROVE  Active(c, u)' \/ BeingKicked(u, c)' \/ <<u, c>> \in late'
  BY DEF RoomFollowsMembership
<1>1. c \in rooms[u] /\ c \in Convs
  BY DEF TypeOK
<1>2. Active(c, u) \/ BeingKicked(u, c) \/ <<u, c>> \in late
  BY <1>1 DEF RoomFollowsMembership
<1> QED BY <1>1, <1>2

(* A step that moves one request on and changes no row and no socket.      *)
LEMMA CallAlone ==
    ASSUME IInv, NEW k \in Calls, NEW r \in Call, call' = [call EXCEPT ![k] = r],
           RequestOK(r), ~AtKick(call[k]), UNCHANGED <<rows, sockets, owed, told>>,
           budget' \in [Limited -> Nat]
    PROVE  IInv'
<1> USE DEF IInv
<1>1. UNCHANGED <<conv, member, admins, messages, online, rooms, joining, open, removed, late,
                  owed, told>>
  BY DEF rows, sockets
<1>2. Grows /\ RequestOK(r)'
  BY <1>1 DEF Grows, Known, RequestOK
<1>3. call' \in [Calls -> Call] /\ RequestsOK'
  BY <1>2, CallMoves
<1>4. TypeOK'
  BY <1>1, <1>3 DEF TypeOK
<1>5. DirectMembers' /\ OutsidersHearNothing' /\ JoinsAreKnown'
  BY <1>1 DEF DirectMembers, ActiveIds, Active, OutsidersHearNothing, JoinsAreKnown, Known
<1>6. \A u \in Users, c \in Convs : BeingKicked(u, c) => BeingKicked(u, c)'
  BY KickStays
<1>7. RoomFollowsMembership'
  BY <1>1, <1>6, RoomsFollow DEF Active
<1> QED BY <1>1, <1>3, <1>4, <1>5, <1>7

-----------------------------------------------------------------------------
LEMMA InitOK == Init => IInv
<1> SUFFICES ASSUME Init PROVE IInv
  OBVIOUS
<1>1. TypeOK
  BY ConvTypes, IdleType, ChatAssumption DEF Init, TypeOK, Message
<1>2. IsFiniteSet(messages)
  BY FS_EmptySet DEF Init
<1>3. RequestsOK
  BY IdleOK DEF Init, RequestsOK
<1>4. DirectMembers
  BY ConvTypes DEF Init, DirectMembers, ActiveIds, Active
<1>5. OutsidersHearNothing /\ JoinsAreKnown /\ RoomFollowsMembership
  BY DEF Init, OutsidersHearNothing, JoinsAreKnown, RoomFollowsMembership
<1> QED BY <1>1, <1>2, <1>3, <1>4, <1>5 DEF IInv

LEMMA BeginOK ==
    ASSUME IInv, NEW k \in Calls, NEW r \in Call, NEW what \in Limited,
           RequestOK(r), Begin(what, k, r)
    PROVE  IInv'
<1>1. call' = [call EXCEPT ![k] = r] /\ ~AtKick(call[k])
  BY IdleOK DEF Begin
<1>2. budget' \in [Limited -> Nat]
  BY DEF Begin, IInv, TypeOK
<1> QED BY <1>1, <1>2, CallAlone DEF Begin

LEMMA ArriveOK ==
    ASSUME IInv, NEW k \in Calls, NEW u \in Users, Arrive(k, u) PROVE IInv'
<1> USE ConvTypes DEF Limited, Ops, Steps
<1>1. CASE ResolveCommon(k, u)
  <2> DEFINE r == Request("resolve", "find", u, Common, {u})
  <2>1. r \in Call /\ RequestOK(r)
    BY RequestType DEF RequestOK
  <2> QED BY <1>1, <2>1, BeginOK DEF ResolveCommon
<1>2. ASSUME NEW c \in Channels, NEW who \in SUBSET Users, CreateChannel(k, u, c, who)
      PROVE  IInv'
  <2> DEFINE r == Request("create", "create", u, c, who \ {u})
  <2>1. r \in Call /\ RequestOK(r)
    BY RequestType DEF RequestOK
  <2> QED BY <1>2, <2>1, BeginOK DEF CreateChannel
<1>3. ASSUME NEW c \in Convs, NEW to \in {"open", "archived"}, UpdateChannel(k, u, c, to)
      PROVE  IInv'
  <2> DEFINE q == Request("update", "check", u, c, {})
             r == [q EXCEPT !.to = to]
  <2>1. q \in Call /\ q.op = "update" /\ q.step = "check" /\ q.conv = c
    BY RequestType
  <2> HIDE DEF q
  <2>2. r \in Call /\ r.op = "update" /\ r.step = "check" /\ r.conv = c
    BY <2>1 DEF Call
  <2>3. RequestOK(r)
    BY <1>3, <2>2 DEF RequestOK, UpdateChannel
  <2> QED BY <1>3, <2>2, <2>3, BeginOK DEF UpdateChannel, q
<1>4. ASSUME NEW c \in Convs, NEW who \in SUBSET Users, AddMembers(k, u, c, who)
      PROVE  IInv'
  <2> DEFINE r == Request("add", "check", u, c, who)
  <2>1. r \in Call /\ RequestOK(r)
    BY <1>4, RequestType DEF RequestOK, AddMembers, MayAddMembers
  <2> QED BY <1>4, <2>1, BeginOK DEF AddMembers
<1>5. ASSUME NEW c \in Convs, NEW target \in Users, RemoveMember(k, u, c, target)
      PROVE  IInv'
  <2> DEFINE r == Request("remove", "check", u, c, {target})
  <2>1. r \in Call /\ RequestOK(r)
    BY <1>5, RequestType DEF RequestOK, RemoveMember, MayRemoveMembers
  <2> QED BY <1>5, <2>1, BeginOK DEF RemoveMember
<1>6. ASSUME NEW other \in Users, OpenDm(k, u, other) PROVE IInv'
  <2> DEFINE r == Request("dm", "find", u, {u, other}, {u, other})
  <2>1. {u, other} \in Direct
    BY <1>6 DEF OpenDm
  <2>2. r \in Call /\ RequestOK(r)
    BY <2>1, RequestType DEF RequestOK
  <2> QED BY <1>6, <2>2, BeginOK DEF OpenDm
<1>7. ASSUME NEW c \in Convs, SendMessage(k, u, c) PROVE IInv'
  <2> DEFINE r == Request("send", "check", u, c, {})
  <2>1. r \in Call /\ RequestOK(r)
    BY RequestType DEF RequestOK
  <2> QED BY <1>7, <2>1, BeginOK DEF SendMessage
<1> QED BY <1>1, <1>2, <1>3, <1>4, <1>5, <1>6, <1>7 DEF Arrive

-----------------------------------------------------------------------------
(* Steps that only move a request on.                                      *)

LEMMA HeldCall ==
    ASSUME IInv, NEW k \in Calls
    PROVE  call[k] \in Call /\ RequestOK(call[k])
BY DEF IInv, TypeOK, RequestsOK

LEMMA GotoOK ==
    ASSUME IInv, NEW k \in Calls, NEW s \in Steps, Goto(k, s), ~AtKick(call[k]),
           RequestOK([call[k] EXCEPT !.step = s]),
           UNCHANGED <<rows, sockets, owed, told, budget>>
    PROVE  IInv'
<1>1. budget' \in [Limited -> Nat]
  BY DEF IInv, TypeOK
<1>2. [call[k] EXCEPT !.step = s] \in Call
  BY HeldCall, GotoType
<1>3. call' = [call EXCEPT ![k] = [call[k] EXCEPT !.step = s]]
  BY DEF Goto, IInv, TypeOK
<1> QED BY <1>1, <1>2, <1>3, CallAlone

LEMMA DoneOK ==
    ASSUME IInv, NEW k \in Calls, Done(k), ~AtKick(call[k]),
           UNCHANGED <<rows, sockets, owed, told, budget>>
    PROVE  IInv'
<1>1. budget' \in [Limited -> Nat]
  BY DEF IInv, TypeOK
<1> QED BY <1>1, IdleType, IdleOK, CallAlone DEF Done

LEMMA FindOK == ASSUME IInv, NEW k \in Calls, Find(k) PROVE IInv'
<1>1. call[k].op \in {"resolve", "dm"} /\ call[k].step = "find" /\ ~AtKick(call[k])
  BY DEF Find, At, AtKick
<1>2. CASE conv[call[k].conv] = "absent"
  <2>1. RequestOK([call[k] EXCEPT !.step = "create"])
    BY <1>1, HeldCall, GotoType DEF RequestOK, Steps
  <2> QED BY <1>1, <1>2, <2>1, GotoOK DEF Find, Steps
<1>3. CASE conv[call[k].conv] # "absent"
  <2>1. RequestOK([call[k] EXCEPT !.step = "ensure"])
    BY <1>1, <1>3, HeldCall, GotoType DEF RequestOK, Steps
  <2> QED BY <1>1, <1>3, <2>1, GotoOK DEF Find, Steps
<1> QED BY <1>2, <1>3

LEMMA ExistsOK ==
    ASSUME IInv, NEW k \in Calls, CommonExists(k) \/ DirectExists(k) PROVE IInv'
<1>1. CASE CommonExists(k)
  <2>1. RequestOK([call[k] EXCEPT !.step = "ensure"])
    BY <1>1, HeldCall, GotoType DEF RequestOK, Steps, CommonExists, At
  <2> QED BY <1>1, <2>1, GotoOK DEF CommonExists, Steps, At, AtKick
<1>2. CASE DirectExists(k)
  BY <1>2, DoneOK DEF DirectExists, At, AtKick
<1> QED BY <1>1, <1>2

LEMMA CheckOK == ASSUME IInv, NEW k \in Calls, Check(k) PROVE IInv'
<1>1. call[k].op \in {"send", "remove", "update", "add"} /\ ~AtKick(call[k])
  BY DEF Check, At, AtKick
<1>2. CASE Done(k)
  BY <1>1, <1>2, DoneOK DEF Check
<1>3. CASE Goto(k, AfterCheck[call[k].op])
  <2> DEFINE s == AfterCheck[call[k].op]
  <2>1. s \in {"archived", "write", "ensure"} /\ s \in Steps
    BY <1>1 DEF AfterCheck, Steps
  <2> HIDE DEF s
  <2>2. RequestOK([call[k] EXCEPT !.step = s])
    BY <1>1, <2>1, HeldCall, GotoType DEF RequestOK
  <2> QED BY <1>1, <1>3, <2>1, <2>2, GotoOK DEF Check, s
<1> QED BY <1>2, <1>3 DEF Check

LEMMA ReadArchivedOK == ASSUME IInv, NEW k \in Calls, ReadArchived(k) PROVE IInv'
<1>1. call[k].op = "send" /\ ~AtKick(call[k])
  BY DEF ReadArchived, At, AtKick
<1>2. CASE Done(k)
  BY <1>1, <1>2, DoneOK DEF ReadArchived
<1>3. CASE Goto(k, "write")
  <2>1. RequestOK([call[k] EXCEPT !.step = "write"])
    BY <1>1, HeldCall, GotoType DEF RequestOK, Steps
  <2> QED BY <1>1, <1>3, <2>1, GotoOK DEF ReadArchived, Steps
<1> QED BY <1>2, <1>3 DEF ReadArchived

LEMMA TellRequest ==
    ASSUME IInv, NEW k \in Calls, NEW who \in SUBSET ActiveIds(call[k].conv), ~AtKick(call[k]),
           call' = [call EXCEPT ![k].step = "tell", ![k].who = who],
           UNCHANGED <<rows, sockets, owed, told, budget>>
    PROVE  IInv'
<1> DEFINE q == [call[k] EXCEPT !.step = "tell"]
           r == [q EXCEPT !.who = who]
<1>1. who \subseteq Users /\ \A u \in who : Known(call[k].conv, u)
  BY DEF ActiveIds, Active, Known
<1>2. q \in Call /\ q.step = "tell" /\ q.op = call[k].op /\ q.conv = call[k].conv
  BY HeldCall, GotoType DEF Steps
<1>3. call' = [call EXCEPT ![k] = r]
  BY DEF IInv, TypeOK
<1> HIDE DEF q
<1>4. /\ r \in Call /\ r.step = "tell" /\ r.who = who
      /\ r.op = call[k].op /\ r.conv = call[k].conv
  BY <1>1, <1>2, WhoType
<1> HIDE DEF r
<1>5. RequestOK(r)
  BY <1>1, <1>4, HeldCall DEF RequestOK
<1>6. budget' \in [Limited -> Nat]
  BY DEF IInv, TypeOK
<1> QED BY <1>3, <1>4, <1>5, <1>6, CallAlone

LEMMA TellersOK == ASSUME IInv, NEW k \in Calls, Announce(k) \/ ReadMembers(k) PROVE IInv'
<1>1. Recipients(k) \subseteq ActiveIds(call[k].conv)
  BY DEF Recipients
<1> QED BY <1>1, TellRequest DEF Announce, ReadMembers, At, AtKick

-----------------------------------------------------------------------------
(* Steps that write membership rows.  Direct rooms apart, a row may become *)
(* active at any time, and inactive only by removeMember.                  *)

LEMMA Joins ==
    ASSUME IInv, NEW k \in Calls, NEW r \in Call, NEW who \in SUBSET Users,
           member' = Joined(member, call[k].conv, who),
           call' = [call EXCEPT ![k] = r], ~AtKick(call[k]), RequestOK(r)',
           conv' \in [Convs -> {"absent", "open", "archived"}],
           admins' \in [Convs -> SUBSET Users],
           \A c \in Convs : conv[c] # "absent" => conv'[c] # "absent",
           DirectMembers', UNCHANGED <<messages, sockets, owed, told, budget>>
    PROVE  IInv'
<1> USE DEF IInv
<1> DEFINE c == call[k].conv
<1>1. c \in Convs
  BY HeldCall, CallFields
<1>2. /\ member' \in [Convs -> [Users -> {"absent", "active", "inactive"}]]
      /\ \A d \in Convs : d # c => member'[d] = member[d]
      /\ \A u \in Users : member'[c][u] = IF u \in who THEN "active" ELSE member[c][u]
  <2>1. member \in [Convs -> [Users -> {"absent", "active", "inactive"}]]
    BY DEF TypeOK
  <2>2. member' = Joined(member, c, who)
    OBVIOUS
  <2> HIDE DEF c
  <2> QED BY <1>1, <2>1, <2>2, JoinedType
<1> HIDE DEF c
<1>3. \A d \in Convs, u \in Users :
          (Known(d, u) => member'[d][u] # "absent") /\ (Active(d, u) => member'[d][u] = "active")
  BY <1>2 DEF Known, Active
<1>4. Grows
  BY <1>3 DEF Grows
<1>5. call' \in [Calls -> Call] /\ RequestsOK'
  BY <1>4, CallMoves
<1>6. UNCHANGED <<messages, online, rooms, joining, open, removed, late, owed, told, budget>>
  BY DEF sockets
<1>7. TypeOK'
  BY <1>2, <1>5, <1>6 DEF TypeOK
<1>8. OutsidersHearNothing'
  BY <1>3, <1>6 DEF OutsidersHearNothing, Known
<1>9. JoinsAreKnown'
  BY <1>3, <1>6 DEF JoinsAreKnown, Known
<1>10. \A u \in Users, d \in Convs : BeingKicked(u, d) => BeingKicked(u, d)'
  BY KickStays
<1>11. RoomFollowsMembership'
  BY <1>3, <1>6, <1>10, RoomsFollow DEF Active
<1> QED BY <1>5, <1>6, <1>7, <1>8, <1>9, <1>11

(* DirectMembers holds of the conversations a step leaves alone.           *)
LEMMA OtherPairs ==
    ASSUME IInv, NEW c \in Convs,
           \A d \in Convs : d # c => conv'[d] = conv[d] /\ member'[d] = member[d],
           c \in Direct => ActiveIds(c)' = c /\ conv'[c] # "absent"
    PROVE  DirectMembers'
<1> SUFFICES ASSUME NEW pair \in Direct
             PROVE  ActiveIds(pair)' = IF conv'[pair] = "absent" THEN {} ELSE pair
  BY DEF DirectMembers
<1>1. CASE pair = c
  BY <1>1
<1>2. CASE pair # c
  BY <1>2, ConvTypes DEF IInv, DirectMembers, ActiveIds, Active
<1> QED BY <1>1, <1>2

LEMMA EnsureOK == ASSUME IInv, NEW k \in Calls, Ensure(k) PROVE IInv'
<1>0. PICK c : c = call[k].conv
  OBVIOUS
<1>1. PICK u \in call[k].who :
        /\ member' = Joined(member, c, {u})
        /\ IF call[k].who # {u}
           THEN call' = [call EXCEPT ![k].who = @ \ {u}]
           ELSE IF call[k].op = "add" THEN Goto(k, "announce") ELSE Done(k)
  BY <1>0 DEF Ensure
<1>2. /\ call[k].op \in {"resolve", "add", "dm"} /\ call[k].step = "ensure" /\ ~AtKick(call[k])
      /\ UNCHANGED <<conv, admins, messages, sockets, owed, told, budget>>
  BY DEF Ensure, At, AtKick
<1>3. call[k] \in Call /\ RequestOK(call[k]) /\ c \in Convs /\ u \in Users
  BY <1>0, HeldCall, CallFields
<1>4. /\ \A d \in Convs : d # c => member'[d] = member[d]
      /\ \A v \in Users : member'[c][v] = IF v \in {u} THEN "active" ELSE member[c][v]
  BY <1>1, <1>3, JoinedType DEF IInv, TypeOK
<1>5. DirectMembers'
  <2>1. ASSUME c \in Direct PROVE ActiveIds(c)' = c /\ conv'[c] # "absent"
    <3>1. call[k].op = "dm"
      BY <1>0, <1>2, <1>3, <2>1, ConvTypes DEF RequestOK
    <3>2. u \in c /\ conv[c] # "absent"
      BY <1>0, <1>2, <1>3, <3>1 DEF RequestOK
    <3>3. ActiveIds(c) = c
      BY <2>1, <3>2 DEF IInv, DirectMembers
    <3>4. ActiveIds(c)' = {v \in Users : member'[c][v] = "active"}
      BY DEF ActiveIds, Active
    <3> QED BY <1>2, <1>3, <1>4, <3>2, <3>3, <3>4 DEF ActiveIds, Active
  <2> QED BY <1>2, <1>3, <1>4, <2>1, OtherPairs
<1>6. /\ conv' \in [Convs -> {"absent", "open", "archived"}]
      /\ admins' \in [Convs -> SUBSET Users] /\ conv' = conv
  BY <1>2 DEF IInv, TypeOK
<1>7. \E r \in Call : call' = [call EXCEPT ![k] = r] /\ RequestOK(r)'
  <2>1. CASE call[k].who # {u}
    <3>0. PICK r : r = [call[k] EXCEPT !.who = @ \ {u}]
      OBVIOUS
    <3>1. call' = [call EXCEPT ![k] = r]
      BY <1>1, <2>1, <3>0 DEF IInv, TypeOK
    <3>2. /\ r \in Call /\ r.who = call[k].who \ {u} /\ r.op = call[k].op
          /\ r.conv = call[k].conv /\ r.step = call[k].step
      BY <1>3, <3>0, WhoType, CallFields
    <3>3. RequestOK(r)'
      BY <1>2, <1>3, <1>6, <3>2 DEF RequestOK
    <3> QED BY <3>1, <3>2, <3>3
  <2>2. CASE call[k].who = {u} /\ call[k].op = "add"
    <3>0. PICK r : r = [call[k] EXCEPT !.step = "announce"]
      OBVIOUS
    <3>1. call' = [call EXCEPT ![k] = r]
      BY <1>1, <2>2, <3>0 DEF IInv, TypeOK, Goto
    <3>2. r \in Call /\ r.op = call[k].op /\ r.conv = call[k].conv /\ r.step = "announce"
      BY <1>3, <3>0, GotoType DEF Steps
    <3>3. RequestOK(r)'
      BY <1>3, <2>2, <3>2 DEF RequestOK
    <3> QED BY <3>1, <3>2, <3>3
  <2>3. CASE call[k].who = {u} /\ call[k].op # "add"
    <3>1. RequestOK(Idle)'
      BY IdleType DEF RequestOK
    <3> QED BY <1>1, <2>3, <3>1, IdleType DEF Done
  <2> QED BY <2>1, <2>2, <2>3
<1>8. {u} \in SUBSET Users /\ member' = Joined(member, call[k].conv, {u})
  BY <1>0, <1>1, <1>3
<1>9. \A d \in Convs : conv[d] # "absent" => conv'[d] # "absent"
  BY <1>6
<1> QED BY <1>2, <1>5, <1>6, <1>7, <1>8, <1>9, Joins

LEMMA CreatedType ==
    ASSUME IInv, NEW k \in Calls, Created(k)
    PROVE  LET c == call[k].conv IN
           /\ c \in Convs /\ conv[c] = "absent" /\ conv'[c] = "open"
           /\ \A d \in Convs : d # c => conv'[d] = conv[d]
           /\ conv' \in [Convs -> {"absent", "open", "archived"}]
           /\ ~AtKick(call[k]) /\ call[k].step = "create"
BY HeldCall, CallFields DEF Created, IInv, TypeOK, AtKick

LEMMA CreateNamedOK == ASSUME IInv, NEW k \in Calls, CreateNamed(k) PROVE IInv'
<1> DEFINE who == call[k].who \cup {call[k].by}
<1>0. PICK c, r : c = call[k].conv /\ r = [call[k] EXCEPT !.step = "announce"]
  OBVIOUS
<1>1. call[k] \in Call /\ RequestOK(call[k]) /\ call[k].by \in Users /\ who \subseteq Users
  BY <1>0, HeldCall, CallFields
<1>2. c \notin Direct
  BY <1>0, <1>1 DEF RequestOK, CreateNamed
<1>3. /\ c \in Convs /\ conv'[c] = "open" /\ ~AtKick(call[k])
      /\ \A d \in Convs : d # c => conv'[d] = conv[d]
      /\ conv' \in [Convs -> {"absent", "open", "archived"}]
  BY <1>0, CreatedType DEF CreateNamed
<1>4. member' = Joined(member, c, who) /\ \A d \in Convs : d # c => member'[d] = member[d]
  <2>1. member \in [Convs -> [Users -> {"absent", "active", "inactive"}]]
    BY DEF IInv, TypeOK
  <2>2. member' = Joined(member, c, who)
    BY <1>0 DEF CreateNamed
  <2> HIDE DEF who
  <2>3. \A d \in Convs : d # c => Joined(member, c, who)[d] = member[d]
    BY <1>3, <2>1, JoinedType
  <2> QED BY <2>2, <2>3
<1>5. DirectMembers'
  BY <1>0, <1>2, <1>3, <1>4, OtherPairs
<1>6. admins' \in [Convs -> SUBSET Users]
  BY <1>0, <1>1 DEF CreateNamed, IInv, TypeOK
<1>7. call' = [call EXCEPT ![k] = r]
  BY <1>0 DEF CreateNamed, Goto, IInv, TypeOK
<1>8. r \in Call /\ r.op = call[k].op /\ r.conv = c /\ r.step = "announce"
  BY <1>0, <1>1, GotoType DEF Steps
<1> HIDE DEF who
<1>9. RequestOK(r)'
  BY <1>0, <1>2, <1>8 DEF RequestOK, CreateNamed
<1> QED BY <1>0, <1>1, <1>3, <1>4, <1>5, <1>6, <1>7, <1>8, <1>9, Joins DEF CreateNamed, Created

LEMMA CreateDirectOK == ASSUME IInv, NEW k \in Calls, CreateDirect(k) PROVE IInv'
<1>0. PICK c, r : c = call[k].conv /\ r = [call[k] EXCEPT !.step = "announce"]
  OBVIOUS
<1>1. call[k] \in Call /\ RequestOK(call[k]) /\ call[k].who \subseteq Users
  BY <1>0, HeldCall, CallFields
<1>2. /\ c \in Convs /\ conv[c] = "absent" /\ conv'[c] = "open" /\ ~AtKick(call[k])
      /\ \A d \in Convs : d # c => conv'[d] = conv[d]
      /\ conv' \in [Convs -> {"absent", "open", "archived"}] /\ call[k].step = "create"
  BY <1>0, CreatedType DEF CreateDirect
<1>3. c \in Direct /\ call[k].who = c /\ call[k].op = "dm"
  BY <1>0, <1>1, <1>2 DEF RequestOK, CreateDirect
<1>4. /\ member' = Joined(member, c, call[k].who)
      /\ \A d \in Convs : d # c => member'[d] = member[d]
      /\ \A v \in Users : member'[c][v] = IF v \in call[k].who THEN "active" ELSE member[c][v]
  <2>1. member \in [Convs -> [Users -> {"absent", "active", "inactive"}]]
    BY DEF IInv, TypeOK
  <2>2. member' = Joined(member, c, call[k].who)
    BY <1>0 DEF CreateDirect
  <2> QED BY <1>2, <2>1, <2>2, JoinedType
<1>5. DirectMembers'
  <2>1. \A v \in Users : ~Active(c, v)
    BY <1>2, <1>3 DEF IInv, DirectMembers, ActiveIds
  <2>2. ActiveIds(c)' = {v \in Users : member'[c][v] = "active"}
    BY DEF ActiveIds, Active
  <2>3. ActiveIds(c)' = c
    BY <1>1, <1>3, <1>4, <2>1, <2>2 DEF Active
  <2> QED BY <1>2, <1>4, <2>3, OtherPairs
<1>6. admins' \in [Convs -> SUBSET Users]
  BY <1>0 DEF CreateDirect, IInv, TypeOK
<1>7. call' = [call EXCEPT ![k] = r]
  BY <1>0 DEF CreateDirect, Goto, IInv, TypeOK
<1>8. r \in Call /\ r.op = "dm" /\ r.conv = c /\ r.step = "announce"
  BY <1>0, <1>1, <1>3, GotoType DEF Steps
<1>9. RequestOK(r)'
  BY <1>0, <1>3, <1>8 DEF RequestOK
<1> QED BY <1>0, <1>1, <1>2, <1>4, <1>5, <1>6, <1>7, <1>8, <1>9, Joins DEF CreateDirect, Created

LEMMA CreateCommonOK == ASSUME IInv, NEW k \in Calls, CreateCommon(k) PROVE IInv'
<1>0. PICK c, r : c = call[k].conv /\ r = [call[k] EXCEPT !.step = "ensure"]
  OBVIOUS
<1>1. call[k] \in Call /\ RequestOK(call[k]) /\ call[k].op = "resolve"
  BY <1>0, HeldCall DEF CreateCommon
<1>2. /\ c \in Convs /\ conv'[c] = "open" /\ ~AtKick(call[k])
      /\ \A d \in Convs : d # c => conv'[d] = conv[d]
      /\ conv' \in [Convs -> {"absent", "open", "archived"}]
  BY <1>0, CreatedType DEF CreateCommon
<1>3. c \notin Direct
  BY <1>0, <1>1, ConvTypes DEF RequestOK
<1>4. UNCHANGED <<member, admins>>
  BY <1>0 DEF CreateCommon
<1>5. DirectMembers'
  BY <1>0, <1>2, <1>3, <1>4, OtherPairs
<1>6. call' = [call EXCEPT ![k] = r]
  BY <1>0 DEF CreateCommon, Goto, IInv, TypeOK
<1>7. r \in Call /\ r.op = "resolve" /\ r.conv = c /\ r.step = "ensure"
  BY <1>0, <1>1, GotoType DEF Steps
<1>8. RequestOK(r)'
  BY <1>0, <1>1, <1>7 DEF RequestOK
<1>9. member' = Joined(member, call[k].conv, {})
  BY <1>0, <1>4 DEF Joined, IInv, TypeOK
<1>10. admins' \in [Convs -> SUBSET Users]
  BY <1>0, <1>4 DEF IInv, TypeOK
<1>11. \A d \in Convs : conv[d] # "absent" => conv'[d] # "absent"
  BY <1>2
<1>12. {} \in SUBSET Users /\ UNCHANGED <<messages, sockets, owed, told, budget>>
  BY DEF CreateCommon, Created
<1> QED BY <1>2, <1>5, <1>6, <1>7, <1>8, <1>9, <1>10, <1>11, <1>12, Joins

LEMMA WriteArchivedOK == ASSUME IInv, NEW k \in Calls, WriteArchived(k) PROVE IInv'
<1>0. PICK c, r : c = call[k].conv /\ r = [call[k] EXCEPT !.step = "announce"]
  OBVIOUS
<1>1. /\ call[k] \in Call /\ RequestOK(call[k]) /\ c \in Convs
      /\ call[k].op = "update" /\ call[k].to \in {"open", "archived"} /\ ~AtKick(call[k])
  BY <1>0, HeldCall, CallFields DEF WriteArchived, At, AtKick
<1>2. c \notin Direct
  BY <1>0, <1>1 DEF RequestOK
<1>3. conv' = [conv EXCEPT ![c] = call[k].to] /\ member' = member
  BY <1>0 DEF WriteArchived
<1>4. /\ conv' \in [Convs -> {"absent", "open", "archived"}]
      /\ \A d \in Convs : conv[d] # "absent" => conv'[d] # "absent"
      /\ \A d \in Convs : d # c => conv'[d] = conv[d]
  BY <1>1, <1>3 DEF IInv, TypeOK
<1>5. DirectMembers'
  BY <1>1, <1>2, <1>3, <1>4, OtherPairs
<1>6. call' = [call EXCEPT ![k] = r]
  BY <1>0 DEF WriteArchived, Goto, IInv, TypeOK
<1>7. r \in Call /\ r.op = "update" /\ r.conv = c /\ r.step = "announce"
  BY <1>0, <1>1, GotoType DEF Steps
<1>8. RequestOK(r)'
  BY <1>2, <1>7 DEF RequestOK
<1>9. {} \in SUBSET Users /\ member' = Joined(member, call[k].conv, {})
  BY <1>3 DEF Joined, IInv, TypeOK
<1>10. /\ admins' \in [Convs -> SUBSET Users]
       /\ UNCHANGED <<messages, sockets, owed, told, budget>>
  BY DEF WriteArchived, IInv, TypeOK
<1> QED BY <1>1, <1>4, <1>5, <1>6, <1>7, <1>8, <1>9, <1>10, Joins

LEMMA WriteRemovedOK == ASSUME IInv, NEW k \in Calls, WriteRemoved(k) PROVE IInv'
<1> USE DEF IInv
<1>0. PICK c, who, r : /\ c = call[k].conv /\ who = call[k].who
                       /\ r = [call[k] EXCEPT !.step = "kick"]
  OBVIOUS
<1>1. /\ call[k] \in Call /\ RequestOK(call[k]) /\ c \in Convs
      /\ call[k].op = "remove" /\ ~AtKick(call[k])
  BY <1>0, HeldCall, CallFields DEF WriteRemoved, At, AtKick
<1>2. c \notin Direct
  BY <1>0, <1>1 DEF RequestOK
<1>3. member' = [member EXCEPT ![c] =
          [u \in Users |-> IF u \in who /\ @[u] # "absent" THEN "inactive" ELSE @[u]]]
  BY <1>0 DEF WriteRemoved
<1>4. /\ member' \in [Convs -> [Users -> {"absent", "active", "inactive"}]]
      /\ \A d \in Convs : d # c => member'[d] = member[d]
      /\ \A u \in Users : u \notin who => member'[c][u] = member[c][u]
      /\ \A d \in Convs, u \in Users : Known(d, u) => member'[d][u] # "absent"
  BY <1>1, <1>3 DEF TypeOK, Known
<1>5. UNCHANGED <<conv, admins, messages, online, rooms, joining, open, removed, late, told,
                  budget>>
  BY DEF WriteRemoved, sockets
<1>6. Grows
  BY <1>4, <1>5 DEF Grows
<1>7. call' = [call EXCEPT ![k] = r]
  BY <1>0 DEF WriteRemoved, Goto, TypeOK
<1>8. r \in Call /\ r.op = "remove" /\ r.conv = c /\ r.who = who /\ r.step = "kick"
  BY <1>0, <1>1, GotoType DEF Steps
<1>9. RequestOK(r)'
  BY <1>2, <1>8 DEF RequestOK
<1>10. call' \in [Calls -> Call] /\ RequestsOK'
  BY <1>6, <1>7, <1>8, <1>9, CallMoves
<1>11. owed' \in [Users -> SUBSET Message]
  BY DEF WriteRemoved, TypeOK
<1>12. TypeOK'
  BY <1>4, <1>5, <1>10, <1>11 DEF TypeOK
<1>13. DirectMembers'
  BY <1>1, <1>2, <1>4, <1>5, OtherPairs
<1>14. OutsidersHearNothing' /\ JoinsAreKnown'
  BY <1>4, <1>5 DEF OutsidersHearNothing, JoinsAreKnown, Known
<1>15. RoomFollowsMembership'
  <2> SUFFICES ASSUME NEW u \in Users, NEW d \in rooms'[u]
               PROVE  Active(d, u)' \/ BeingKicked(u, d)' \/ <<u, d>> \in late'
    BY DEF RoomFollowsMembership
  <2>1. d \in rooms[u] /\ d \in Convs
    BY <1>5 DEF TypeOK
  <2>2. CASE d = c /\ u \in who
    <3>1. call'[k] = r
      BY <1>7 DEF TypeOK
    <3> QED BY <2>2, <3>1, <1>8 DEF BeingKicked, At
  <2>3. CASE ~(d = c /\ u \in who)
    <3>1. member'[d][u] = member[d][u]
      BY <2>1, <2>3, <1>4
    <3>2. Active(d, u) \/ BeingKicked(u, d) \/ <<u, d>> \in late
      BY <2>1 DEF RoomFollowsMembership
    <3> QED BY <3>1, <3>2, <1>1, <1>5, <1>7, KickStays DEF Active
  <2> QED BY <2>2, <2>3
<1> QED BY <1>5, <1>10, <1>12, <1>13, <1>14, <1>15

-----------------------------------------------------------------------------
(* Steps that leave conversations and membership alone.                    *)

LEMMA MembersKept ==
    ASSUME IInv, UNCHANGED <<conv, member>>
    PROVE  /\ Grows /\ DirectMembers'
           /\ UNCHANGED call => RequestsOK'
BY DEF IInv, Grows, Known, DirectMembers, ActiveIds, Active, RequestsOK, RequestOK

LEMMA KickOK == ASSUME IInv, NEW k \in Calls, Kick(k) PROVE IInv'
<1> USE DEF IInv
<1>0. PICK c, who, r : /\ c = call[k].conv /\ who = call[k].who
                       /\ r = [call[k] EXCEPT !.step = "announce"]
  OBVIOUS
<1>1. call[k] \in Call /\ RequestOK(call[k]) /\ c \in Convs /\ who \subseteq Users
      /\ call[k].op = "remove"
  BY <1>0, HeldCall, CallFields DEF Kick, At
<1>2. /\ rooms' = [u \in Users |-> IF u \in who THEN rooms[u] \ {c} ELSE rooms[u]]
      /\ removed' = removed \cup ((who \cap online) \X {c})
      /\ UNCHANGED <<conv, member, admins, messages, online, joining, open, late, owed, told,
                     budget>>
  BY <1>0 DEF Kick, rows
<1>3. call' = [call EXCEPT ![k] = r]
  BY <1>0 DEF Kick, Goto, TypeOK
<1>4. r \in Call /\ r.op = "remove" /\ r.conv = c /\ r.step = "announce"
  BY <1>0, <1>1, GotoType DEF Steps
<1>5. RequestOK(r)'
  BY <1>0, <1>1, <1>4 DEF RequestOK
<1>6. Grows /\ DirectMembers'
  BY <1>2, MembersKept
<1>7. call' \in [Calls -> Call] /\ RequestsOK'
  BY <1>3, <1>4, <1>5, <1>6, CallMoves
<1>8. TypeOK'
  BY <1>1, <1>2, <1>7 DEF TypeOK
<1>9. OutsidersHearNothing' /\ JoinsAreKnown'
  BY <1>2 DEF OutsidersHearNothing, JoinsAreKnown, Known
<1>10. RoomFollowsMembership'
  <2> SUFFICES ASSUME NEW u \in Users, NEW d \in rooms'[u]
               PROVE  Active(d, u)' \/ BeingKicked(u, d)' \/ <<u, d>> \in late'
    BY DEF RoomFollowsMembership
  <2>1. d \in rooms[u] /\ ~(u \in who /\ d = c)
    BY <1>2
  <2>2. CASE ~BeingKicked(u, d)
    BY <2>1, <2>2, <1>2 DEF RoomFollowsMembership, Active
  <2>3. CASE BeingKicked(u, d)
    <3>1. PICK j \in Calls : At(j, {"remove"}, "kick") /\ call[j].conv = d /\ u \in call[j].who
      BY <2>3 DEF BeingKicked
    <3>2. j # k
      BY <2>1, <3>1, <1>0
    <3>3. call'[j] = call[j]
      BY <3>2, <1>3 DEF TypeOK
    <3> QED BY <3>1, <3>3 DEF BeingKicked, At
  <2> QED BY <2>2, <2>3
<1> QED BY <1>2, <1>6, <1>7, <1>8, <1>9, <1>10

LEMMA StoreMessageOK == ASSUME IInv, NEW k \in Calls, StoreMessage(k) PROVE IInv'
<1> USE DEF IInv
<1>0. PICK msg, r :
        /\ msg = [conv |-> call[k].conv, by |-> call[k].by, n |-> Cardinality(messages) + 1]
        /\ r = [call[k] EXCEPT !.op = "push", !.step = "load", !.msg = msg]
  OBVIOUS
<1>1. /\ call[k] \in Call /\ call[k].conv \in Convs /\ call[k].by \in Users
      /\ ~AtKick(call[k])
  BY HeldCall, CallFields DEF StoreMessage, At, AtKick
<1>2. msg \in Message
  BY <1>0, <1>1, FS_CardinalityType DEF Message
<1>3. /\ messages' = messages \cup {msg}
      /\ owed' = [u \in Users |->
            IF u # msg.by /\ Active(msg.conv, u) /\ u \in online THEN owed[u] \cup {msg}
                                                                  ELSE owed[u]]
      /\ UNCHANGED <<conv, member, admins, online, rooms, joining, open, removed, late, told,
                     budget>>
  BY <1>0 DEF StoreMessage, sockets
<1>4. call' = [call EXCEPT ![k] = r]
  BY <1>0 DEF StoreMessage
<1>5. r \in Call /\ r.op = "push" /\ r.step = "load"
  BY <1>0, <1>1, <1>2 DEF Call, Ops, Steps
<1>6. RequestOK(r)'
  BY <1>5 DEF RequestOK
<1>7. Grows /\ DirectMembers'
  BY <1>3, MembersKept
<1>8. call' \in [Calls -> Call] /\ RequestsOK'
  BY <1>4, <1>5, <1>6, <1>7, CallMoves
<1>9. messages' \subseteq Message /\ owed' \in [Users -> SUBSET Message]
  BY <1>2, <1>3 DEF TypeOK
<1>10. TypeOK'
  BY <1>3, <1>8, <1>9 DEF TypeOK
<1>11. IsFiniteSet(messages')
  BY <1>3, FS_AddElement
<1>12. OutsidersHearNothing' /\ JoinsAreKnown'
  BY <1>3 DEF OutsidersHearNothing, JoinsAreKnown, Known
<1>13. \A u \in Users, d \in Convs : BeingKicked(u, d) => BeingKicked(u, d)'
  BY <1>1, <1>4, KickStays
<1>14. RoomFollowsMembership'
  BY <1>3, <1>13, RoomsFollow DEF Active
<1> QED BY <1>7, <1>8, <1>10, <1>11, <1>12, <1>14

(* A push to the sockets of users who are or were members.                 *)
LEMMA PushOK ==
    ASSUME IInv, NEW k \in Calls, NEW r \in Call, NEW us \in SUBSET Users,
           \A u \in us : Known(call[k].conv, u),
           Tell(us, call[k].conv), owed' \in [Users -> SUBSET Message],
           call' = [call EXCEPT ![k] = r], RequestOK(r), ~AtKick(call[k]),
           UNCHANGED <<rows, sockets, budget>>
    PROVE  IInv'
<1> USE DEF IInv
<1>0. PICK c : c = call[k].conv
  OBVIOUS
<1>1. c \in Convs /\ \A u \in us : Known(c, u)
  BY <1>0, HeldCall, CallFields
<1>2. told' = [u \in Users |-> IF u \in us THEN told[u] \cup {c} ELSE told[u]]
  BY <1>0 DEF Tell
<1>3. UNCHANGED <<conv, member, admins, messages, online, rooms, joining, open, removed, late,
                  budget>>
  BY DEF rows, sockets
<1>4. Grows /\ DirectMembers' /\ RequestOK(r)'
  BY <1>3, MembersKept DEF RequestOK, Known
<1>5. call' \in [Calls -> Call] /\ RequestsOK'
  BY <1>4, CallMoves
<1>6. told' \in [Users -> SUBSET Convs]
  BY <1>1, <1>2 DEF TypeOK
<1>7. TypeOK'
  BY <1>3, <1>5, <1>6 DEF TypeOK
<1>8. OutsidersHearNothing' /\ JoinsAreKnown'
  BY <1>1, <1>2, <1>3 DEF OutsidersHearNothing, JoinsAreKnown, Known
<1>9. \A u \in Users, d \in Convs : BeingKicked(u, d) => BeingKicked(u, d)'
  BY KickStays
<1>10. RoomFollowsMembership'
  BY <1>3, <1>9, RoomsFollow DEF Active
<1> QED BY <1>3, <1>4, <1>5, <1>7, <1>8, <1>10

LEMMA PushToRoomOK == ASSUME IInv, NEW k \in Calls, PushToRoom(k) PROVE IInv'
<1>0. PICK us, r : /\ us = {u \in online : call[k].conv \in rooms[u]}
                   /\ r = [call[k] EXCEPT !.step = "members"]
  OBVIOUS
<1>1. call[k] \in Call /\ RequestOK(call[k]) /\ call[k].conv \in Convs
      /\ call[k].op = "push" /\ ~AtKick(call[k])
  BY HeldCall, CallFields DEF PushToRoom, At, AtKick
<1>2. us \subseteq Users /\ \A u \in us : Known(call[k].conv, u)
  BY <1>0, <1>1 DEF IInv, TypeOK, OutsidersHearNothing, Known
<1>3. call' = [call EXCEPT ![k] = r]
  BY <1>0 DEF PushToRoom, Goto, IInv, TypeOK
<1>4. r \in Call /\ r.op = "push" /\ r.step = "members"
  BY <1>0, <1>1, GotoType DEF Steps
<1>5. RequestOK(r)
  BY <1>4 DEF RequestOK
<1>6. owed' \in [Users -> SUBSET Message]
  BY DEF PushToRoom, Hear, IInv, TypeOK
<1>7. Tell(us, call[k].conv) /\ UNCHANGED <<rows, sockets, budget>>
  BY <1>0 DEF PushToRoom
<1> QED BY <1>1, <1>2, <1>3, <1>4, <1>5, <1>6, <1>7, PushOK

LEMMA TellMembersOK == ASSUME IInv, NEW k \in Calls, TellMembers(k) PROVE IInv'
<1>0. PICK us : us = call[k].who \cap online
  OBVIOUS
<1>1. us \subseteq Users /\ \A u \in us : Known(call[k].conv, u)
  BY <1>0, HeldCall, CallFields DEF TellMembers, RequestOK
<1>2. owed' \in [Users -> SUBSET Message]
  BY DEF TellMembers, Hear, IInv, TypeOK
<1>3. Tell(us, call[k].conv) /\ UNCHANGED <<rows, sockets, budget>>
  BY <1>0 DEF TellMembers
<1>4. call' = [call EXCEPT ![k] = Idle] /\ ~AtKick(call[k])
  BY DEF TellMembers, Done, AtKick
<1> QED BY <1>1, <1>2, <1>3, <1>4, IdleType, IdleOK, PushOK

-----------------------------------------------------------------------------
(* The gateway and the browsers.  Only JoinRoom puts a socket into a room. *)

LEMMA SocketsOK ==
    ASSUME IInv, UNCHANGED <<rows, told, call>>,
           online' \subseteq Users, rooms' \in [Users -> SUBSET Convs],
           joining' \in [Users -> [Convs -> {"no", "asked", "allowed"}]],
           open' \in [Users -> SUBSET Convs], removed' \subseteq Users \X Convs, late' = late,
           owed' \in [Users -> SUBSET Message], budget' \in [Limited -> Nat],
           \A u \in Users : rooms'[u] \subseteq rooms[u],
           \A u \in Users, c \in Convs : joining'[u][c] = "allowed" => Known(c, u)
    PROVE  IInv'
<1> USE DEF IInv
<1>1. UNCHANGED <<conv, member, admins, messages>>
  BY DEF rows
<1>2. TypeOK'
  BY <1>1 DEF TypeOK
<1>3. RequestsOK' /\ DirectMembers'
  BY <1>1, MembersKept
<1>4. OutsidersHearNothing' /\ JoinsAreKnown'
  BY <1>1 DEF OutsidersHearNothing, JoinsAreKnown, Known
<1>5. \A u \in Users, c \in Convs : BeingKicked(u, c) => BeingKicked(u, c)'
  BY KicksUnchanged
<1>6. RoomFollowsMembership'
  BY <1>1, <1>5, RoomsFollow DEF Active
<1> QED BY <1>1, <1>2, <1>3, <1>4, <1>6

LEMMA BrowserOK ==
    ASSUME IInv, NEW u \in Users, NEW c \in Convs,
           OpenRoom(u, c) \/ CheckJoin(u, c) \/ CloseRoom(u, c) \/ RouteAway(u, c)
    PROVE  IInv'
<1>1. CASE OpenRoom(u, c)
  BY <1>1, SocketsOK DEF OpenRoom, IInv, TypeOK, JoinsAreKnown, Limited
<1>2. CASE CheckJoin(u, c)
  BY <1>2, SocketsOK DEF CheckJoin, MayJoin, Active, Known, IInv, TypeOK, JoinsAreKnown
<1>3. CASE CloseRoom(u, c)
  BY <1>3, SocketsOK DEF CloseRoom, LeaveRoom, IInv, TypeOK, JoinsAreKnown
<1>4. CASE RouteAway(u, c)
  BY <1>4, SocketsOK DEF RouteAway, LeaveRoom, IInv, TypeOK, JoinsAreKnown
<1> QED BY <1>1, <1>2, <1>3, <1>4

LEMMA ConnectionOK ==
    ASSUME IInv, NEW u \in Users, Disconnect(u) \/ Reconnect(u) PROVE IInv'
<1>1. CASE Disconnect(u)
  BY <1>1, SocketsOK DEF Disconnect, IInv, TypeOK, JoinsAreKnown, Limited
<1>2. CASE Reconnect(u)
  BY <1>2, SocketsOK DEF Reconnect, IInv, TypeOK, JoinsAreKnown
<1> QED BY <1>1, <1>2

LEMMA JoinRoomOK ==
    ASSUME IInv, NEW u \in Users, NEW c \in Convs, JoinRoom(u, c) PROVE IInv'
<1> USE DEF IInv
<1>1. UNCHANGED <<conv, member, admins, messages, online, open, removed, owed, told, call, budget>>
  BY DEF JoinRoom, rows
<1>2. /\ joining[u][c] = "allowed" /\ joining' = [joining EXCEPT ![u][c] = "no"]
      /\ rooms' = [rooms EXCEPT ![u] = @ \cup {c}]
      /\ late' = IF Active(c, u) THEN late ELSE late \cup {<<u, c>>}
  BY DEF JoinRoom
<1>3. TypeOK'
  BY <1>1, <1>2 DEF TypeOK
<1>4. RequestsOK' /\ DirectMembers'
  BY <1>1, MembersKept
<1>5. Known(c, u)
  BY <1>2 DEF JoinsAreKnown
<1>6. OutsidersHearNothing'
  BY <1>1, <1>2, <1>5 DEF OutsidersHearNothing, Known, TypeOK
<1>7. JoinsAreKnown'
  BY <1>1, <1>2 DEF JoinsAreKnown, Known, TypeOK
<1>8. RoomFollowsMembership'
  <2> SUFFICES ASSUME NEW v \in Users, NEW d \in rooms'[v]
               PROVE  Active(d, v)' \/ BeingKicked(v, d)' \/ <<v, d>> \in late'
    BY DEF RoomFollowsMembership
  <2>1. CASE v = u /\ d = c
    BY <2>1, <1>1, <1>2 DEF Active
  <2>2. CASE ~(v = u /\ d = c)
    <3>1. d \in rooms[v]
      BY <2>2, <1>2 DEF TypeOK
    <3>2. Active(d, v) \/ BeingKicked(v, d) \/ <<v, d>> \in late
      BY <3>1 DEF RoomFollowsMembership
    <3> QED BY <3>2, <1>1, <1>2, KicksUnchanged DEF Active
  <2> QED BY <2>1, <2>2
<1> QED BY <1>1, <1>3, <1>4, <1>6, <1>7, <1>8

-----------------------------------------------------------------------------
LEMMA UnchangedOK == ASSUME IInv, UNCHANGED vars PROVE IInv'
BY DEF vars, rows, sockets, IInv, TypeOK, RequestsOK, RequestOK, Known, DirectMembers,
       ActiveIds, Active, OutsidersHearNothing, JoinsAreKnown, RoomFollowsMembership,
       BeingKicked, At

LEMMA StepOK == IInv /\ [Next]_vars => IInv'
<1> SUFFICES ASSUME IInv, [Next]_vars PROVE IInv'
  OBVIOUS
<1>1. CASE UNCHANGED vars
  BY <1>1, UnchangedOK
<1>2. ASSUME NEW k \in Calls, Advance(k) PROVE IInv'
  BY <1>2, FindOK, EnsureOK, CreateCommonOK, CreateNamedOK, CreateDirectOK, ExistsOK, CheckOK,
     WriteArchivedOK, WriteRemovedOK, KickOK, TellersOK, ReadArchivedOK, StoreMessageOK,
     PushToRoomOK, TellMembersOK DEF Advance
<1>3. ASSUME NEW k \in Calls, NEW u \in Users, Arrive(k, u) PROVE IInv'
  BY <1>3, ArriveOK
<1>4. ASSUME NEW u \in Users, NEW c \in Convs,
             Gateway(u, c) \/ OpenRoom(u, c) \/ CloseRoom(u, c)
      PROVE  IInv'
  BY <1>4, BrowserOK, JoinRoomOK DEF Gateway
<1>5. ASSUME NEW u \in Users, Disconnect(u) \/ Reconnect(u) PROVE IInv'
  BY <1>5, ConnectionOK
<1> QED BY <1>1, <1>2, <1>3, <1>4, <1>5 DEF Next

LEMMA InvariantHolds == Spec => []IInv
BY InitOK, StepOK, PTL DEF Spec

(* The rows, sockets and requests of team chat keep their types.           *)
THEOREM ChatTypeCorrect == Spec => []TypeOK
<1>1. IInv => TypeOK
  BY DEF IInv
<1> QED BY <1>1, InvariantHolds, PTL

(* openDm, addMembers and removeMember: once it exists, a direct           *)
(* conversation has exactly its two users as active members, whoever       *)
(* opened it and whatever else is in progress.                             *)
THEOREM DirectRoomsStayShared == Spec => []DirectRoomsAreShared
<1>1. IInv => DirectRoomsAreShared
  BY DEF IInv, DirectMembers, DirectRoomsAreShared
<1> QED BY <1>1, InvariantHolds, PTL

(* onChatMessageCreated and the gateway's join: nobody without a row of    *)
(* the conversation has had a live event of it or a socket in its room.    *)
THEOREM NothingLeaks == Spec => []OutsidersHearNothing
<1>1. IInv => OutsidersHearNothing
  BY DEF IInv
<1> QED BY <1>1, InvariantHolds, PTL

(* removeMember writes the row before it makes the sockets leave, so a     *)
(* removed user's socket is in the room only when a join already past its  *)
(* check is carried out later.                                             *)
THEOREM OnlyLateJoinsStay == Spec => []RoomFollowsMembership
<1>1. IInv => RoomFollowsMembership
  BY DEF IInv
<1> QED BY <1>1, InvariantHolds, PTL
=============================================================================
