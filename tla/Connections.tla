----------------------------- MODULE Connections ----------------------------
(***************************************************************************)
(* The one socket of a browser tab (lib/socket.ts) and the rooms the       *)
(* gateway keeps for it.  Components of the page hold rooms; the first     *)
(* holder of a room joins it and the last one leaves, through a socket     *)
(* that is being opened, loses its connection and is opened again.         *)
(***************************************************************************)
EXTENDS Naturals, Sequences, FiniteSets, SequencesExt

CONSTANTS
    Contacts,  \* rooms that are joined at once
    Rooms,     \* chat conversations, joined after a look at the membership
    Holds,     \* the components of the page and the room each holds
    Chances    \* what may happen: see Spend

Keys == Contacts \cup Rooms
Holders == DOMAIN Holds
Happenings == {"mounts", "drops", "failures", "refusals"}
HoldsOK ==
    /\ Holds \in [Holders -> Keys] /\ IsFiniteSet(Holders)
    /\ Chances \subseteq [Happenings -> Nat]

VARIABLES
    mounted,  \* components on the page
    refs,     \* roomRefs, 0 for a room that is not in the map
    link,     \* the socket: see Links
    trusted,  \* the connection was opened with a token
    again,    \* hasConnectedOnce
    waiting,  \* calls of getSocket that wait for the connection, in order
    buffer,   \* what was emitted without a connection
    wire,     \* what was emitted and has not reached the server
    joining,  \* calls of handleChatJoin in progress, by room
    rooms,    \* the rooms the server's end of the connection is in
    lost,     \* rooms whose join was rejected, or whose count was cleared
    chances   \* what is left of the bounds

vars == <<mounted, refs, link, trusted, again, waiting, buffer, wire,
          joining, rooms, lost, chances>>
server == <<joining, rooms>>

(* No socket; the first attempt; connected; trying again; closed for good. *)
Links == {"none", "opening", "up", "down", "closed"}
Packet == [op: {"join", "leave"}, key: Keys]
Join(k) == [op |-> "join", key |-> k]
Leave(k) == [op |-> "leave", key |-> k]

ConnectionsTypeOK ==
    /\ mounted \subseteq Holders
    /\ refs \in [Keys -> 0..Cardinality(Holders)]
    /\ link \in Links
    /\ {trusted, again} \subseteq BOOLEAN
    /\ \A q \in {waiting, buffer, wire} : q \in Seq(Packet)
    /\ joining \in [Rooms -> Nat]
    /\ rooms \subseteq Keys /\ lost \subseteq Keys
    /\ chances \in [Happenings -> Nat]

Init ==
    /\ mounted = {} /\ lost = {} /\ rooms = {}
    /\ refs = [k \in Keys |-> 0]
    /\ joining = [k \in Rooms |-> 0]
    /\ link = "none" /\ trusted = FALSE /\ again = FALSE
    /\ waiting = <<>> /\ buffer = <<>> /\ wire = <<>>
    /\ chances \in Chances

Spend(what) ==
    /\ chances[what] > 0
    /\ chances' = [chances EXCEPT ![what] = @ - 1]

-----------------------------------------------------------------------------
(* getSocket and what is done with its answer: a join is emitted, which    *)
(* buffers it while there is no connection, and a leave only if there is   *)
(* one.                                                                    *)
CreateConnection ==
    /\ link' = "opening"
    /\ UNCHANGED <<trusted, again>>
Emitted(p) ==
    /\ wire' = IF link = "up" THEN Append(wire, p) ELSE wire
    /\ buffer' = IF link # "up" /\ p.op = "join" THEN Append(buffer, p) ELSE buffer
    /\ UNCHANGED <<link, trusted, again, waiting>>
Through(p) ==
    IF link \in {"none", "opening"}
    THEN /\ waiting' = Append(waiting, p)
         /\ IF link = "none" THEN CreateConnection ELSE UNCHANGED <<link, trusted, again>>
         /\ UNCHANGED <<buffer, wire>>
    ELSE Emitted(p)
Silent == UNCHANGED <<link, trusted, again, waiting, buffer, wire>>

RetainRoom(k) == refs' = [refs EXCEPT ![k] = @ + 1]
FirstHolder(k) == refs[k] = 0
(* A room that is not in the map counts as held once. *)
ReleaseRoom(k) == refs' = [refs EXCEPT ![k] = IF @ = 0 THEN 0 ELSE @ - 1]
(* Mutant: whoever leaves the page leaves the room. *)
AnyHolder(k) == TRUE
LastHolder(k) == refs[k] <= 1

(* useContactRoom, useChatRoom and the effect of TeamChatRoom.             *)
Mount(h) ==
    LET k == Holds[h] IN
    /\ h \notin mounted
    /\ Spend("mounts")
    /\ mounted' = mounted \cup {h}
    /\ RetainRoom(k)
    /\ IF FirstHolder(k) THEN Through(Join(k)) ELSE Silent
    /\ UNCHANGED <<server, lost>>
Unmount(h) ==
    LET k == Holds[h] IN
    /\ h \in mounted
    /\ mounted' = mounted \ {h}
    /\ ReleaseRoom(k)
    /\ IF LastHolder(k) THEN Through(Leave(k)) ELSE Silent
    /\ lost' = IF \E other \in mounted' : Holds[other] = k THEN lost ELSE lost \ {k}
    /\ UNCHANGED <<server, chances>>

(* Any other use of the socket: markContactRead, ensureListeners.          *)
UseSocket ==
    /\ link = "none"
    /\ CreateConnection
    /\ UNCHANGED <<mounted, refs, waiting, buffer, wire, server, lost, chances>>

-----------------------------------------------------------------------------
(* The connection.  The first "connect" settles getSocket and everything   *)
(* that waited for it; a later one joins all rooms in the map again, after *)
(* socket.io has sent what it had buffered.  Without a token the server    *)
(* accepts the connection, answers "auth-error" and closes it.             *)
Packets(op, ks) == [i \in DOMAIN ks |-> [op |-> op, key |-> ks[i]]]
HandleSocketReconnect ==
    Packets("join", SetToSeq({k \in Keys : refs[k] > 0}))
Connect(token) ==
    /\ link \in {"opening", "down"}
    /\ IF token THEN UNCHANGED chances ELSE Spend("refusals")
    /\ link' = "up" /\ trusted' = token /\ again' = TRUE
    /\ wire' = buffer \o (IF again THEN HandleSocketReconnect ELSE <<>>) \o waiting
    /\ waiting' = <<>> /\ buffer' = <<>>
    /\ UNCHANGED <<mounted, refs, server, lost>>

(* The first attempt fails: the promise is rejected, the joins with it.    *)
ConnectFails ==
    /\ link = "opening"
    /\ Spend("failures")
    /\ link' = "none"
    /\ lost' = lost \cup {k \in Keys : refs[k] > 0 /\ Contains(waiting, Join(k))}
    /\ waiting' = <<>>
    /\ UNCHANGED <<mounted, refs, trusted, again, buffer, wire, server>>

ConnectionEnds ==
    /\ wire' = <<>> /\ rooms' = {}
    /\ joining' = [k \in Rooms |-> 0]
Disconnect ==
    /\ link = "up"
    /\ Spend("drops")
    /\ link' = "down"
    /\ ConnectionEnds
    /\ UNCHANGED <<mounted, refs, trusted, again, waiting, buffer, lost>>

(* A later attempt fails: the listener that was meant for the first one is *)
(* still there and closes the socket, which ends socket.io's attempts.     *)
ReconnectFails ==
    /\ link = "down"
    /\ Spend("failures")
    /\ link' = "closed"
    /\ UNCHANGED <<mounted, refs, trusted, again, waiting, buffer, wire, server, lost>>

(* handleAuthFailure, disconnectSocket: what is mounted stays mounted.     *)
HandleAuthFailure ==
    /\ link = "up" /\ ~trusted
    /\ link' = "none" /\ again' = FALSE
    /\ refs' = [k \in Keys |-> 0]
    /\ lost' = lost \cup {Holds[h] : h \in mounted}
    /\ ConnectionEnds
    /\ UNCHANGED <<mounted, trusted, waiting, buffer, chances>>

-----------------------------------------------------------------------------
(* The gateway: contact rooms are joined and left at once, a chat room is  *)
(* joined when the membership has been read.                               *)
HandleContactJoin(k) == rooms' = rooms \cup {k} /\ UNCHANGED joining
HandleLeave(k) == rooms' = rooms \ {k} /\ UNCHANGED joining
HandleChatJoin(k) == joining' = [joining EXCEPT ![k] = @ + 1] /\ UNCHANGED rooms
Receive ==
    /\ wire # <<>> /\ link = "up"
    /\ LET p == Head(wire) IN
        IF ~trusted THEN UNCHANGED server
        ELSE \/ p.op = "join" /\ p.key \in Contacts /\ HandleContactJoin(p.key)
             \/ p.op = "join" /\ p.key \in Rooms /\ HandleChatJoin(p.key)
             \/ p.op = "leave" /\ HandleLeave(p.key)
    /\ wire' = Tail(wire)
    /\ UNCHANGED <<mounted, refs, link, trusted, again, waiting, buffer, lost, chances>>
JoinChat(k) ==
    /\ joining[k] > 0
    /\ joining' = [joining EXCEPT ![k] = @ - 1]
    /\ rooms' = rooms \cup {k}
    /\ UNCHANGED <<mounted, refs, link, trusted, again, waiting, buffer, wire, lost, chances>>

Next ==
    \/ \E h \in Holders : Mount(h) \/ Unmount(h)
    \/ UseSocket
    \/ \E token \in BOOLEAN : Connect(token)
    \/ ConnectFails \/ Disconnect \/ ReconnectFails \/ HandleAuthFailure
    \/ Receive
    \/ \E k \in Rooms : JoinChat(k)
Spec == Init /\ [][Next]_vars

(* socket.io goes on trying while the backend can be reached.              *)
FairSpec == Spec /\ WF_vars(Connect(TRUE))

-----------------------------------------------------------------------------
(* useContactRoom: "prevents drift between React UI state and socket room  *)
(* subscriptions".  Once everything emitted has been handled, a connected  *)
(* tab is in every room its page holds, unless the join was rejected with  *)
(* the first attempt or the count was cleared by a refused token.          *)
Settled == link = "up" /\ trusted /\ wire = <<>> /\ \A k \in Rooms : joining[k] = 0
HeldRoomsAreJoined ==
    Settled => \A h \in mounted : Holds[h] \in rooms \cup lost

(* createConnection: "reconnectionAttempts: Infinity".  A connection that  *)
(* broke comes back once the backend can be reached.                       *)
ConnectionComesBack == link = "down" ~> link # "down" /\ link # "closed"
=============================================================================
