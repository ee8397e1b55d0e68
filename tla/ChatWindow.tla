----------------------------- MODULE ChatWindow -----------------------------
(***************************************************************************)
(* The messages one browser shows of a team-chat conversation:             *)
(* TeamChatRoom and the pages ChatService returns.  The browser holds a    *)
(* stretch of the thread.  It is filled by pages, asked for when the room  *)
(* opens, at either end of a scroll, for a search result and for the way   *)
(* back to the newest message, by messages pushed while the socket is in   *)
(* the room, and by messages the user sends.  Any of these may be on its   *)
(* way while another one is applied.                                       *)
(***************************************************************************)
EXTENDS Naturals, Sequences, FiniteSets, SequencesExt

CONSTANTS
    Page,     \* messages per page, at least 1
    Before,   \* messages loaded above the first unread one
    Known,    \* lengths the thread may have when the room opens
    Requests  \* bounds on what users do, [Bounds -> Nat]

Bounds == {
    "opens",   \* the room opened
    "writes",  \* messages of others
    "sends",   \* own messages
    "jumps",   \* search results opened
    "returns", \* clicks on the arrow to the newest message
    "scrolls", \* pages asked for by scrolling
    "drops"}   \* lost connections

SizesOK ==
    /\ Page \in Nat \ {0} /\ Before \in Nat
    /\ Known \subseteq Nat /\ Requests \subseteq [Bounds -> Nat]

VARIABLES
    thread,   \* authors of the stored messages, oldest first; a message is its place
    pushing,  \* messages whose handler has not yet emitted to the room
    joined,   \* the socket is in the room
    read,     \* lastReadAt: how many messages the user had read on opening
    shown,    \* rows of the window, top to bottom
    edge,     \* cursors and flags of both ends
    asked,    \* page requests in progress, at most one of each kind
    sending,  \* own messages on their way
    left      \* what is left of the bounds

server == <<thread, pushing, joined, read>>
vars == <<server, shown, edge, asked, sending, left>>

(* A row is a stored message, or an optimistic one known by its tempId.    *)
Saved(n) == [n |-> n, temp |-> 0]
Pending(k) == [n |-> 0, temp |-> k]
SavedIn(rows) == {rows[i].n : i \in DOMAIN rows} \ {0}

Kinds == {"open", "older", "newer", "newest", "jump"}
NoPage == [state |-> "none", at |-> 0, ids |-> <<>>, moreOlder |-> FALSE, moreNewer |-> FALSE]
Asked(at) == [NoPage EXCEPT !.state = "asked", !.at = at]
ClosedEdge == [older |-> 0, moreOlder |-> FALSE, newer |-> 0, moreNewer |-> FALSE, anchored |-> FALSE]

TypeOK ==
    /\ thread \in Seq({"me", "peer"})
    /\ pushing \subseteq DOMAIN thread
    /\ joined \in BOOLEAN
    /\ read \in 0..Len(thread)
    /\ \A i \in DOMAIN shown : shown[i] \in [n: 0..Len(thread), temp: Nat]
    /\ edge \in [older: 0..Len(thread), moreOlder: BOOLEAN,
                 newer: 0..Len(thread), moreNewer: BOOLEAN, anchored: BOOLEAN]
    /\ \A kind \in Kinds :
        /\ asked[kind].state \in {"none", "meta", "asked", "answered"}
        /\ asked[kind].at \in 0..Len(thread)
        /\ Range(asked[kind].ids) \subseteq DOMAIN thread
    /\ sending \in Seq([state: {"asked", "stored", "shown", "failed"}, n: 0..Len(thread)])
    /\ left \in [Bounds -> Nat]

Init ==
    /\ \E n \in Known :
        /\ thread = [i \in 1..n |-> "peer"]
        /\ read \in 0..n
    /\ pushing = {}
    /\ joined = FALSE
    /\ shown = <<>>
    /\ edge = ClosedEdge
    /\ asked = [[kind \in Kinds |-> NoPage] EXCEPT !["open"].state = "meta"]
    /\ sending = <<>>
    /\ left \in Requests

Spend(what) ==
    /\ left[what] > 0
    /\ left' = [left EXCEPT ![what] = @ - 1]

-----------------------------------------------------------------------------
(* What the server returns: messages first..last of the thread, and        *)
(* whether it believes there are more on either side.                      *)
Stretch(first, last) == [i \in 1..(last - first + 1) |-> first + i - 1]
From(n) == IF n > 0 THEN n ELSE 1
Upto(n) == IF n < Len(thread) THEN n ELSE Len(thread)
Reply(kind, first, last, moreOlder, moreNewer) ==
    [asked[kind] EXCEPT !.state = "answered", !.ids = Stretch(From(first), Upto(last)),
                        !.moreOlder = moreOlder, !.moreNewer = moreNewer]
Above(n) == IF n > 0 THEN n - 1 ELSE 0
Less(a, b) == IF a > b THEN a - b ELSE 0

NewestPage(kind) ==
    LET end == Len(thread) IN
    Reply(kind, Less(end, Page) + 1, end, end > Page, FALSE)
OlderPage(kind, cursor) ==
    Reply(kind, Less(cursor, Page), Above(cursor), Above(cursor) > Page, FALSE)
NewerPage(kind, cursor) ==
    Reply(kind, cursor + 1, cursor + Page, FALSE, Len(thread) > cursor + Page)
(* moreOlder and moreNewer are guessed from a full count on that side.     *)
PageAround(kind, n, before, after) ==
    Reply(kind, Less(n, before), n + after, Above(n) >= before, Len(thread) - n >= after)

(* The page request on opening follows the metadata, which names the first *)
(* unread message; the room is joined as soon as the metadata is there.    *)
Unread == {n \in DOMAIN thread : n > read /\ thread[n] = "peer"}
First(S) == CHOOSE n \in S : \A m \in S : n <= m
GetMeta ==
    /\ asked["open"].state = "meta"
    /\ Spend("opens")
    /\ asked' = [asked EXCEPT !["open"] = Asked(IF Unread = {} THEN 0 ELSE First(Unread))]
    /\ UNCHANGED <<server, shown, edge, sending>>

Joinable == ~joined /\ asked["open"].state # "meta"
Join ==
    /\ Joinable
    /\ joined' = TRUE
    /\ UNCHANGED <<thread, pushing, read, shown, edge, asked, sending, left>>

Answer(kind) ==
    LET at == asked[kind].at
        answers(page) == asked' = [asked EXCEPT ![kind] = page] IN
    /\ asked[kind].state = "asked"
    /\ \/ kind = "jump" /\ answers(PageAround(kind, at, Before, Page))
       \/ kind = "open" /\ at # 0 /\ answers(PageAround(kind, at, Before, Page))
       \/ kind = "older" /\ answers(OlderPage(kind, at))
       \/ kind = "newer" /\ answers(NewerPage(kind, at))
       \/ kind = "newest" /\ answers(NewestPage(kind))
       \/ kind = "open" /\ at = 0 /\ answers(NewestPage(kind))
    /\ UNCHANGED <<server, shown, edge, sending, left>>

-----------------------------------------------------------------------------
(* The browser applies a page.                                             *)
Rows(ids) == [i \in DOMAIN ids |-> Saved(ids[i])]
(* What s has at the positions of S, in their order.                       *)
AtPositions(s, S) ==
    [k \in 1..Cardinality(S) |->
        s[CHOOSE i \in S : Cardinality({j \in S : j <= i}) = k]]
(* Rows of a page the window does not hold yet; an optimistic row has no   *)
(* stored id to be recognised by.                                          *)
Fresh(ids) == AtPositions(ids, {i \in DOMAIN ids : ids[i] \notin SavedIn(shown)})
FirstOf(ids) == IF ids = <<>> THEN 0 ELSE ids[1]
LastOf(ids) == IF ids = <<>> THEN 0 ELSE Last(ids)

Apply(kind, reply) ==
    /\ asked[kind].state = "answered"
    /\ reply = asked[kind]
    /\ asked' = [asked EXCEPT ![kind] = NoPage]
    /\ UNCHANGED <<server, sending, left>>

Replace(reply, newer, moreNewer, older) ==
    /\ shown' = Rows(reply.ids)
    /\ edge' = [older |-> older, moreOlder |-> reply.moreOlder,
                newer |-> newer, moreNewer |-> moreNewer, anchored |-> moreNewer]

ApplyWindow(kind) == \E reply \in {asked[kind]} :
    /\ kind \in {"open", "jump"} /\ reply.at # 0
    /\ Apply(kind, reply)
    /\ Replace(reply, LastOf(reply.ids), reply.moreNewer, FirstOf(reply.ids))

ApplyNewest(kind) == \E reply \in {asked[kind]} :
    /\ kind = "newest" \/ (kind = "open" /\ reply.at = 0)
    /\ Apply(kind, reply)
    /\ Replace(reply, 0, FALSE, IF reply.moreOlder THEN FirstOf(reply.ids) ELSE 0)

ApplyOlder == \E reply \in {asked["older"]} :
    /\ Apply("older", reply)
    /\ shown' = Rows(Fresh(reply.ids)) \o shown
    /\ edge' = [edge EXCEPT !.older = IF reply.moreOlder THEN FirstOf(reply.ids) ELSE 0,
                            !.moreOlder = reply.moreOlder]

(* Mutant of ApplyNewer: the end of the thread is noted, the anchor stays. *)
KeepAnchor == \E reply \in {asked["newer"]} :
    /\ Apply("newer", reply)
    /\ shown' = shown \o Rows(Fresh(reply.ids))
    /\ edge' = [edge EXCEPT !.newer = IF reply.ids = <<>> THEN reply.at ELSE LastOf(reply.ids),
                            !.moreNewer = reply.moreNewer]
ApplyNewer == \E reply \in {asked["newer"]} :
    /\ Apply("newer", reply)
    /\ shown' = shown \o Rows(Fresh(reply.ids))
    /\ edge' = [edge EXCEPT !.newer = IF reply.ids = <<>> THEN reply.at ELSE LastOf(reply.ids),
                            !.moreNewer = reply.moreNewer,
                            !.anchored = @ /\ reply.moreNewer]

-----------------------------------------------------------------------------
(* The user asks for pages.                                                *)
Ask(kind, at, what) ==
    /\ asked["open"].state # "meta"
    /\ asked[kind].state = "none"
    /\ Spend(what)
    /\ asked' = [asked EXCEPT ![kind] = Asked(at)]
    /\ UNCHANGED <<server, shown, edge, sending>>

LoadOlder == edge.moreOlder /\ edge.older # 0 /\ Ask("older", edge.older, "scrolls")
LoadNewer ==
    /\ edge.anchored /\ edge.moreNewer /\ edge.newer # 0
    /\ Ask("newer", edge.newer, "scrolls")
ScrollToNewest == edge.anchored /\ Ask("newest", 0, "returns")
JumpTo(n) == n \notin SavedIn(shown) /\ Ask("jump", n, "jumps")

-----------------------------------------------------------------------------
(* Messages of others, pushed in whatever order their handlers finish; the *)
(* connection.                                                             *)
PeerWrites ==
    /\ Spend("writes")
    /\ thread' = Append(thread, "peer")
    /\ pushing' = pushing \cup {Len(thread) + 1}
    /\ UNCHANGED <<joined, read, shown, edge, asked, sending>>

(* Mutant of IsNew: the message is appended without a look. *)
AlwaysNew(n) == TRUE
IsNew(n) == n \notin SavedIn(shown)

(* onNewMessage: nothing is appended to an anchored window.                *)
Push(n) ==
    /\ n \in pushing
    /\ pushing' = pushing \ {n}
    /\ shown' = IF joined /\ ~edge.anchored /\ IsNew(n)
                THEN Append(shown, Saved(n)) ELSE shown
    /\ UNCHANGED <<thread, joined, read, edge, asked, sending, left>>

Disconnect ==
    /\ joined
    /\ Spend("drops")
    /\ joined' = FALSE
    /\ UNCHANGED <<thread, pushing, read, shown, edge, asked, sending>>

-----------------------------------------------------------------------------
(* handleSend: an optimistic row, then its stored message in its place.    *)
Send ==
    /\ asked["open"].state # "meta"
    /\ Spend("sends")
    /\ sending' = Append(sending, [state |-> "asked", n |-> 0])
    /\ shown' = Append(shown, Pending(Len(sending) + 1))
    /\ UNCHANGED <<server, edge, asked>>

StoreOwn(k) ==
    /\ sending[k].state = "asked"
    /\ thread' = Append(thread, "me")
    /\ sending' = [sending EXCEPT ![k] = [state |-> "stored", n |-> Len(thread) + 1]]
    /\ UNCHANGED <<pushing, joined, read, shown, edge, asked, left>>

Confirm(k) ==
    /\ sending[k].state = "stored"
    /\ shown' = [i \in DOMAIN shown |->
           IF shown[i] = Pending(k) THEN Saved(sending[k].n) ELSE shown[i]]
    /\ sending' = [sending EXCEPT ![k].state = "shown"]
    /\ UNCHANGED <<server, edge, asked, left>>

(* The request is lost: the row stays, marked failed.                      *)
SendFails(k) ==
    /\ sending[k].state = "asked"
    /\ sending' = [sending EXCEPT ![k].state = "failed"]
    /\ UNCHANGED <<server, shown, edge, asked, left>>

PageFails(kind) ==
    /\ asked[kind].state = "asked"
    /\ asked' = [asked EXCEPT ![kind] = NoPage]
    /\ UNCHANGED <<server, shown, edge, sending, left>>

-----------------------------------------------------------------------------
Next ==
    \/ GetMeta \/ Join \/ Disconnect
    \/ \E kind \in Kinds :
        Answer(kind) \/ ApplyWindow(kind) \/ ApplyNewest(kind) \/ PageFails(kind)
    \/ ApplyOlder \/ ApplyNewer
    \/ LoadOlder \/ LoadNewer \/ ScrollToNewest \/ \E n \in DOMAIN thread : JumpTo(n)
    \/ PeerWrites \/ \E n \in pushing : Push(n)
    \/ Send \/ \E k \in DOMAIN sending : StoreOwn(k) \/ Confirm(k) \/ SendFails(k)

Spec == Init /\ [][Next]_vars

-----------------------------------------------------------------------------
(* However pages, jumps and pushes overlap, a message of somebody else is  *)
(* never in the window twice (onNewMessage, loadOlder, loadNewer).         *)
OthersShownOnce ==
    \A i, j \in DOMAIN shown :
        i # j /\ shown[i].n = shown[j].n /\ shown[i].n # 0 => thread[shown[i].n] = "me"

(* A window that does not show the newest messages knows where to go on,   *)
(* so scrolling down leads to them: pushed messages are withheld from an   *)
(* anchored window, and nothing else would bring them in.                  *)
AnchoredCanGoOn == edge.anchored => edge.moreNewer /\ edge.newer # 0

(* onNewMessage: "The message shows up when the user jumps back to the     *)
(* latest": with nothing on its way, a window that is not anchored and a   *)
(* socket that never left the room, every pushed message below the top of  *)
(* the window is in it.                                                    *)
ShownAtTheTail ==
    LET quiet == pushing = {} /\ \A kind \in Kinds : asked[kind].state = "none" IN
    quiet /\ joined /\ ~edge.anchored
        => \A n \in DOMAIN thread :
               thread[n] = "peer" /\ (\E m \in SavedIn(shown) : m < n) => n \in SavedIn(shown)
=============================================================================
