---------------------------- MODULE ChatMessages ----------------------------
(***************************************************************************)
(* One message of a team-chat conversation after it was sent: it is edited *)
(* and deleted by its author, pinned, starred, reacted to and hidden by    *)
(* anybody.  ChatService reads the row, writes it and emits an event in    *)
(* three steps; a browser holds copies of the row in its thread, in the    *)
(* pinned banner and in the Starred tab, and changes them on its own       *)
(* answers and on pushes, which overtake each other.                       *)
(***************************************************************************)
EXTENDS Naturals, Sequences, FiniteSets

CONSTANTS
    Owner,   \* the windows and whose they are, [Windows -> users]
    Author,  \* who sent the message
    Chores,  \* what a behaviour has to do, see Init
    None     \* no copy

Windows == DOMAIN Owner
ChoresOK ==
    /\ None \notin Windows
    /\ \A day \in Chores : /\ {day.pinned, day.starred} \subseteq BOOLEAN
                           /\ day.left \in [DOMAIN day.left -> Nat]
Viewers == {Owner[w] : w \in Windows} \cup {Author}

VARIABLES
    row,     \* the message in the database
    window,  \* what each window shows
    pushes,  \* events on their way to each window, in order
    calls,   \* server calls in progress: a function from [operation, window, number]
    chores   \* what is left of the bounds

vars == <<row, window, pushes, calls, chores>>

Lists == {"pins", "stars"}
Changes == {"pin", "unpin", "star", "unstar", "edit", "delete", "hide", "react"}
Copy == [text: {"old", "new", "gone"}, deleted: BOOLEAN,
         pinned: BOOLEAN, starred: BOOLEAN, reacts: SUBSET Viewers]
Row == [text: {"old", "new", "gone"}, deleted: BOOLEAN,
        pinned: BOOLEAN, starred: BOOLEAN, reacts: SUBSET Viewers, hidden: SUBSET Viewers]

(* What a query returns of the row, and the copy a window keeps of it.     *)
CopyOf(r) == [text |-> r.text, deleted |-> r.deleted, pinned |-> r.pinned,
              starred |-> r.starred, reacts |-> r.reacts]
Copies == Copy \cup {None}

(* A window is closed, has asked for its first page, shows it or failed.   *)
(* "late" says what had happened to the row when it was opened.            *)
Closed == [stage |-> "closed", joined |-> FALSE, late |-> {},
           msg |-> None, pins |-> None, stars |-> None]
Window == [stage: {"closed", "loading", "open", "error"}, joined: BOOLEAN,
           late: SUBSET {"deleted", "hidden"}, msg: Copies, pins: Copies, stars: Copies]

(* "was" is the flag the server read or the reaction it left; "mine" the   *)
(* reaction the browser had before its optimistic flip.                    *)
Call == [op: Changes \cup Lists \cup {"load"}, by: Viewers, w: Windows \cup {None},
         step: {"read", "write", "remove", "emit", "answer", "failed"},
         got: Copies, was: BOOLEAN, mine: BOOLEAN]
Event == [op: Changes, by: Viewers, on: BOOLEAN, text: {"old", "new", "gone"}]

ChatMessagesTypeOK ==
    /\ row \in Row
    /\ window \in [Windows -> Window]
    /\ \A w \in Windows : \A i \in DOMAIN pushes[w] : pushes[w][i] \in Event
    /\ \A k \in DOMAIN calls : calls[k] \in Call
    /\ \A what \in DOMAIN chores : chores[what] \in Nat

(* A behaviour starts with a row and with some windows that show it.       *)
Init ==
    /\ \E day \in Chores :
        /\ row = [text |-> "old", deleted |-> FALSE, pinned |-> day.pinned,
                  starred |-> day.starred, reacts |-> {}, hidden |-> {}]
        /\ window = [w \in Windows |->
              IF w \in day.shown
                THEN [Closed EXCEPT !.stage = "open", !.joined = TRUE, !.msg = CopyOf(row),
                                    !.pins = IF row.pinned THEN CopyOf(row) ELSE None,
                                    !.stars = IF row.starred THEN CopyOf(row) ELSE None]
                ELSE Closed]
        /\ chores = day.left
    /\ pushes = [w \in Windows |-> <<>>]
    /\ calls = <<>>

Spend(what) ==
    /\ chores[what] > 0
    /\ chores' = [chores EXCEPT ![what] = @ - 1]

-----------------------------------------------------------------------------
(* The calls in progress.                                                  *)
Fresh(cs, op, w) ==
    <<op, w, CHOOSE n \in 1..(Cardinality(DOMAIN cs) + 1) :
                /\ <<op, w, n>> \notin DOMAIN cs
                /\ \A m \in 1..(n - 1) : <<op, w, m>> \in DOMAIN cs>>
Started(cs, op, w, mine) ==
    [k \in DOMAIN cs \cup {Fresh(cs, op, w)} |->
        IF k \in DOMAIN cs THEN cs[k]
        ELSE [op |-> op, by |-> Owner[w], w |-> w, step |-> "read",
              got |-> None, was |-> FALSE, mine |-> mine]]
Ended(k) == [n \in DOMAIN calls \ {k} |-> calls[n]]
(* fetchPinned, fetchStarred *)
Refetch(cs, list, w) == Started(cs, list, w, FALSE)
To(k, step) == calls' = [calls EXCEPT ![k].step = step]
At(k, ops, step) ==
    /\ k \in DOMAIN calls
    /\ calls[k].op \in ops
    /\ calls[k].step = step
Reject(k) == To(k, "failed") /\ UNCHANGED <<row, window, pushes, chores>>

-----------------------------------------------------------------------------
(* The server: queries.                                                    *)
Visible(u) == u \notin row.hidden
Answers(k, copy) ==
    /\ calls' = [calls EXCEPT ![k].step = "answer", ![k].got = copy]
    /\ UNCHANGED <<row, window, pushes, chores>>
GetMessages(k) ==
    /\ At(k, {"load"}, "read")
    /\ Answers(k, IF Visible(calls[k].by) THEN CopyOf(row) ELSE None)
(* Mutant: the condition on isDeleted is missing. *)
GetEveryPinned(k) ==
    /\ At(k, {"pins"}, "read")
    /\ Answers(k, IF row.pinned /\ Visible(calls[k].by) THEN CopyOf(row) ELSE None)
GetPinnedMessages(k) ==
    /\ At(k, {"pins"}, "read")
    /\ Answers(k, IF row.pinned /\ ~row.deleted /\ Visible(calls[k].by) THEN CopyOf(row) ELSE None)
GetStarredMessages(k) ==
    /\ At(k, {"stars"}, "read")
    /\ Answers(k, IF row.starred /\ ~row.deleted /\ Visible(calls[k].by) THEN CopyOf(row) ELSE None)

(* The server: a change reads the row and decides, and then writes it; the *)
(* event goes out when the write has returned the row.                     *)
ReadFor(k, was) ==
    /\ calls' = [calls EXCEPT ![k].step = "write", ![k].was = was]
    /\ UNCHANGED <<row, window, pushes, chores>>
Write(k, new) ==
    /\ row' = new
    /\ calls' = [calls EXCEPT ![k].step = "emit", ![k].got = CopyOf(new)]
    /\ UNCHANGED <<window, pushes, chores>>

TogglePinMessage(k) ==
    \/ At(k, {"pin", "unpin"}, "read") /\ ReadFor(k, row.pinned)
    \/ At(k, {"pin", "unpin"}, "write") /\ Write(k, [row EXCEPT !.pinned = ~calls[k].was])
ToggleStarMessage(k) ==
    \/ At(k, {"star", "unstar"}, "read") /\ ReadFor(k, row.starred)
    \/ At(k, {"star", "unstar"}, "write") /\ Write(k, [row EXCEPT !.starred = ~calls[k].was])
Editable(u) == u = Author /\ ~row.deleted
EditMessage(k) ==
    \/ At(k, {"edit"}, "read") /\ Editable(calls[k].by) /\ ReadFor(k, FALSE)
    \/ At(k, {"edit"}, "read") /\ ~Editable(calls[k].by) /\ Reject(k)
    \/ At(k, {"edit"}, "write") /\ Write(k, [row EXCEPT !.text = "new"])
DeleteMessageForEveryone(k) ==
    \/ At(k, {"delete"}, "read") /\ calls[k].by = Author /\ ReadFor(k, FALSE)
    \/ At(k, {"delete"}, "read") /\ calls[k].by # Author /\ Reject(k)
    \/ At(k, {"delete"}, "write") /\ Write(k, [row EXCEPT !.deleted = TRUE, !.text = "gone"])
DeleteMessageForMe(k) ==
    LET u == calls[k].by IN
    \/ At(k, {"hide"}, "read") /\ Visible(u) /\ ReadFor(k, FALSE)
    \/ At(k, {"hide"}, "read") /\ ~Visible(u) /\ Answers(k, CopyOf(row))
    \/ /\ At(k, {"hide"}, "write")
       /\ row' = [row EXCEPT !.hidden = @ \cup {u}]
       /\ To(k, "answer")
       /\ UNCHANGED <<window, pushes, chores>>

(* The row of a reaction is unique: the insertion that finds it there      *)
(* deletes it.                                                             *)
Reacted(k, reacts, added) ==
    /\ row' = [row EXCEPT !.reacts = reacts]
    /\ calls' = [calls EXCEPT ![k].step = "emit", ![k].was = added]
    /\ UNCHANGED <<window, pushes, chores>>
ToggleReaction(k) ==
    LET u == calls[k].by IN
    \/ At(k, {"react"}, "read") /\ ~row.deleted /\ ReadFor(k, FALSE)
    \/ At(k, {"react"}, "read") /\ row.deleted /\ Reject(k)
    \/ At(k, {"react"}, "write") /\ u \notin row.reacts /\ Reacted(k, row.reacts \cup {u}, TRUE)
    \/ /\ At(k, {"react"}, "write") /\ u \in row.reacts
       /\ To(k, "remove") /\ UNCHANGED <<row, window, pushes, chores>>
    \/ At(k, {"react"}, "remove") /\ Reacted(k, row.reacts \ {u}, FALSE)

(* AppEventHandler: to every socket in the room, the sender's too.         *)
EventOf(c) ==
    [op |-> c.op, by |-> c.by, text |-> "new",
     on |-> CASE c.op \in {"pin", "unpin"} -> c.got.pinned
              [] c.op \in {"star", "unstar"} -> c.got.starred
              [] OTHER -> c.was]
Emit(k) ==
    /\ At(k, Changes, "emit")
    /\ pushes' = [w \in Windows |->
          IF window[w].joined THEN Append(pushes[w], EventOf(calls[k])) ELSE pushes[w]]
    /\ To(k, "answer")
    /\ UNCHANGED <<row, window, chores>>

(* A request is lost before it arrives, or its answer is.                  *)
Lose(k) ==
    /\ Spend("losses")
    /\ k \in DOMAIN calls
    /\ calls[k].step \in {"read", "answer"}
    /\ To(k, "failed")
    /\ UNCHANGED <<row, window, pushes>>

-----------------------------------------------------------------------------
(* The browser: what a push does to the copies of its message.             *)
OnMessagePinned(v, e) ==
    [v EXCEPT !.msg = IF @ = None THEN None ELSE [@ EXCEPT !.pinned = e.on],
              !.pins = IF e.on THEN @ ELSE None]
OnMessageStarred(v, e) ==
    [v EXCEPT !.msg = IF @ = None THEN None ELSE [@ EXCEPT !.starred = e.on],
              !.stars = IF e.on THEN @ ELSE None]
OnMessageEdited(v, e) ==
    [v EXCEPT !.msg = IF @ = None THEN None ELSE [@ EXCEPT !.text = e.text],
              !.pins = IF @ = None THEN None ELSE [@ EXCEPT !.text = e.text],
              !.stars = IF @ = None THEN None ELSE [@ EXCEPT !.text = e.text]]
OnMessageDeleted(v) ==
    [v EXCEPT !.msg = IF @ = None THEN None ELSE [@ EXCEPT !.deleted = TRUE, !.text = "gone"],
              !.pins = None, !.stars = None]
ReactedBy(copy, u, there) ==
    [copy EXCEPT !.reacts = IF there THEN @ \cup {u} ELSE @ \ {u}]
Reaction(v, u, there) ==
    [v EXCEPT !.msg = IF @ = None THEN None ELSE ReactedBy(@, u, there)]
OnMessageReacted(v, e) == Reaction(v, e.by, e.on)

AfterPush(v, e) ==
    CASE e.op \in {"pin", "unpin"} -> OnMessagePinned(v, e)
      [] e.op \in {"star", "unstar"} -> OnMessageStarred(v, e)
      [] e.op = "edit" -> OnMessageEdited(v, e)
      [] e.op = "delete" -> OnMessageDeleted(v)
      [] e.op = "react" -> OnMessageReacted(v, e)
FetchAfterPush(w, e) ==
    CASE e.op \in {"pin", "unpin"} /\ e.on -> Refetch(calls, "pins", w)
      [] e.op \in {"star", "unstar"} /\ e.on -> Refetch(calls, "stars", w)
      [] OTHER -> calls

(* A window without listeners drops what arrives.                          *)
Push(w) ==
    /\ pushes[w] # <<>>
    /\ LET e == Head(pushes[w]) IN
        IF window[w].stage = "closed" THEN UNCHANGED <<window, calls>>
        ELSE /\ window' = [window EXCEPT ![w] = AfterPush(@, e)]
             /\ calls' = FetchAfterPush(w, e)
    /\ pushes' = [pushes EXCEPT ![w] = Tail(@)]
    /\ UNCHANGED <<row, chores>>

(* The browser: what the answer to its own call does.                      *)
DeletedHere(v) ==
    [v EXCEPT !.msg = IF @ = None THEN None ELSE [@ EXCEPT !.deleted = TRUE, !.text = "gone"],
              !.pins = None]
HiddenHere(v) == [v EXCEPT !.msg = None, !.pins = None]
EditedHere(v, copy) ==
    [v EXCEPT !.msg = IF @ = None THEN None ELSE copy,
              !.pins = IF @ = None THEN None ELSE copy]
PinnedHere(v, copy) == OnMessagePinned(v, [on |-> copy.pinned])
UnpinnedHere(v, copy) == [PinnedHere(v, copy) EXCEPT !.pins = None]
StarredHere(v, copy) ==
    [v EXCEPT !.msg = IF @ = None THEN None ELSE [@ EXCEPT !.starred = copy.starred]]
UnstarredHere(v) == OnMessageStarred(v, [on |-> FALSE])
AfterAnswer(v, c) ==
    CASE c.op = "load" -> [v EXCEPT !.stage = "open", !.msg = c.got]
      [] c.op = "pins" -> [v EXCEPT !.pins = c.got]
      [] c.op = "stars" -> [v EXCEPT !.stars = c.got]
      [] c.op = "pin" -> PinnedHere(v, c.got)
      [] c.op = "unpin" -> UnpinnedHere(v, c.got)
      [] c.op = "star" -> StarredHere(v, c.got)
      [] c.op = "unstar" -> UnstarredHere(v)
      [] c.op = "edit" -> EditedHere(v, c.got)
      [] c.op = "delete" -> DeletedHere(v)
      [] c.op = "hide" -> HiddenHere(v)
      [] c.op = "react" -> v
AfterFailure(v, c) ==
    CASE c.op = "load" -> [v EXCEPT !.stage = "error"]
      [] c.op = "react" -> Reaction(v, c.by, c.mine)
      [] OTHER -> v

Answer(k) ==
    /\ k \in DOMAIN calls
    /\ calls[k].step \in {"answer", "failed"}
    /\ LET c == calls[k]
           w == c.w IN
       IF w = None THEN calls' = Ended(k) /\ UNCHANGED window
       ELSE /\ window' = [window EXCEPT ![w] =
                  IF c.step = "answer" THEN AfterAnswer(@, c) ELSE AfterFailure(@, c)]
            /\ calls' = IF c.op = "pin" /\ c.step = "answer" /\ c.got.pinned
                          THEN Refetch(Ended(k), "pins", w) ELSE Ended(k)
    /\ UNCHANGED <<row, pushes, chores>>

(* The browser: the menu of a message, the banner, the tab.  The form of   *)
(* an edit and the question before a deletion outlive the message.         *)
Offered(w, op) ==
    LET v == window[w]
        live == v.msg # None /\ ~v.msg.deleted IN
    CASE op \in {"pin", "star", "react"} -> live
      [] op = "unpin" -> v.pins # None
      [] op = "unstar" -> v.stars # None
      [] op \in {"edit", "delete"} -> Owner[w] = Author /\ v.stage = "open" /\ (live \/ v.late = {})
      [] op = "hide" -> v.stage = "open" /\ (live \/ v.late = {})
HandleToggleReaction(v, u) == Reaction(v, u, u \notin v.msg.reacts)
Click(w, op) ==
    /\ Spend(op)
    /\ Offered(w, op)
    /\ LET u == Owner[w]
           mine == op = "react" /\ u \in window[w].msg.reacts IN
       /\ calls' = Started(calls, op, w, mine)
       /\ window' = IF op = "react" THEN [window EXCEPT ![w] = HandleToggleReaction(@, u)]
                                    ELSE window
    /\ UNCHANGED <<row, pushes>>

(* Opening asks for a page and both lists at once; the socket may still be *)
(* in the room from before, or joins later.                                *)
Open(w) ==
    /\ Spend("opens")
    /\ window[w].stage = "closed"
    /\ \E joined \in {FALSE, window[w].joined} :
        window' = [window EXCEPT ![w] =
            [Closed EXCEPT !.stage = "loading", !.joined = joined,
                           !.late = {"deleted" : d \in {row.deleted} \ {FALSE}}
                                    \cup {"hidden" : h \in {Visible(Owner[w])} \ {TRUE}}]]
    /\ calls' = Refetch(Refetch(Started(calls, "load", w, FALSE), "pins", w), "stars", w)
    /\ UNCHANGED <<row, pushes>>
SocketMoves(w) ==
    /\ window[w].joined = (window[w].stage = "closed")
    /\ window' = [window EXCEPT ![w].joined = ~@]
    /\ UNCHANGED <<row, pushes, calls, chores>>
Close(w) ==
    /\ window[w].stage # "closed"
    /\ chores["opens"] > 0
    /\ window' = [window EXCEPT ![w] = [Closed EXCEPT !.joined = window[w].joined]]
    /\ calls' = [k \in DOMAIN calls |->
                   IF calls[k].w = w THEN [calls[k] EXCEPT !.w = None] ELSE calls[k]]
    /\ UNCHANGED <<row, pushes, chores>>

Serve(k) ==
    \/ GetMessages(k) \/ GetPinnedMessages(k) \/ GetStarredMessages(k)
    \/ TogglePinMessage(k) \/ ToggleStarMessage(k) \/ EditMessage(k)
    \/ DeleteMessageForEveryone(k) \/ DeleteMessageForMe(k) \/ ToggleReaction(k)

Next ==
    \/ \E k \in DOMAIN calls : Serve(k) \/ Emit(k) \/ Lose(k) \/ Answer(k)
    \/ \E w \in Windows :
        \/ Push(w) \/ Open(w) \/ SocketMoves(w) \/ Close(w)
        \/ \E op \in Changes : Click(w, op)
Spec == Init /\ [][Next]_vars

-----------------------------------------------------------------------------
(* ChatService.deleteMessageForEveryone, deleteMessageForMe and the lists  *)
(* of TeamChatRoom: a window opened after a message was deleted, or hidden *)
(* by its user, shows it neither in the thread nor in the banner nor in    *)
(* the Starred tab, whatever edits, toggles, answers and pushes of before  *)
(* are still on their way.                                                 *)
GoneStaysGone ==
    \A w \in Windows :
        LET v == window[w] IN
        /\ v.late # {} => v.pins = None /\ v.stars = None
        /\ "hidden" \in v.late => v.msg = None
        /\ "deleted" \in v.late => v.msg = None \/ v.msg.deleted
=============================================================================
