------------------------------- MODULE Drafts -------------------------------
(***************************************************************************)
(* The drafts one agent has for one enquiry and channel, their attachments *)
(* and the files behind them: DraftService, and the part of                *)
(* OutboundSendService.send that turns a draft into a message.  Files are  *)
(* deleted by a cleanup that any upload starts and nobody waits for.       *)
(***************************************************************************)
EXTENDS Naturals, FiniteSets

CONSTANTS
    DraftIds, Files,  \* rows and uploads there may be
    Calls,            \* slots for requests and cleanups in progress
    Plans             \* how many requests of each kind arrive, [Kinds -> Nat]

Kinds == {
    "save",    \* saveDraft
    "update",  \* updateDraft, saveForLater
    "discard", \* discardDraft
    "add",     \* addAttachment, which starts cleanOrphanedFiles
    "remove",  \* removeAttachment
    "send",    \* send with a draftId
    "expire"}  \* drafts whose expiresAt passes

VARIABLES
    status,   \* OutboundDraft: absent, active, cleared
    fresh,    \* drafts whose expiresAt has not passed
    attached, \* DraftAttachment rows
    old,      \* uploads more than 24 hours old
    stored,   \* files in the bucket
    sent,     \* rows copied to a MessageAttachment, which refers to the same file
    lapsed,   \* drafts that expired or were discarded while active
    job,      \* requests and cleanups in progress
    todo      \* requests still to come

vars == <<status, fresh, attached, old, stored, sent, lapsed, job, todo>>

PlansOK == Plans \subseteq [Kinds -> Nat]

Rows == DraftIds \X Files
NoJob == [kind |-> "none", step |-> "none", draft |-> {}, set |-> {}, keep |-> {}]

DraftsTypeOK ==
    /\ status \in [DraftIds -> {"absent", "active", "cleared"}]
    /\ fresh \subseteq DraftIds /\ lapsed \subseteq DraftIds
    /\ attached \subseteq Rows
    /\ old \subseteq Files /\ stored \subseteq Files /\ sent \subseteq Rows
    /\ \A k \in Calls : job[k].draft \subseteq DraftIds /\ job[k].set \subseteq Rows
                        /\ job[k].keep \subseteq Files
    /\ todo \in [Kinds -> Nat]

(* One draft is being written when the observation begins.                 *)
Init ==
    /\ todo \in Plans
    /\ \E d \in DraftIds :
        /\ status = [e \in DraftIds |-> IF e = d THEN "active" ELSE "absent"]
        /\ fresh = {d}
    /\ attached = {} /\ old = {} /\ stored = {} /\ sent = {} /\ lapsed = {}
    /\ job = [k \in Calls |-> NoJob]

-----------------------------------------------------------------------------
Spend(kind) ==
    /\ todo[kind] > 0
    /\ todo' = [todo EXCEPT ![kind] = @ - 1]
Arrive(k, kind, step, draft, set) ==
    /\ job[k] = NoJob
    /\ Spend(kind)
    /\ job' = [job EXCEPT ![k] = [NoJob EXCEPT !.kind = kind, !.step = step,
                                               !.draft = draft, !.set = set]]
    /\ UNCHANGED <<status, fresh, attached, old, stored, sent, lapsed>>

Save(k) == Arrive(k, "save", "find", {}, {})
Touch(k, d) == status[d] # "absent" /\ Arrive(k, "update", "check", {d}, {})
Discard(k, d) == status[d] # "absent" /\ Arrive(k, "discard", "write", {d}, {})
Send(k, d) == status[d] # "absent" /\ Arrive(k, "send", "check", {d}, {})
Remove(k, row) == row \in attached /\ Arrive(k, "remove", "write", {row[1]}, {row})
(* A file of its own for every upload.                                     *)
Unused(f) ==
    /\ f \notin stored \cup old
    /\ \A r \in attached \cup sent \cup UNION {job[j].set : j \in Calls} : r[2] # f
Add(k, d, f) ==
    /\ status[d] # "absent" /\ Unused(f)
    /\ Arrive(k, "add", "check", {d}, {<<d, f>>})

At(k, kind, step) == job[k].kind = kind /\ job[k].step = step
Goto(k, step) == job' = [job EXCEPT ![k].step = step]
Done(k) == job' = [job EXCEPT ![k] = NoJob]
Sole(S) == CHOOSE e \in S : TRUE

(* Whatever awaits may fail; what was done before stays.                   *)
Fail(k) ==
    /\ job[k] # NoJob
    /\ Done(k)
    /\ UNCHANGED <<status, fresh, attached, old, stored, sent, lapsed, todo>>

(* saveDraft: look for a live draft, then write it or create one.          *)
FindDraft(k) ==
    LET live == {d \in fresh : status[d] = "active"} IN
    /\ At(k, "save", "find")
    /\ job' = [job EXCEPT ![k].step = "write",
                          ![k].draft = IF live = {} THEN {} ELSE {Sole(live)}]
    /\ UNCHANGED <<status, fresh, attached, old, stored, sent, lapsed, todo>>
WriteDraft(k) ==
    /\ At(k, "save", "write")
    /\ IF job[k].draft # {}
       THEN fresh' = fresh \cup job[k].draft /\ UNCHANGED status
       ELSE \E d \in DraftIds :
            /\ status[d] = "absent"
            /\ status' = [status EXCEPT ![d] = "active"]
            /\ fresh' = fresh \cup {d}
    /\ Done(k)
    /\ UNCHANGED <<attached, old, stored, sent, lapsed, todo>>

(* updateDraft, addAttachment and send look at the status, not at the      *)
(* expiry, and refuse a draft that is not ACTIVE.                          *)
AfterCheck == [update |-> "write", add |-> "upload", send |-> "list"]
CheckActive(k) ==
    /\ job[k].kind \in DOMAIN AfterCheck /\ job[k].step = "check"
    /\ IF status[Sole(job[k].draft)] = "active"
       THEN Goto(k, AfterCheck[job[k].kind]) ELSE Done(k)
    /\ UNCHANGED <<status, fresh, attached, old, stored, sent, lapsed, todo>>

WriteUpdate(k) ==
    /\ At(k, "update", "write")
    /\ fresh' = fresh \cup job[k].draft
    /\ Done(k)
    /\ UNCHANGED <<status, attached, old, stored, sent, lapsed, todo>>

WriteDiscard(k) ==
    /\ At(k, "discard", "write")
    /\ status' = [status EXCEPT ![Sole(job[k].draft)] = "cleared"]
    /\ lapsed' = lapsed \cup {d \in job[k].draft : status[d] = "active"}
    /\ Done(k)
    /\ UNCHANGED <<fresh, attached, old, stored, sent, todo>>

Upload(k) ==
    /\ At(k, "add", "upload")
    /\ stored' = stored \cup {r[2] : r \in job[k].set}
    /\ Goto(k, "row")
    /\ UNCHANGED <<status, fresh, attached, old, sent, lapsed, todo>>
(* The slot goes on as the cleanup nobody waits for.                       *)
AttachRow(k) ==
    /\ At(k, "add", "row")
    /\ attached' = attached \cup job[k].set
    /\ job' = [job EXCEPT ![k] = [NoJob EXCEPT !.kind = "clean", !.step = "candidates"]]
    /\ UNCHANGED <<status, fresh, old, stored, sent, lapsed, todo>>

(* Only the row: the file stays for a cleanup that finds files by rows.    *)
DetachRow(k) ==
    /\ At(k, "remove", "write")
    /\ attached' = attached \ job[k].set
    /\ Done(k)
    /\ UNCHANGED <<status, fresh, old, stored, sent, lapsed, todo>>

-----------------------------------------------------------------------------
(* send: the message is stored, the attachments read again and copied, the *)
(* draft cleared.                                                          *)
ListAttachments(k) ==
    /\ At(k, "send", "list")
    /\ job' = [job EXCEPT ![k].step = "copy", ![k].set = {r \in attached : r[1] \in job[k].draft}]
    /\ UNCHANGED <<status, fresh, attached, old, stored, sent, lapsed, todo>>
CopyAttachments(k) ==
    /\ At(k, "send", "copy")
    /\ sent' = sent \cup job[k].set
    /\ Goto(k, "clear")
    /\ UNCHANGED <<status, fresh, attached, old, stored, lapsed, todo>>
ClearDraft(k) ==
    /\ At(k, "send", "clear")
    /\ status' = [status EXCEPT ![Sole(job[k].draft)] = "cleared"]
    /\ Done(k)
    /\ UNCHANGED <<fresh, attached, old, stored, sent, lapsed, todo>>

-----------------------------------------------------------------------------
(* cleanOrphanedFiles.  Mutant of Abandoned: drafts still being written    *)
(* count once their files are old. *)
AnyOld(row) == row[2] \in old
Abandoned(row) ==
    /\ row[2] \in old
    /\ status[row[1]] = "cleared" \/ row[1] \notin fresh
FindCandidates(k) ==
    LET found == {r \in attached : Abandoned(r)} IN
    /\ At(k, "clean", "candidates")
    /\ IF found = {} THEN Done(k)
       ELSE job' = [job EXCEPT ![k].step = "references", ![k].set = found]
    /\ UNCHANGED <<status, fresh, attached, old, stored, sent, lapsed, todo>>
(* Mutant of FindReferences: nothing is looked up. *)
KeepNothing(k) ==
    /\ At(k, "clean", "references")
    /\ Goto(k, "delete")
    /\ UNCHANGED <<status, fresh, attached, old, stored, sent, lapsed, todo>>
FindReferences(k) ==
    /\ At(k, "clean", "references")
    /\ job' = [job EXCEPT ![k].step = "delete", ![k].keep = {r[2] : r \in sent}]
    /\ UNCHANGED <<status, fresh, attached, old, stored, sent, lapsed, todo>>
(* Nobody waits for the deletions; some may fail.                          *)
DeleteFiles(k) ==
    /\ At(k, "clean", "delete")
    /\ \E failing \in SUBSET {r[2] : r \in job[k].set} :
           stored' = stored \ ({r[2] : r \in job[k].set} \ (job[k].keep \cup failing))
    /\ Goto(k, "rows")
    /\ UNCHANGED <<status, fresh, attached, old, sent, lapsed, todo>>
DeleteRows(k) ==
    /\ At(k, "clean", "rows")
    /\ attached' = attached \ job[k].set
    /\ Done(k)
    /\ UNCHANGED <<status, fresh, old, stored, sent, lapsed, todo>>

(* Time.                                                                   *)
Expire(d) ==
    /\ status[d] = "active" /\ d \in fresh
    /\ Spend("expire")
    /\ fresh' = fresh \ {d}
    /\ lapsed' = lapsed \cup {d}
    /\ UNCHANGED <<status, attached, old, stored, sent, job>>
(* A day passes for a file between requests, which take seconds.           *)
Age(f) ==
    /\ f \in stored \ old /\ \A k \in Calls : job[k] = NoJob
    /\ old' = old \cup {f}
    /\ UNCHANGED <<status, fresh, attached, stored, sent, lapsed, job, todo>>

-----------------------------------------------------------------------------
Advance(k) ==
    \/ FindDraft(k) \/ WriteDraft(k) \/ CheckActive(k) \/ WriteUpdate(k) \/ WriteDiscard(k)
    \/ Upload(k) \/ AttachRow(k) \/ DetachRow(k)
    \/ ListAttachments(k) \/ CopyAttachments(k) \/ ClearDraft(k)
    \/ FindCandidates(k) \/ FindReferences(k) \/ DeleteFiles(k) \/ DeleteRows(k)
Next ==
    \/ \E k \in Calls : Advance(k) \/ Fail(k) \/ Save(k)
    \/ \E k \in Calls, d \in DraftIds : Touch(k, d) \/ Discard(k, d) \/ Send(k, d)
    \/ \E k \in Calls, d \in DraftIds, f \in Files : Add(k, d, f) \/ Remove(k, <<d, f>>)
    \/ \E d \in DraftIds : Expire(d)
    \/ \E f \in Files : Age(f)

Spec == Init /\ [][Next]_vars

-----------------------------------------------------------------------------
(* cleanOrphanedFiles "only deletes storage if the file is not referenced  *)
(* by any sent MessageAttachment": the file of a sent attachment, or of a  *)
(* draft still being written, is there, whatever sends, saves, removals    *)
(* and cleanups overlap or fail, unless the draft had expired or was       *)
(* discarded while it was active: its files may then be chosen for         *)
(* deletion before a message refers to them.                               *)
FilesKept ==
    \A row \in sent \cup {r \in attached : status[r[1]] = "active"} :
        row[2] \in stored \/ row[1] \in lapsed
=============================================================================
